------------------------ MODULE WorkloadEditor_proofs ------------------------
(***************************************************************************)
(* Proofs about the create page, for every set of texts, inputs, objects   *)
(* and visits: types; that a passed pre-check is about what the page       *)
(* shows; that the way through the form never weakens the rules that keep  *)
(* a workload's Pods away from nodes and from other Pods; that what the    *)
(* user enters is written; that a text the form can say comes back from it *)
(* as it was; and that the page's own texts are written again as they are. *)
(* Parsers and builders walk through lists of any length; the induction    *)
(* over them is done with sets of indices (SetInduction, DownInduction).   *)
(***************************************************************************)
EXTENDS WorkloadEditor, WellFoundedInduction, SequenceTheorems, TLAPS

-----------------------------------------------------------------------------
(* Scheduling rules.                                                       *)

(* An expression without the empty value means the same after its values   *)
(* went through a comma-separated text (parseCommaString).                 *)
LEMMA ParsedMeansTheSame ==
    ASSUME NEW object, NEW e, Blank \notin e.values
    PROVE  Satisfies(object, Parsed(e)) <=> Satisfies(object, e)
<1>1. parseCommaString(e.values) = e.values
  BY DEF parseCommaString
<1>2. /\ Parsed(e).key = e.key /\ Parsed(e).operator = e.operator
      /\ Parsed(e).values = e.values
  BY <1>1 DEF Parsed
<1> QED
  BY <1>2 DEF Satisfies

(* The rows of required node rules become one term with all expressions    *)
(* of all terms (yamlCommonService.ts 433-452 and 658-676): a node that    *)
(* satisfies it satisfies every term that had expressions, so the form     *)
(* never admits a node that the text kept out.                             *)
THEOREM NodeRoundTrip ==
    ASSUME NEW a, NEW b, NEW node,
           PlainNodeRules(a),
           "nodeAffinityRequired" \in DOMAIN a =>
               /\ "nodeAffinityRequired" \in DOMAIN b
               /\ b["nodeAffinityRequired"] = NodeTerms(NodeRows(a["nodeAffinityRequired"])),
           RulesAllow(node, b)
    PROVE  RulesAllow(node, a)
<1> SUFFICES ASSUME "nodeAffinityRequired" \in DOMAIN a
             PROVE  \E term \in a["nodeAffinityRequired"] : TermHolds(node, term)
  BY DEF RulesAllow
<1> DEFINE terms == a["nodeAffinityRequired"]
           rows == NodeRows(terms)
           joined == NodeTerm({Parsed(e) : e \in rows})
<1>1. PICK t \in terms : t.expressions # {}
  BY DEF PlainNodeRules
<1>2. t.fields = {} /\ NoBlanks(t.expressions)
  BY <1>1 DEF PlainNodeRules
<1>3. TermHolds(node, joined)
  BY DEF RulesAllow, NodeTerms
<1>4. joined.expressions = {Parsed(e) : e \in rows}
  BY DEF NodeTerm
<1>5. ASSUME NEW e \in t.expressions
      PROVE  Satisfies(node, e)
  <2>1. e \in rows
    BY <1>1 DEF NodeRows
  <2>2. Satisfies(node, Parsed(e))
    BY <2>1, <1>3, <1>4 DEF TermHolds
  <2> QED
    BY <2>2, <1>2, ParsedMeansTheSame DEF NoBlanks
<1> QED
  BY <1>1, <1>2, <1>5 DEF TermHolds

(* A row's term selects the Pods that its expression is true of.           *)
LEMMA RowSelects ==
    ASSUME NEW pod, NEW key, NEW e, Blank \notin e.values
    PROVE  LET term == PodTerm([topologyKey |-> key, expression |-> e])
           IN /\ term.topologyKey = key
              /\ Selected(pod, term) <=> Satisfies(pod, e)
<1> DEFINE term == PodTerm([topologyKey |-> key, expression |-> e])
<1>1. term.topologyKey = key /\ term.expressions = {Parsed(e)} /\ DOMAIN term.labels = {}
  BY DEF PodTerm
<1> HIDE DEF term
<1>2. Expressions(term) = {Parsed(e)}
  BY <1>1 DEF Expressions
<1>3. Selected(pod, term) <=> Satisfies(pod, Parsed(e))
  BY <1>2 DEF Selected
<1> QED
  BY <1>1, <1>3, ParsedMeansTheSame DEF term

(* Every expression of a Pod term becomes a term of its own                *)
(* (yamlCommonService.ts 566-645 and 750-788).  For anti-affinity that is  *)
(* at least as strict: a place with no Pod that any of them selects has    *)
(* no Pod that the whole term selects.                                     *)
THEOREM AntiRoundTrip ==
    ASSUME NEW a, NEW b, NEW pods,
           PlainAntiRules(a),
           "podAntiAffinityRequired" \in DOMAIN a
             /\ a["podAntiAffinityRequired"] # {} =>
               /\ "podAntiAffinityRequired" \in DOMAIN b
               /\ b["podAntiAffinityRequired"] = PodTerms(PodRows(a["podAntiAffinityRequired"])),
           AntiAllowed(pods, b)
    PROVE  AntiAllowed(pods, a)
<1> SUFFICES ASSUME "podAntiAffinityRequired" \in DOMAIN a,
                    NEW t \in a["podAntiAffinityRequired"],
                    NEW pod \in pods[t.topologyKey],
                    Selected(pod, t)
             PROVE  FALSE
  BY DEF AntiAllowed
<1>1. PICK e \in Expressions(t) : Blank \notin e.values
  BY DEF PlainAntiRules, NoBlanks
<1> DEFINE row == [topologyKey |-> t.topologyKey, expression |-> e]
<1>2. row \in PodRows(a["podAntiAffinityRequired"])
  BY <1>1 DEF PodRows
<1>3. PodTerm(row) \in b["podAntiAffinityRequired"]
  BY <1>2 DEF PodTerms
<1>4. PodTerm(row).topologyKey = t.topologyKey /\ Selected(pod, PodTerm(row))
  BY <1>1, RowSelects DEF Selected
<1>5. ~Selected(pod, PodTerm(row))
  BY <1>3, <1>4 DEF AntiAllowed
<1> QED
  BY <1>4, <1>5

(* For affinity it is as strict if the term had one expression only.       *)
THEOREM NearRoundTrip ==
    ASSUME NEW a, NEW b, NEW pods,
           PlainNearRules(a),
           "podAffinityRequired" \in DOMAIN a
             /\ a["podAffinityRequired"] # {} =>
               /\ "podAffinityRequired" \in DOMAIN b
               /\ b["podAffinityRequired"] = PodTerms(PodRows(a["podAffinityRequired"])),
           NearAllowed(pods, b)
    PROVE  NearAllowed(pods, a)
<1> SUFFICES ASSUME "podAffinityRequired" \in DOMAIN a,
                    NEW t \in a["podAffinityRequired"]
             PROVE  \E pod \in pods[t.topologyKey] : Selected(pod, t)
  BY DEF NearAllowed
<1>1. PICK e : Expressions(t) = {e}
  BY DEF PlainNearRules, One
<1>2. Blank \notin e.values
  BY <1>1 DEF PlainNearRules, NoBlanks
<1> DEFINE row == [topologyKey |-> t.topologyKey, expression |-> e]
<1>3. row \in PodRows(a["podAffinityRequired"])
  BY <1>1 DEF PodRows
<1>4. PodTerm(row) \in b["podAffinityRequired"]
  BY <1>3 DEF PodTerms
<1>5. PodTerm(row).topologyKey = t.topologyKey
  BY <1>2, RowSelects
<1>6. PICK pod \in pods[t.topologyKey] : Selected(pod, PodTerm(row))
  BY <1>4, <1>5 DEF NearAllowed
<1>7. Satisfies(pod, e)
  BY <1>2, <1>6, RowSelects
<1> QED
  BY <1>1, <1>6, <1>7 DEF Selected
-----------------------------------------------------------------------------
(* The conversions around them.                                            *)

(* yamlToFormData hands over every rule that has rows (lines 999-1000).    *)
LEMMA ParseKeepsRules ==
    ASSUME NEW doc,
           parseAffinityToScheduling(Given(doc.pod, "affinity", Nothing)) # Nothing
    PROVE  /\ "scheduling" \in DOMAIN yamlToFormData(doc)
           /\ yamlToFormData(doc)["scheduling"] =
                  parseAffinityToScheduling(Given(doc.pod, "affinity", Nothing))
<1> DEFINE parsed == parseAffinityToScheduling(Given(doc.pod, "affinity", Nothing))
           one == [f \in {g \in {"scheduling"} : parsed # Nothing} |-> parsed]
<1>1. DOMAIN one = {"scheduling"} /\ one["scheduling"] = parsed
  OBVIOUS
<1>2. "scheduling" \in DOMAIN ParsePod(doc.pod) /\ ParsePod(doc.pod)["scheduling"] = parsed
  <2> HIDE DEF one
  <2>1. ParsePod(doc.pod) = Override(ReadPod(doc.pod), one)
    BY DEF ParsePod, one
  <2> QED
    BY <1>1, <2>1 DEF Override
<1>3. /\ "scheduling" \in DOMAIN parseCommonFields(doc)
      /\ parseCommonFields(doc)["scheduling"] = parsed
  <2> DEFINE meta == [name |-> doc.name, labels |-> doc.labels,
                      annotations |-> doc.annotations]
             described == [f \in {"description"} \cap DOMAIN doc.annotations |->
                              doc.annotations[f]]
  <2>1. parseCommonFields(doc) = Override(Override(meta, ParsePod(doc.pod)), described)
    BY DEF parseCommonFields
  <2>2. "scheduling" \notin DOMAIN described
    OBVIOUS
  <2> HIDE DEF meta, described
  <2> QED
    BY <1>2, <2>1, <2>2 DEF Override
<1>4. PICK spec : /\ yamlToFormData(doc) = Override(parseCommonFields(doc), spec)
                  /\ "scheduling" \notin DOMAIN spec
  <2> DEFINE strategy == [f \in {g \in {"rolloutStrategy"} : HasStrategy(doc)}
                            |-> RolloutStrategy(doc.spec["strategy"])]
             rollout == Override(Pick(doc.spec, {"replicas"} \cup Times), strategy)
             plain == Pick(doc.spec, ResourceFields(doc))
  <2>1. yamlToFormData(doc) =
            Override(parseCommonFields(doc), IF IsRollout(doc) THEN rollout ELSE plain)
    BY DEF yamlToFormData
  <2>2. "scheduling" \notin DOMAIN rollout
    <3>1. "scheduling" \notin DOMAIN strategy
      OBVIOUS
    <3>2. "scheduling" \notin {"replicas"} \cup Times
      BY DEF Times
    <3> HIDE DEF strategy
    <3> QED
      BY <3>1, <3>2 DEF Override, Pick
  <2>3. "scheduling" \notin DOMAIN plain
    <3>1. "scheduling" \notin ResourceFields(doc)
      BY DEF ResourceFields, parseRolloutFields, parseStatefulSetFields, parseJobFields,
             parseCronJobFields, parseDeploymentFields, Times
    <3> QED
      BY <3>1 DEF Pick
  <2> HIDE DEF rollout, plain
  <2> QED
    BY <2>1, <2>2, <2>3
<1> QED
  BY <1>3, <1>4 DEF Override

(* What setFieldsValue gets replaces the rules of that name, whatever the  *)
(* form held (DeploymentCreate.tsx 246).                                   *)
LEMMA FillKeepsRules ==
    ASSUME NEW store, NEW fields, NEW values, NEW rule \in Rules,
           "scheduling" \in DOMAIN values, rule \in DOMAIN values["scheduling"]
    PROVE  LET filled == setFieldsValue(store, fields, values)
           IN /\ "scheduling" \in DOMAIN filled
              /\ rule \in DOMAIN filled["scheduling"]
              /\ filled["scheduling"][rule] = values["scheduling"][rule]
<1> DEFINE filled == setFieldsValue(store, fields, values)
           old == store["scheduling"]
           new == values["scheduling"]
<1>1. /\ "scheduling" \in DOMAIN filled
      /\ \/ filled["scheduling"] = new
         \/ filled["scheduling"] = Merge(old, new)
  BY DEF setFieldsValue, Override
<1>2. rule \in DOMAIN Merge(old, new) /\ Merge(old, new)[rule] = new[rule]
  <2> DEFINE both == Override(old, new)
             deeper == [x \in DOMAIN old \cap DOMAIN new \cap ({"rollingUpdate"} \cup Strategies) |->
                           IF x \in Strategies THEN MergeFilled(old[x], new[x])
                           ELSE Override(old[x], new[x])]
  <2>1. rule \in DOMAIN both /\ both[rule] = new[rule]
    BY DEF Override
  <2>2. rule \notin DOMAIN deeper
    BY DEF Rules, NodeRules, PodRules, Strategies
  <2>3. Merge(old, new) = Override(both, deeper)
    BY DEF Merge
  <2> HIDE DEF both, deeper
  <2> QED
    BY <2>1, <2>2, <2>3 DEF Override
<1> QED
  BY <1>1, <1>2

(* formDataToYAML writes every rule of the form that has rows.             *)
LEMMA WriteKeepsRules ==
    ASSUME NEW kind, NEW f, NEW rule,
           "scheduling" \in DOMAIN f,
           rule \in DOMAIN f["scheduling"], f["scheduling"][rule] # {}
    PROVE  LET text == Rule(formDataToYAML(kind, Pick(f, Copied)))
           IN /\ rule \in DOMAIN text
              /\ text[rule] = TermsOf(rule, f["scheduling"][rule])
<1> DEFINE copy == Pick(f, Copied)
           affinity == buildScheduling(Given(copy, "scheduling", Nothing))
           pod == BuildPod(kind, copy)
<1>1. Given(copy, "scheduling", Nothing) = f["scheduling"]
  BY DEF Given, Pick, Copied, CommonFields
<1>2. /\ rule \in DOMAIN affinity
      /\ affinity[rule] = TermsOf(rule, f["scheduling"][rule])
  BY <1>1 DEF buildScheduling, NonEmpty
<1>3. affinity # Nothing
  BY <1>2 DEF Nothing
<1>4. "affinity" \in DOMAIN pod /\ pod["affinity"] = affinity
  <2> DEFINE last == [x \in {g \in {"affinity", "restartPolicy"} :
                                IF g = "affinity" THEN affinity # Nothing
                                ELSE kind \in Jobs} |->
                         IF x = "affinity" THEN affinity ELSE "Never"]
  <2> HIDE DEF affinity
  <2>1. "affinity" \in DOMAIN last /\ last["affinity"] = affinity
    BY <1>3
  <2>2. PICK other : pod = Override(other, last)
    BY DEF BuildPod, affinity
  <2> HIDE DEF last, pod
  <2> QED
    BY <2>1, <2>2 DEF Override
<1>5. formDataToYAML(kind, copy).pod = pod
  BY DEF formDataToYAML
<1> HIDE DEF pod, affinity
<1> QED
  BY <1>2, <1>4, <1>5 DEF Rule, Given

(* Plain required rules do have rows, so none of them is lost.             *)
LEMMA PlainNodeRulesHaveRows ==
    ASSUME NEW a, PlainNodeRules(a), "nodeAffinityRequired" \in DOMAIN a
    PROVE  LET parsed == parseAffinityToScheduling(a)
           IN /\ "nodeAffinityRequired" \in DOMAIN parsed
              /\ parsed["nodeAffinityRequired"] = NodeRows(a["nodeAffinityRequired"])
              /\ NodeRows(a["nodeAffinityRequired"]) # {}
<1>1. PICK t \in a["nodeAffinityRequired"] : t.expressions # {}
  BY DEF PlainNodeRules
<1>2. NodeRows(a["nodeAffinityRequired"]) # {}
  BY <1>1 DEF NodeRows
<1> DEFINE every == [rule \in DOMAIN a |-> RowsOf(rule, a[rule])]
<1>3. every["nodeAffinityRequired"] = NodeRows(a["nodeAffinityRequired"])
  BY DEF RowsOf, PodRules, Weighted
<1>4. "nodeAffinityRequired" \in NonEmpty(every)
  BY <1>2, <1>3 DEF NonEmpty
<1>5. parseAffinityToScheduling(a) = [rule \in NonEmpty(every) |-> every[rule]]
  BY DEF parseAffinityToScheduling
<1> HIDE DEF every
<1> QED
  BY <1>2, <1>3, <1>4, <1>5

(* Required Pod terms that have expressions are parsed to rows, and to at  *)
(* least one.                                                              *)
LEMMA PodRulesHaveRows ==
    ASSUME NEW a, NEW rule \in PodRules \ Weighted, rule \in DOMAIN a,
           a[rule] # {}, \A t \in a[rule] : Expressions(t) # {}
    PROVE  LET parsed == parseAffinityToScheduling(a)
           IN /\ rule \in DOMAIN parsed
              /\ parsed[rule] = PodRows(a[rule])
              /\ PodRows(a[rule]) # {}
<1>1. PICK t \in a[rule] : Expressions(t) # {}
  OBVIOUS
<1>2. PodRows(a[rule]) # {}
  <2>1. PICK e \in Expressions(t) : TRUE
    BY <1>1
  <2>2. [topologyKey |-> t.topologyKey, expression |-> e] \in PodRows(a[rule])
    BY <1>1, <2>1 DEF PodRows
  <2> QED
    BY <2>2
<1> DEFINE every == [r \in DOMAIN a |-> RowsOf(r, a[r])]
<1>3. every[rule] = PodRows(a[rule])
  BY DEF RowsOf, PodRules, Weighted
<1>4. rule \in NonEmpty(every)
  BY <1>2, <1>3 DEF NonEmpty
<1>5. parseAffinityToScheduling(a) = [r \in NonEmpty(every) |-> every[r]]
  BY DEF parseAffinityToScheduling
<1> HIDE DEF every
<1> QED
  BY <1>2, <1>3, <1>4, <1>5

-----------------------------------------------------------------------------
(* The rules' invariant: as long as nothing was entered among the rules,   *)
(* the form still holds every rule of the text it was filled from, next to *)
(* those an earlier text may have left behind.                             *)
ParsedRules(doc) == parseAffinityToScheduling(Rule(doc))
HoldsRules(f, doc) ==
    \A rule \in DOMAIN ParsedRules(doc) \cap Rules :
        /\ "scheduling" \in DOMAIN f
        /\ rule \in DOMAIN f["scheduling"]
        /\ f["scheduling"][rule] = ParsedRules(doc)[rule]
RulesUntouched == \A path \in DOMAIN entered : path[1] # "scheduling"
RuleInv ==
    /\ page = "loading" => mode = "yaml"
    /\ mode = "form" /\ loaded # None => yaml = loaded
    /\ mode = "form" /\ loaded # None /\ RulesUntouched => HoldsRules(form, loaded)

(* setFieldsValue with parsed fields gives the form the rules of the text. *)
LEMMA FilledHoldsRules ==
    ASSUME NEW store, NEW fields, NEW doc
    PROVE  HoldsRules(setFieldsValue(store, fields, yamlToFormData(doc)), doc)
<1> SUFFICES ASSUME NEW rule \in DOMAIN ParsedRules(doc) \cap Rules
             PROVE  LET f == setFieldsValue(store, fields, yamlToFormData(doc))
                    IN /\ "scheduling" \in DOMAIN f
                       /\ rule \in DOMAIN f["scheduling"]
                       /\ f["scheduling"][rule] = ParsedRules(doc)[rule]
  BY DEF HoldsRules
<1>1. ParsedRules(doc) # Nothing
  BY DEF Nothing
<1>2. /\ "scheduling" \in DOMAIN yamlToFormData(doc)
      /\ yamlToFormData(doc)["scheduling"] = ParsedRules(doc)
  BY <1>1, ParseKeepsRules DEF ParsedRules, Rule
<1> QED
  BY <1>2, FillKeepsRules

(* RuleInv holds when the page opens. *)
LEMMA RuleInit == Init => RuleInv
<1> SUFFICES ASSUME Init PROVE RuleInv
  OBVIOUS
<1> QED
  BY DEF Init, RuleInv

(* Every step of the page keeps RuleInv. *)
LEMMA RuleNext == RuleInv /\ [Next]_vars => RuleInv'
<1> SUFFICES ASSUME RuleInv, [Next]_vars
             PROVE  RuleInv'
  OBVIOUS
<1> USE DEF RuleInv
<1>1. CASE loadWorkload
  BY <1>1 DEF loadWorkload, history
<1>2. CASE TypeYaml
  BY <1>2 DEF TypeYaml, Ready
<1>3. CASE EnterInput
  <2>1. PICK input \in Inputs :
            /\ form' = SetAt(form, input.path, input.value)
            /\ entered' = Override(entered, [x \in {input.path} |-> input.value])
    BY <1>3 DEF EnterInput
  <2>2. UNCHANGED <<mode, yaml, loaded, page>>
    BY <1>3 DEF EnterInput
  <2>3. ASSUME mode = "form", loaded # None, RulesUntouched'
        PROVE  HoldsRules(form', loaded)
    <3>1. DOMAIN entered' = DOMAIN entered \cup {input.path}
      BY <2>1 DEF Override
    <3>2. input.path[1] # "scheduling" /\ RulesUntouched
      BY <2>3, <3>1 DEF RulesUntouched
    <3>3. HoldsRules(form, loaded)
      BY <2>3, <3>2
    <3>4. /\ "scheduling" \in DOMAIN form => "scheduling" \in DOMAIN form'
          /\ "scheduling" \in DOMAIN form => form'["scheduling"] = form["scheduling"]
      BY <2>1, <3>2 DEF SetAt, Override
    <3> QED
      BY <3>3, <3>4 DEF HoldsRules
  <2> QED
    BY <2>2, <2>3
<1>4. CASE ToYaml
  BY <1>4 DEF ToYaml, Ready
<1>5. CASE ToForm
  <2>1. HoldsRules(form', loaded')
    BY <1>5, FilledHoldsRules DEF ToForm
  <2> QED
    BY <1>5, <2>1 DEF ToForm, Ready
<1> DEFINE kept == <<mode, yaml, form, loaded, entered>>
<1>6. ASSUME UNCHANGED kept, page' = page \/ page' # "loading"
      PROVE  RuleInv'
  BY <1>6 DEF RulesUntouched
<1>7. CASE handleDryRun
  BY <1>6, <1>7 DEF handleDryRun
<1>8. CASE DryRunAnswer
  BY <1>6, <1>8 DEF DryRunAnswer, history
<1>9. CASE handleSubmit
  BY <1>6, <1>9 DEF handleSubmit
<1>10. CASE CancelDialog \/ ConfirmDialog \/ Applied \/ ApplyFailed
  BY <1>6, <1>10 DEF CancelDialog, ConfirmDialog, Applied, ApplyFailed, history
<1>11. CASE UNCHANGED vars
  BY <1>6, <1>11 DEF vars
<1> QED
  BY <1>1, <1>2, <1>3, <1>4, <1>5, <1>7, <1>8, <1>9, <1>10, <1>11 DEF Next

(* RuleInv is strong enough. *)
LEMMA RuleInvSuffices == RuleInv => RulesAreNotWeaker
<1> SUFFICES ASSUME RuleInv, mode = "form", loaded # None, RulesUntouched
             PROVE  NotWeaker(Shown, loaded)
  BY DEF RulesAreNotWeaker, RulesUntouched
<1>1. yaml = loaded /\ HoldsRules(form, loaded)
  BY DEF RuleInv
<1>2. CASE Throws(form)
  <2>1. Shown = loaded
    BY <1>1, <1>2 DEF Shown, formToYaml
  <2> QED
    BY <2>1 DEF NotWeaker
<1>3. CASE ~Throws(form)
  <2>1. Shown = formDataToYAML(Page, Pick(form, Copied))
    BY <1>3 DEF Shown, formToYaml
  <2> DEFINE parsed == ParsedRules(loaded)
             required == PodRules \ Weighted
  <2>2. ASSUME NEW rule \in DOMAIN parsed \cap Rules, parsed[rule] # {}
        PROVE  /\ rule \in DOMAIN Rule(Shown)
               /\ Rule(Shown)[rule] = TermsOf(rule, parsed[rule])
    <3>1. /\ "scheduling" \in DOMAIN form /\ rule \in DOMAIN form["scheduling"]
          /\ form["scheduling"][rule] = parsed[rule]
      BY <1>1, <2>2 DEF HoldsRules
    <3> QED
      BY <2>1, <2>2, <3>1, WriteKeepsRules
  <2>3. ASSUME Selector(loaded) = Nothing, PlainNodeRules(Rule(loaded)),
               NEW node, NodeAllowed(node, Selector(Shown), Rule(Shown))
        PROVE  NodeAllowed(node, Selector(loaded), Rule(loaded))
    <3>1. "nodeAffinityRequired" \in Rules
          /\ \A rows : TermsOf("nodeAffinityRequired", rows) = NodeTerms(rows)
      BY DEF Rules, NodeRules, PodRules, Weighted, TermsOf
    <3>2. ASSUME "nodeAffinityRequired" \in DOMAIN Rule(loaded)
          PROVE  /\ "nodeAffinityRequired" \in DOMAIN Rule(Shown)
                 /\ Rule(Shown)["nodeAffinityRequired"] =
                        NodeTerms(NodeRows(Rule(loaded)["nodeAffinityRequired"]))
      BY <2>2, <2>3, <3>1, <3>2, PlainNodeRulesHaveRows DEF ParsedRules
    <3>3. RulesAllow(node, Rule(loaded))
      BY <2>3, <3>2, NodeRoundTrip DEF NodeAllowed
    <3>4. DOMAIN Selector(loaded) = {}
      BY <2>3 DEF Nothing
    <3> QED
      BY <3>3, <3>4 DEF NodeAllowed
  <2>4. ASSUME NEW rule \in required, rule \in DOMAIN Rule(loaded), Rule(loaded)[rule] # {},
               \A t \in Rule(loaded)[rule] : Expressions(t) # {}
        PROVE  /\ rule \in DOMAIN Rule(Shown)
               /\ Rule(Shown)[rule] = PodTerms(PodRows(Rule(loaded)[rule]))
    <3>1. rule \in Rules /\ \A rows : TermsOf(rule, rows) = PodTerms(rows)
      BY <2>4 DEF Rules, PodRules, Weighted, TermsOf
    <3> QED
      BY <2>2, <2>4, <3>1, PodRulesHaveRows DEF ParsedRules
  <2>5. /\ "podAntiAffinityRequired" \in required
        /\ "podAffinityRequired" \in required
    BY DEF PodRules, Weighted
  <2>6. ASSUME PlainAntiRules(Rule(loaded)), NEW pods, AntiAllowed(pods, Rule(Shown))
        PROVE  AntiAllowed(pods, Rule(loaded))
    <3>1. "podAntiAffinityRequired" \in DOMAIN Rule(loaded) =>
             \A t \in Rule(loaded)["podAntiAffinityRequired"] : Expressions(t) # {}
      BY <2>6 DEF PlainAntiRules
    <3> QED
      BY <2>4, <2>5, <2>6, <3>1, AntiRoundTrip
  <2>7. ASSUME PlainNearRules(Rule(loaded)), NEW pods, NearAllowed(pods, Rule(Shown))
        PROVE  NearAllowed(pods, Rule(loaded))
    <3>1. "podAffinityRequired" \in DOMAIN Rule(loaded) =>
             \A t \in Rule(loaded)["podAffinityRequired"] : Expressions(t) # {}
      BY <2>7 DEF PlainNearRules, One
    <3> QED
      BY <2>4, <2>5, <2>7, <3>1, NearRoundTrip
  <2> QED
    BY <2>3, <2>6, <2>7 DEF NotWeaker
<1> QED
  BY <1>2, <1>3

(* Whatever texts are typed and inputs made, the text that the form stands *)
(* for allows no node, no neighbour and no loneliness that the rules of    *)
(* the text it was filled from ruled out, as far as the form can say them. *)
THEOREM EditorKeepsRules == Spec => []RulesAreNotWeaker
<1> QED
  BY RuleInit, RuleNext, RuleInvSuffices, PTL DEF Spec

-----------------------------------------------------------------------------
(* Types.                                                                  *)

(* yamlToFormData returns fields of the form only. *)
LEMMA ParsedFields ==
    ASSUME NEW doc
    PROVE  DOMAIN yamlToFormData(doc) \subseteq FormFields
<1> DEFINE parsed == parseAffinityToScheduling(Given(doc.pod, "affinity", Nothing))
           rules == [f \in {g \in {"scheduling"} : parsed # Nothing} |-> parsed]
           meta == [name |-> doc.name, labels |-> doc.labels, annotations |-> doc.annotations]
           described == [f \in {"description"} \cap DOMAIN doc.annotations |->
                            doc.annotations[f]]
           strategy == [f \in {g \in {"rolloutStrategy"} : HasStrategy(doc)}
                          |-> RolloutStrategy(doc.spec["strategy"])]
           rollout == Override(Pick(doc.spec, {"replicas"} \cup Times), strategy)
           plain == Pick(doc.spec, ResourceFields(doc))
<1>1. DOMAIN ParsePod(doc.pod) \subseteq CommonFields
  <2>1. ParsePod(doc.pod) = Override(ReadPod(doc.pod), rules)
    BY DEF ParsePod
  <2>3. DOMAIN ReadPod(doc.pod) \subseteq CommonFields
    BY DEF ReadPod, CommonFields
  <2>2. DOMAIN rules \subseteq CommonFields
    BY DEF CommonFields
  <2> HIDE DEF rules
  <2> QED
    BY <2>1, <2>2, <2>3 DEF Override
<1>2. DOMAIN parseCommonFields(doc) \subseteq CommonFields
  <2>1. parseCommonFields(doc) = Override(Override(meta, ParsePod(doc.pod)), described)
    BY DEF parseCommonFields
  <2>2. DOMAIN meta \subseteq CommonFields /\ DOMAIN described \subseteq CommonFields
    BY DEF CommonFields
  <2> HIDE DEF meta, described
  <2> QED
    BY <1>1, <2>1, <2>2 DEF Override
<1>3. DOMAIN rollout \subseteq parseRolloutFields
  <2>1. DOMAIN strategy \subseteq parseRolloutFields
    BY DEF parseRolloutFields
  <2> HIDE DEF strategy
  <2> QED
    BY <2>1 DEF Override, Pick, parseRolloutFields
<1>4. DOMAIN plain \subseteq ResourceFields(doc)
  BY DEF Pick
<1>5. ResourceFields(doc) \subseteq FormFields
  BY DEF ResourceFields, FormFields
<1>6. yamlToFormData(doc) =
          Override(parseCommonFields(doc), IF IsRollout(doc) THEN rollout ELSE plain)
  BY DEF yamlToFormData
<1> HIDE DEF rollout, plain
<1> QED
  BY <1>2, <1>3, <1>4, <1>5, <1>6 DEF Override, FormFields

(* Merging parsed fields into the form adds fields of the form only. *)
LEMMA FilledFields ==
    ASSUME NEW store, NEW fields, NEW doc, DOMAIN store \subseteq FormFields
    PROVE  DOMAIN setFieldsValue(store, fields, yamlToFormData(doc)) \subseteq FormFields
<1>1. DOMAIN setFieldsValue(store, fields, yamlToFormData(doc))
          = (DOMAIN store \ fields) \cup DOMAIN yamlToFormData(doc)
  BY DEF setFieldsValue, Override, Pick
<1> QED
  BY <1>1, ParsedFields

(* Every input of the form is one of its fields. *)
LEMMA PathFields ==
    ASSUME NEW path \in InputPaths
    PROVE  path[1] \in FormFields
BY DEF InputPaths, FormFields, CommonFields, PodFields, PlainPodFields, SpecInputs, Times,
       parseDeploymentFields, parseRolloutFields, parseStatefulSetFields,
       parseJobFields, parseCronJobFields

(* The types hold when the page opens. *)
LEMMA TypeInit == Init => TypeOK
<1> SUFFICES ASSUME Init PROVE TypeOK
  OBVIOUS
<1>1. DOMAIN DefaultValues \subseteq {"containers", "replicas", "rolloutStrategy"}
  BY DEF DefaultValues, Pick
<1>2. DOMAIN form \subseteq FormFields
  <2>1. DOMAIN Nothing = {}
    BY DEF Nothing
  <2>2. form = Nothing \/ form = DefaultValues
    BY DEF Init
  <2>3. {"containers", "replicas", "rolloutStrategy"} \subseteq FormFields
    BY DEF FormFields, CommonFields, PodFields, parseRolloutFields
  <2> QED
    BY <1>1, <2>1, <2>2, <2>3
<1>3. /\ mode \in {"form", "yaml"} /\ page \in {"loading", "open", "left"}
  BY DEF Init
<1>4. /\ visit \in Visits /\ edits = 0 /\ result = None
      /\ moved = FALSE /\ diff = FALSE
      /\ check = None /\ dialog = None /\ sending = None
  BY DEF Init
<1>5. edits \in 0..MaxEdits
  BY <1>4, BoundedEdits
<1> QED
  BY <1>2, <1>3, <1>4, <1>5, NoneIsNoText DEF TypeOK

(* Every step of the page keeps the types. *)
LEMMA TypeNext == TypeOK /\ [Next]_vars => TypeOK'
<1> SUFFICES ASSUME TypeOK, [Next]_vars
             PROVE  TypeOK'
  OBVIOUS
<1> USE DEF TypeOK
<1>1. CASE loadWorkload
  <2>1. DOMAIN form' \subseteq FormFields
    BY <1>1, FilledFields DEF loadWorkload
  <2> QED
    BY <1>1, <2>1 DEF loadWorkload, history
<1>2. CASE TypeYaml
  <2>1. moved' \in BOOLEAN /\ edits' \in 0..MaxEdits /\ result' = None
    BY <1>2, BoundedEdits DEF TypeYaml
  <2> QED
    BY <1>2, <2>1 DEF TypeYaml
<1>3. CASE EnterInput
  <2>1. moved' \in BOOLEAN /\ edits' \in 0..MaxEdits /\ result' = None
    BY <1>3, BoundedEdits DEF EnterInput
  <2>2. PICK input \in Inputs : form' = SetAt(form, input.path, input.value)
    BY <1>3 DEF EnterInput
  <2>3. DOMAIN form' = DOMAIN form \cup {input.path[1]}
    BY <2>2 DEF SetAt, Override
  <2>4. DOMAIN form' \subseteq FormFields
    BY <2>3, KnownInputs, PathFields
  <2> QED
    BY <1>3, <2>1, <2>4 DEF EnterInput
<1>4. CASE ToYaml
  <2>1. moved' \in BOOLEAN
    BY <1>4 DEF ToYaml
  <2> QED
    BY <1>4, <2>1 DEF ToYaml
<1>5. CASE ToForm
  <2>1. moved' \in BOOLEAN
    BY <1>5 DEF ToForm
  <2>2. DOMAIN form' \subseteq FormFields
    BY <1>5, FilledFields DEF ToForm
  <2> QED
    BY <1>5, <2>1, <2>2 DEF ToForm
<1>6. CASE handleDryRun
  <2>1. result' = None \/ result' = [passed |-> FALSE, text |-> Broken]
    BY <1>6 DEF handleDryRun
  <2>5. [passed |-> FALSE, text |-> Broken].passed \in BOOLEAN
    OBVIOUS
  <2>2. result' = None \/ result'.passed \in BOOLEAN
    BY <2>1, <2>5, Zenon
  <2>3. check' # Broken
    BY <1>6 DEF handleDryRun
  <2>4. moved' = moved \/ moved' = FALSE
    BY <1>6 DEF handleDryRun
  <2> QED
    BY <1>6, <2>2, <2>3, <2>4 DEF handleDryRun
<1>7. CASE DryRunAnswer
  <2>1. check' # Broken
    BY <1>7, NoneIsNoText DEF DryRunAnswer
  <2>2. PICK passed \in BOOLEAN : result' = [passed |-> passed, text |-> check]
    BY <1>7 DEF DryRunAnswer
  <2>3. result'.passed \in BOOLEAN
    BY <2>2
  <2> QED
    BY <1>7, <2>1, <2>3 DEF DryRunAnswer, history
<1>8. CASE handleSubmit
  <2>1. dialog' # Broken /\ diff' \in BOOLEAN
    BY <1>8, ProperVisits DEF handleSubmit, Editing
  <2> QED
    BY <1>8, <2>1 DEF handleSubmit
<1>9. CASE CancelDialog
  BY <1>9, NoneIsNoText DEF CancelDialog, history
<1>10. CASE ConfirmDialog
  BY <1>10, NoneIsNoText DEF ConfirmDialog, history
<1>11. CASE Applied
  BY <1>11, NoneIsNoText DEF Applied, history
<1>12. CASE ApplyFailed
  BY <1>12, NoneIsNoText DEF ApplyFailed, history
<1>13. CASE UNCHANGED vars
  BY <1>13 DEF vars
<1> QED
  BY <1>1, <1>2, <1>3, <1>4, <1>5, <1>6, <1>7, <1>8, <1>9, <1>10, <1>11, <1>12, <1>13 DEF Next

(* Every state of the page is well formed; the form has no field that the  *)
(* conversions do not know, and nothing that is not YAML is ever checked,  *)
(* asked about or sent.                                                    *)
THEOREM EditorTypeCorrect == Spec => []TypeOK
<1> QED
  BY TypeInit, TypeNext, PTL DEF Spec

-----------------------------------------------------------------------------
(* The pre-check.  While one runs on an unmoved page, its text is the one  *)
(* that the page shows; nothing is checked before the page is loaded.      *)
CheckInv ==
    /\ page = "loading" => check = None /\ result = None
    /\ check # None /\ ~moved => check = Shown
    /\ PassedCheckIsCurrent

(* Every step keeps CheckInv. *)
LEMMA CheckNext == TypeOK /\ CheckInv /\ [Next]_vars => CheckInv'
<1> SUFFICES ASSUME TypeOK, CheckInv, [Next]_vars
             PROVE  CheckInv'
  OBVIOUS
<1> USE DEF CheckInv, PassedCheckIsCurrent
<1>1. ASSUME UNCHANGED <<visit, mode, yaml, form>>
      PROVE  Shown' = Shown
  BY <1>1 DEF Shown, formToYaml, Page
<1>2. CASE loadWorkload
  BY <1>2 DEF loadWorkload, history
<1>3. ASSUME result' = None, check' = check, moved' = (check # None), page' # "loading"
      PROVE  CheckInv'
  BY <1>3
<1>4. CASE TypeYaml
  BY <1>3, <1>4 DEF TypeYaml, Ready
<1>5. CASE EnterInput
  BY <1>3, <1>5 DEF EnterInput, Ready
<1>6. CASE ToYaml
  BY <1>3, <1>6 DEF ToYaml, Ready
<1>7. CASE ToForm
  BY <1>3, <1>7 DEF ToForm, Ready
<1>8. CASE handleDryRun
  <2>1. Shown' = Shown /\ page' # "loading"
    BY <1>1, <1>8 DEF handleDryRun, Ready
  <2>2. CASE Shown = Broken
    BY <1>8, <2>1, <2>2 DEF handleDryRun
  <2>3. CASE Shown # Broken
    BY <1>8, <2>1, <2>3 DEF handleDryRun
  <2> QED
    BY <2>2, <2>3
<1>9. CASE DryRunAnswer
  <2>1. /\ Shown' = Shown /\ moved' = moved /\ check' = None
        /\ result'.text = check /\ page' # "loading"
    BY <1>1, <1>9 DEF DryRunAnswer, history
  <2>2. ~moved => check = Shown
    BY <1>9 DEF DryRunAnswer
  <2> QED
    BY <2>1, <2>2
<1>10. ASSUME UNCHANGED <<visit, mode, yaml, form, check, result, moved>>,
              page' = page \/ page' # "loading"
       PROVE  CheckInv'
  BY <1>1, <1>10
<1>11. CASE handleSubmit \/ CancelDialog \/ ConfirmDialog \/ Applied \/ ApplyFailed
  BY <1>10, <1>11 DEF handleSubmit, CancelDialog, ConfirmDialog, Applied, ApplyFailed, history
<1>12. CASE UNCHANGED vars
  BY <1>10, <1>12 DEF vars
<1> QED
  BY <1>2, <1>4, <1>5, <1>6, <1>7, <1>8, <1>9, <1>11, <1>12 DEF Next

(* A passed pre-check on the page is about the text the page would submit, *)
(* unless the page changed while the check was under way: no handler that  *)
(* changes the page leaves an old result standing.                         *)
THEOREM EditorCheckIsCurrent == Spec => []PassedCheckIsCurrent
<1>1. Init => CheckInv
  BY DEF Init, CheckInv, PassedCheckIsCurrent
<1>2. CheckInv => PassedCheckIsCurrent
  BY DEF CheckInv
<1> QED
  BY <1>1, <1>2, CheckNext, EditorTypeCorrect, PTL DEF Spec

-----------------------------------------------------------------------------
(* What the user entered.  Where it was entered it stands in the store until *)
(* the form is filled again, and an open dialog holds what the page shows.   *)

At(f, path, value) ==
    IF Len(path) = 1 THEN Has(f, path[1], value)
    ELSE path[1] \in DOMAIN f /\ Has(f[path[1]], path[2], value)
EntryInv ==
    /\ page = "loading" => mode = "yaml" /\ dialog = None
    /\ dialog # None => dialog = Shown
    /\ \A path \in DOMAIN entered : path \in InputPaths /\ Offered(path)
    /\ mode = "form" => \A path \in DOMAIN entered : At(form, path, entered[path])

(* An input is a field of the form, or a part of one that is an object.    *)
LEMMA PathShape ==
    ASSUME NEW path \in InputPaths
    PROVE  \/ Len(path) = 1 /\ path = <<path[1]>> /\ path[1] \notin Objects
           \/ Len(path) = 2 /\ path = <<path[1], path[2]>> /\ path[1] \in Objects
<1> DEFINE plain == {"name", "description", "labels", "annotations", "containers",
                     "initContainers", "volumes", "tolerations"}
                        \cup (PlainPodFields \ {"nodeSelector"}) \cup SpecInputs
<1>1. CASE \E f \in plain : path = <<f>>
  <2>1. PICK f \in plain : path = <<f>>
    BY <1>1
  <2>2. f \notin Objects
    BY DEF Objects, PlainPodFields, SpecInputs, Times, parseJobFields
  <2> QED
    BY <2>1, <2>2
<1>2. CASE path \in {<<"strategy", "type">>, <<"rolloutStrategy", "type">>}
  BY <1>2 DEF Objects
<1>3. CASE \E f \in DnsFields : path = <<"dnsConfig", f>>
  BY <1>3 DEF Objects
<1>4. CASE \E rule \in Rules : path = <<"scheduling", rule>>
  BY <1>4 DEF Objects
<1> QED
  BY <1>1, <1>2, <1>3, <1>4 DEF InputPaths

(* An input stands where it was entered, and what was entered elsewhere    *)
(* still stands.                                                           *)
LEMMA EnteredStands ==
    ASSUME NEW f, NEW path \in InputPaths, NEW value
    PROVE  /\ At(SetAt(f, path, value), path, value)
           /\ \A other \in InputPaths : \A old :
                 other # path /\ At(f, other, old) => At(SetAt(f, path, value), other, old)
<1> DEFINE g == SetAt(f, path, value)
           x == path[1]
<1>1. /\ DOMAIN g = DOMAIN f \cup {x}
      /\ \A y \in DOMAIN f \ {x} : g[y] = f[y]
      /\ g[x] = IF Len(path) = 1 THEN value
                ELSE Override(Given(f, x, Nothing), [y \in {path[2]} |-> value])
  BY DEF SetAt, Override
<1>2. CASE Len(path) = 1
  <2>1. At(g, path, value)
    BY <1>1, <1>2 DEF At, Has
  <2>2. ASSUME NEW other \in InputPaths, NEW old, other # path, At(f, other, old)
        PROVE  At(g, other, old)
    <3>1. other[1] # x
      BY <1>2, <2>2, PathShape
    <3> HIDE DEF g, x
    <3> QED
      BY <1>1, <2>2, <3>1 DEF At, Has
  <2> QED
    BY <2>1, <2>2
<1>3. CASE Len(path) = 2
  <2> DEFINE h == Override(Given(f, x, Nothing), [y \in {path[2]} |-> value])
  <2>0. g[x] = h
    BY <1>1, <1>3
  <2>1. /\ path[2] \in DOMAIN h /\ h[path[2]] = value
        /\ \A y \in DOMAIN Given(f, x, Nothing) \ {path[2]} :
              y \in DOMAIN h /\ h[y] = Given(f, x, Nothing)[y]
    BY DEF Override
  <2>2. At(g, path, value)
    <3> HIDE DEF g, h
    <3> QED
      BY <1>1, <1>3, <2>0, <2>1 DEF At, Has
  <2>3. ASSUME NEW other \in InputPaths, NEW old, other # path, At(f, other, old)
        PROVE  At(g, other, old)
    <3>1. CASE other[1] # x
      <4> HIDE DEF g, h, x
      <4> QED
        BY <1>1, <2>3, <3>1 DEF At, Has
    <3>2. CASE other[1] = x
      <4>1. Len(other) = 2 /\ other[2] # path[2]
        BY <1>3, <2>3, <3>2, PathShape
      <4>2. x \in DOMAIN f /\ Has(f[x], other[2], old)
        BY <2>3, <3>2, <4>1 DEF At
      <4>3. Given(f, x, Nothing) = f[x]
        BY <4>2 DEF Given
      <4> HIDE DEF g, h, x
      <4>4. Has(g[x], other[2], old)
        BY <2>0, <2>1, <4>1, <4>2, <4>3 DEF Has
      <4> QED
        BY <1>1, <3>2, <4>1, <4>4 DEF At
    <3> QED
      BY <3>1, <3>2
  <2> QED
    BY <2>2, <2>3
<1> QED
  BY <1>2, <1>3, PathShape

(* EntryInv holds when the page opens. *)
LEMMA EntryInit == Init => EntryInv
<1> SUFFICES ASSUME Init PROVE EntryInv
  OBVIOUS
<1>1. DOMAIN entered = {}
  BY DEF Init, Nothing
<1> QED
  BY <1>1 DEF Init, EntryInv

(* Every step of the page keeps EntryInv. *)
LEMMA EntryNext == EntryInv /\ [Next]_vars => EntryInv'
<1> SUFFICES ASSUME EntryInv, [Next]_vars
             PROVE  EntryInv'
  OBVIOUS
<1> USE DEF EntryInv
<1>1. visit' = visit
  BY DEF Next, vars, loadWorkload, TypeYaml, EnterInput, ToYaml, ToForm, handleDryRun,
         DryRunAnswer, handleSubmit, CancelDialog, ConfirmDialog, Applied, ApplyFailed
<1>2. \A path : Offered(path)' <=> Offered(path)
  BY <1>1 DEF Offered, Page
<1>3. ASSUME UNCHANGED <<mode, yaml, form>>
      PROVE  Shown' = Shown
  BY <1>1, <1>3 DEF Shown, formToYaml, Page
<1>4. CASE loadWorkload
  BY <1>2, <1>4 DEF loadWorkload, history
<1>5. CASE TypeYaml
  BY <1>2, <1>5 DEF TypeYaml, Ready
<1>6. CASE EnterInput
  <2>1. PICK input \in Inputs :
            /\ Offered(input.path)
            /\ form' = SetAt(form, input.path, input.value)
            /\ entered' = Override(entered, [x \in {input.path} |-> input.value])
    BY <1>6 DEF EnterInput
  <2>2. input.path \in InputPaths
    BY KnownInputs
  <2>3. /\ DOMAIN entered' = DOMAIN entered \cup {input.path}
        /\ entered'[input.path] = input.value
        /\ \A path \in DOMAIN entered \ {input.path} : entered'[path] = entered[path]
    BY <2>1 DEF Override
  <2>4. \A path \in DOMAIN entered' : At(form', path, entered'[path])
    BY <1>6, <2>1, <2>2, <2>3, EnteredStands DEF EnterInput
  <2>5. \A path \in DOMAIN entered' : path \in InputPaths /\ Offered(path)'
    BY <1>2, <2>1, <2>2, <2>3
  <2> QED
    BY <1>6, <2>4, <2>5 DEF EnterInput, Ready
<1>7. CASE ToYaml
  BY <1>2, <1>7 DEF ToYaml, Ready
<1>8. CASE ToForm
  <2>1. DOMAIN entered' = {}
    BY <1>8 DEF ToForm, Nothing
  <2> QED
    BY <1>8, <2>1 DEF ToForm, Ready
<1>9. ASSUME UNCHANGED <<mode, yaml, form, entered>>, page' = page \/ page' # "loading",
             \/ dialog' = None \/ dialog' = dialog
             \/ dialog' = Shown /\ page' # "loading"
      PROVE  EntryInv'
  BY <1>2, <1>3, <1>9
<1>10. CASE handleDryRun
  BY <1>9, <1>10 DEF handleDryRun
<1>11. CASE DryRunAnswer
  BY <1>9, <1>11 DEF DryRunAnswer, history
<1>12. CASE handleSubmit
  BY <1>9, <1>12 DEF handleSubmit, Ready
<1>13. CASE CancelDialog \/ ConfirmDialog \/ Applied \/ ApplyFailed
  BY <1>9, <1>13 DEF CancelDialog, ConfirmDialog, Applied, ApplyFailed, history
<1>14. CASE UNCHANGED vars
  BY <1>9, <1>14 DEF vars
<1> QED
  BY <1>4, <1>5, <1>6, <1>7, <1>8, <1>10, <1>11, <1>12, <1>13, <1>14 DEF Next

(* What formToYaml copies is what the store holds.                         *)
LEMMA CopiedFields ==
    ASSUME NEW f, NEW x \in Copied
    PROVE  /\ x \in DOMAIN Pick(f, Copied) <=> x \in DOMAIN f
           /\ x \in DOMAIN f => Pick(f, Copied)[x] = f[x]
           /\ \A default : Given(Pick(f, Copied), x, default) = Given(f, x, default)
BY DEF Pick, Given

(* A field of the Pod that is no affinity and no restart policy is written *)
(* from the field of the form that has its name.                           *)
LEMMA WrittenPodField ==
    ASSUME NEW kind, NEW f, NEW x \in PodFields, x \in DOMAIN f
    PROVE  LET pod == formDataToYAML(kind, Pick(f, Copied)).pod
           IN Has(pod, x, CASE x \in {"containers", "initContainers"} ->
                                  [i \in DOMAIN f[x] |-> buildContainerSpec(f[x][i])]
                            [] x = "volumes" ->
                                  [i \in DOMAIN f[x] |-> buildVolumeSpec(f[x][i])]
                            [] x = "tolerations" ->
                                  [i \in DOMAIN f[x] |-> BuildToleration(f[x][i])]
                            [] x = "dnsConfig" -> BuildDns(f[x])
                            [] OTHER -> f[x])
<1> DEFINE copy == Pick(f, Copied)
           affinity == buildScheduling(Given(copy, "scheduling", Nothing))
           names == {"containers", "initContainers", "volumes",
                     "tolerations", "dnsConfig"} \cup PlainPodFields
           plain == [y \in DOMAIN Pick(copy, names) |->
                        CASE y \in {"containers", "initContainers"} ->
                                [i \in DOMAIN copy[y] |-> buildContainerSpec(copy[y][i])]
                          [] y = "volumes" ->
                                [i \in DOMAIN copy[y] |-> buildVolumeSpec(copy[y][i])]
                          [] y = "tolerations" ->
                                [i \in DOMAIN copy[y] |-> BuildToleration(copy[y][i])]
                          [] y = "dnsConfig" -> BuildDns(copy[y])
                          [] OTHER -> copy[y]]
           last == [y \in {g \in {"affinity", "restartPolicy"} :
                                IF g = "affinity" THEN affinity # Nothing
                                ELSE kind \in Jobs} |->
                         IF y = "affinity" THEN affinity ELSE "Never"]
<1>1. x \in names /\ x \in Copied /\ x \notin {"affinity", "restartPolicy"}
  BY DEF PodFields, PlainPodFields, Copied, CommonFields
<1>2. x \in DOMAIN copy /\ copy[x] = f[x]
  BY <1>1 DEF Pick
<1>3. x \in DOMAIN plain
  BY <1>1, <1>2 DEF Pick
<1>4. x \notin DOMAIN last
  BY <1>1
<1>5. formDataToYAML(kind, copy).pod = Override(plain, last)
  BY DEF formDataToYAML, BuildPod
<1>6. plain[x] = CASE x \in {"containers", "initContainers"} ->
                                [i \in DOMAIN f[x] |-> buildContainerSpec(f[x][i])]
                          [] x = "volumes" ->
                                [i \in DOMAIN f[x] |-> buildVolumeSpec(f[x][i])]
                          [] x = "tolerations" ->
                                [i \in DOMAIN f[x] |-> BuildToleration(f[x][i])]
                          [] x = "dnsConfig" -> BuildDns(f[x])
                          [] OTHER -> f[x]
  BY <1>2, <1>3
<1> HIDE DEF plain, last
<1> QED
  BY <1>3, <1>4, <1>5, <1>6 DEF Override, Has

MetaPaths == {<<"name">>, <<"description">>, <<"labels">>, <<"annotations">>}

(* What an input says, by the field it is made in: the texts about the     *)
(* workload itself.                                                        *)
LEMMA SaysMeta ==
    ASSUME NEW doc, NEW path, NEW value
    PROVE  /\ path = <<"name">> =>
                 (Says(doc, path, value) <=> (value # "" => doc.name = value))
           /\ path = <<"description">> =>
                 (Says(doc, path, value)
                    <=> (value # "" => Has(doc.annotations, "description", value)))
           /\ path = <<"labels">> =>
                 (Says(doc, path, value)
                    <=> (Kept(value) # Nothing =>
                            doc.labels = Kept(value) /\ doc.templateLabels = Kept(value)))
           /\ path = <<"annotations">> =>
                 (Says(doc, path, value)
                    <=> \A key \in DOMAIN Kept(value) : Has(doc.annotations, key, value[key]))
<1>1. CASE path = <<"name">>
  <2>1. path[1] = "name"
    BY <1>1
  <2> QED
    BY <1>1, <2>1 DEF Says, PlainPodFields
<1>2. CASE path = <<"description">>
  <2>1. path[1] = "description"
    BY <1>2
  <2> QED
    BY <1>2, <2>1 DEF Says, PlainPodFields
<1>3. CASE path = <<"labels">>
  <2>1. path[1] = "labels"
    BY <1>3
  <2> QED
    BY <1>3, <2>1 DEF Says, PlainPodFields
<1>4. CASE path = <<"annotations">>
  <2>1. path[1] = "annotations"
    BY <1>4
  <2> QED
    BY <1>4, <2>1 DEF Says, PlainPodFields
<1> QED
  BY <1>1, <1>2, <1>3, <1>4

(* Lists, and inputs in a part of an object.                               *)
LEMMA SaysPart ==
    ASSUME NEW doc, NEW path, NEW value, path \notin MetaPaths
    PROVE  /\ path[1] \in {"containers", "initContainers"} =>
                 (Says(doc, path, value) <=>
                     Has(doc.pod, path[1], [i \in DOMAIN value |-> buildContainerSpec(value[i])]))
           /\ path = <<"volumes">> =>
                 (Says(doc, path, value) <=>
                     Has(doc.pod, path[1], [i \in DOMAIN value |-> buildVolumeSpec(value[i])]))
           /\ path = <<"tolerations">> =>
                 (Says(doc, path, value) <=>
                     Has(doc.pod, path[1], [i \in DOMAIN value |-> BuildToleration(value[i])]))
           /\ path[1] = "dnsConfig" =>
                 (Says(doc, path, value) <=>
                     Has(Given(doc.pod, "dnsConfig", Nothing), path[2], value.of))
           /\ path[1] = "scheduling" =>
                 (Says(doc, path, value) <=>
                     (value # {} => Has(Given(doc.pod, "affinity", Nothing), path[2],
                                        TermsOf(path[2], value))))
           /\ path[1] = "strategy" =>
                 (Says(doc, path, value) <=>
                     Has(Given(doc.spec, "strategy", Nothing), "type", value))
           /\ path[1] = "rolloutStrategy" =>
                 (Says(doc, path, value) <=>
                     DOMAIN Given(doc.spec, "strategy", Nothing)
                         = {IF value = "BlueGreen" THEN "blueGreen" ELSE "canary"})
<1>1. /\ path = <<"volumes">> => path[1] = "volumes"
      /\ path = <<"tolerations">> => path[1] = "tolerations"
  OBVIOUS
<1>2. path[1] \notin {"volumes", "tolerations"} =>
          path # <<"volumes">> /\ path # <<"tolerations">>
  OBVIOUS
<1>3. CASE path = <<"volumes">>
  BY <1>1, <1>3 DEF Says, PlainPodFields, MetaPaths
<1>4. CASE path = <<"tolerations">>
  BY <1>1, <1>4 DEF Says, PlainPodFields, MetaPaths
<1>5. CASE path # <<"volumes">> /\ path # <<"tolerations">>
  BY <1>5 DEF Says, PlainPodFields, MetaPaths
<1> QED
  BY <1>3, <1>4, <1>5

(* Scalars of the Pod and of spec.                                         *)
LEMMA SaysScalar ==
    ASSUME NEW doc, NEW path, NEW value, path \notin MetaPaths
    PROVE  /\ path[1] \in PlainPodFields =>
                 (Says(doc, path, value) <=> Has(doc.pod, path[1], value))
           /\ path[1] \in {"serviceName", "schedule"} =>
                 (Says(doc, path, value) <=> (value # "" => Has(doc.spec, path[1], value)))
           /\ path[1] \in SpecInputs \ {"serviceName", "schedule"} =>
                 (Says(doc, path, value) <=> Has(doc.spec, path[1], value))
<1>0. path \notin MetaPaths \cup {<<"volumes">>, <<"tolerations">>}
        \/ path[1] \in {"volumes", "tolerations"}
  OBVIOUS
<1>1. path[1] \in PlainPodFields \/ path[1] \in {"serviceName", "schedule"}
        => /\ path[1] \in PlainPodFields =>
                 (Says(doc, path, value) <=> Has(doc.pod, path[1], value))
           /\ path[1] \in {"serviceName", "schedule"} =>
                 (Says(doc, path, value) <=> (value # "" => Has(doc.spec, path[1], value)))
  BY <1>0 DEF Says, PlainPodFields, MetaPaths
<1>2. path[1] \in SpecInputs \ {"serviceName", "schedule"}
        => (Says(doc, path, value) <=> Has(doc.spec, path[1], value))
  BY <1>0 DEF Says, PlainPodFields, SpecInputs, Times, parseJobFields, MetaPaths
<1> QED
  BY <1>1, <1>2

(* The name, labels and description that were entered.                     *)
LEMMA MetaIsWritten ==
    ASSUME NEW kind, NEW f, NEW value,
           NEW path \in MetaPaths,
           At(f, path, value),
           path = <<"description">> => "description" \notin DOMAIN Given(f, "annotations", Nothing)
    PROVE  Says(formDataToYAML(kind, Pick(f, Copied)), path, value)
<1> DEFINE copy == Pick(f, Copied)
           text == formDataToYAML(kind, copy)
<1>0. path = <<path[1]>> /\ Len(path) = 1
  BY DEF MetaPaths
<1>1. path[1] \in DOMAIN copy /\ copy[path[1]] = value
  <2>1. path[1] \in Copied
    BY DEF Copied, CommonFields, MetaPaths
  <2> QED
    BY <1>0, <2>1, CopiedFields DEF At, Has
<1>2. /\ text.name = GivenText(copy, "name", "example")
      /\ text.annotations = BuildAnnotations(copy)
      /\ text.labels = BuildLabels(copy) /\ text.templateLabels = BuildLabels(copy)
  BY DEF formDataToYAML
<1> HIDE DEF text, copy
<1>3. CASE path = <<"name">>
  <2>1. value # "" => text.name = value
    BY <1>1, <1>2, <1>3 DEF GivenText, Given
  <2> QED
    BY <1>3, <2>1, SaysMeta DEF text, copy
<1>4. CASE path = <<"description">>
  <2>1. ASSUME value # ""
        PROVE  Has(text.annotations, "description", value)
    <3>1. "description" \notin DOMAIN Given(copy, "annotations", Nothing)
      <4>1. "description" \notin DOMAIN Given(f, "annotations", Nothing)
        BY <1>4
      <4> QED
        BY <4>1, CopiedFields DEF Copied, CommonFields, copy, Given
    <3>2. LET kept == Kept(Pick(copy, {"description"}))
          IN "description" \in DOMAIN kept /\ kept["description"] = value
      BY <1>1, <1>4, <2>1 DEF Kept, Pick
    <3>3. "description" \notin DOMAIN Kept(Given(copy, "annotations", Nothing))
      BY <3>1 DEF Kept
    <3> QED
      BY <1>2, <3>2, <3>3 DEF BuildAnnotations, Override, Has
  <2> QED
    BY <1>4, <2>1, SaysMeta DEF text, copy
<1>5. CASE path = <<"labels">>
  <2>1. Kept(value) # Nothing => BuildLabels(copy) = Kept(value)
    BY <1>1, <1>5 DEF BuildLabels, Given
  <2> QED
    BY <1>2, <1>5, <2>1, SaysMeta DEF text, copy
<1>6. CASE path = <<"annotations">>
  <2>1. Given(copy, "annotations", Nothing) = value
    BY <1>1, <1>6 DEF Given
  <2>2. ASSUME NEW key \in DOMAIN Kept(value)
        PROVE  Has(text.annotations, key, value[key])
    <3>1. Kept(value)[key] = value[key]
      BY DEF Kept
    <3> QED
      BY <1>2, <2>1, <3>1 DEF BuildAnnotations, Override, Has
  <2> QED
    BY <1>6, <2>2, SaysMeta DEF text, copy
<1> QED
  BY <1>3, <1>4, <1>5, <1>6 DEF MetaPaths

(* What was entered of a Pod's other fields.                               *)
LEMMA PodInputIsWritten ==
    ASSUME NEW kind, NEW f, NEW value, NEW path \in InputPaths,
           path[1] \in PodFields, At(f, path, value)
    PROVE  Says(formDataToYAML(kind, Pick(f, Copied)), path, value)
<1> DEFINE text == formDataToYAML(kind, Pick(f, Copied))
           x == path[1]
<1>1. x \in DOMAIN f
  BY DEF At, Has
<1>2. Has(text.pod, x, CASE x \in {"containers", "initContainers"} ->
                                  [i \in DOMAIN f[x] |-> buildContainerSpec(f[x][i])]
                            [] x = "volumes" ->
                                  [i \in DOMAIN f[x] |-> buildVolumeSpec(f[x][i])]
                            [] x = "tolerations" ->
                                  [i \in DOMAIN f[x] |-> BuildToleration(f[x][i])]
                            [] x = "dnsConfig" -> BuildDns(f[x])
                            [] OTHER -> f[x])
  BY <1>1, WrittenPodField
<1>3. path \notin MetaPaths
  BY DEF PodFields, PlainPodFields, MetaPaths
<1>4. CASE x \in {"containers", "initContainers"}
  <2>1. f[x] = value
    BY <1>4, PathShape DEF At, Has, Objects
  <2>2. Has(text.pod, x, [i \in DOMAIN value |-> buildContainerSpec(value[i])])
    BY <1>2, <1>4, <2>1
  <2> QED
    BY <1>3, <1>4, <2>2, SaysPart
<1>5. CASE x = "dnsConfig"
  <2>1. Has(f[x], path[2], value)
    BY <1>5, PathShape DEF At, Objects
  <2>2. path[2] \in DnsFields
    BY <1>5 DEF InputPaths, SpecInputs, PlainPodFields, Times, parseJobFields
  <2>3. Has(text.pod, "dnsConfig", BuildDns(f[x]))
    BY <1>2, <1>5
  <2>4. Has(BuildDns(f[x]), path[2], value.of)
    BY <2>1, <2>2 DEF BuildDns, Has
  <2>5. Has(Given(text.pod, "dnsConfig", Nothing), path[2], value.of)
    BY <2>3, <2>4 DEF Given, Has
  <2> QED
    BY <1>3, <1>5, <2>5, SaysPart
<1>6. CASE x \in PlainPodFields
  <2>1. f[x] = value
    BY <1>6, PathShape DEF At, Has, Objects, PlainPodFields
  <2>2. Has(text.pod, x, value)
    BY <1>2, <1>6, <2>1 DEF PlainPodFields
  <2> QED
    BY <1>3, <1>6, <2>2, SaysScalar
<1>7. CASE x \in {"volumes", "tolerations"}
  <2>1. path = <<x>> /\ f[x] = value
    BY <1>7, PathShape DEF At, Has, Objects
  <2>2. /\ x = "volumes" =>
              Has(text.pod, x, [i \in DOMAIN value |-> buildVolumeSpec(value[i])])
        /\ x = "tolerations" =>
              Has(text.pod, x, [i \in DOMAIN value |-> BuildToleration(value[i])])
    BY <1>2, <2>1
  <2> QED
    BY <1>3, <1>7, <2>1, <2>2, SaysPart
<1> QED
  BY <1>4, <1>5, <1>6, <1>7 DEF PodFields

(* Rules that were entered.                                                *)
LEMMA RuleInputIsWritten ==
    ASSUME NEW kind, NEW f, NEW value, NEW path \in InputPaths,
           path[1] = "scheduling", At(f, path, value)
    PROVE  Says(formDataToYAML(kind, Pick(f, Copied)), path, value)
<1> DEFINE text == formDataToYAML(kind, Pick(f, Copied))
<1>1. "scheduling" \in DOMAIN f /\ Has(f["scheduling"], path[2], value)
  BY PathShape DEF At, Objects
<1>2. value # {} => Has(Rule(text), path[2], TermsOf(path[2], value))
  BY <1>1, WriteKeepsRules DEF Has
<1>3. path \notin MetaPaths
  BY DEF MetaPaths
<1> QED
  BY <1>2, <1>3, SaysPart DEF Rule

(* What was entered of the fields that only some kinds have.               *)
LEMMA SpecInputIsWritten ==
    ASSUME Page \in Kinds, NEW f, NEW value, NEW path \in InputPaths,
           Offered(path), At(f, path, value),
           path[1] \in SpecInputs \cup {"strategy", "rolloutStrategy"}
    PROVE  Says(formDataToYAML(Page, Pick(f, Copied)), path, value)
<1> DEFINE copy == Pick(f, Copied)
           text == formDataToYAML(Page, copy)
           x == path[1]
<1>0. text.spec = BuildSpec(Page, copy)
  BY DEF formDataToYAML
<1>1. x \in DOMAIN copy /\ copy[x] = f[x]
  <2>1. x \in Copied
    BY DEF Copied, SpecInputs, Times, parseJobFields
  <2> QED
    BY <2>1, CopiedFields DEF At, Has
<1>2. path \notin MetaPaths
      /\ x \notin {"containers", "initContainers", "dnsConfig", "scheduling"} \cup PlainPodFields
  BY DEF SpecInputs, Times, parseJobFields, PlainPodFields, MetaPaths
<1>3. CASE x \in SpecInputs
  <2>1. f[x] = value
    BY <1>3, PathShape DEF At, Has, Objects, SpecInputs, Times, parseJobFields
  <2>2. x \notin {"strategy", "rolloutStrategy"}
    BY <1>3 DEF SpecInputs, Times, parseJobFields
  <2>3. /\ x \notin {"serviceName", "schedule"} => Has(text.spec, x, value)
        /\ x \in {"serviceName", "schedule"} => (value # "" => Has(text.spec, x, value))
    <3>1. CASE x = "replicas"
      <4>1. Page \in {"Deployment", "StatefulSet", "Rollout"}
        BY <3>1 DEF Offered, Times, parseJobFields, Kinds, Jobs
      <4>2. Given(copy, "replicas", 1) = value
        BY <1>1, <2>1, <3>1 DEF Given
      <4> HIDE DEF copy
      <4>3. Has(BuildSpec(Page, copy), "replicas", value)
        BY <4>1, <4>2 DEF BuildSpec, buildDeploymentSpec, buildStatefulSetSpec,
              buildRolloutSpec, Override, Has
      <4> QED
        BY <1>0, <3>1, <4>3
    <3>2. CASE x \in Times
      <4>1. Page \in {"Deployment", "Rollout"}
        BY <3>2 DEF Offered, Times, parseJobFields
      <4> HIDE DEF copy
      <4>2. Has(Pick(copy, Times), x, value) /\ x \notin {"replicas", "strategy"}
        BY <1>1, <2>1, <3>2 DEF Pick, Has, Times
      <4>3. Has(BuildSpec(Page, copy), x, value)
        BY <4>1, <4>2 DEF BuildSpec, buildDeploymentSpec, buildRolloutSpec, Override, Has
      <4> QED
        BY <1>0, <3>2, <4>3 DEF Times
    <3>3. CASE x \in parseJobFields
      <4>1. Page = "Job"
        BY <3>3 DEF Offered, Times, parseJobFields
      <4> HIDE DEF copy
      <4>2. Has(BuildSpec(Page, copy), x, value)
        BY <1>1, <2>1, <3>3, <4>1 DEF BuildSpec, buildJobSpec, Pick, Has
      <4> QED
        BY <1>0, <3>3, <4>2 DEF parseJobFields
    <3>4. CASE x \in {"schedule", "suspend", "concurrencyPolicy"}
      <4>1. Page = "CronJob"
        BY <3>4 DEF Offered, Times, parseJobFields
      <4> HIDE DEF copy
      <4>2. x = "schedule" /\ value # "" => GivenText(copy, "schedule", "0 0 * * *") = value
        BY <1>1, <2>1 DEF GivenText, Given
      <4>3. BuildSpec(Page, copy) = buildCronJobSpec(copy)
        BY <4>1 DEF BuildSpec
      <4>4. CASE x = "schedule"
        BY <1>0, <4>2, <4>3, <4>4 DEF buildCronJobSpec, Override, Has
      <4>5. CASE x # "schedule"
        BY <1>0, <1>1, <2>1, <3>4, <4>3, <4>5
           DEF buildCronJobSpec, parseCronJobFields, Pick, Override, Has
      <4> QED
        BY <3>4, <4>4, <4>5
    <3>5. CASE x = "serviceName"
      <4>1. Page = "StatefulSet"
        BY <3>5 DEF Offered, Times, parseJobFields
      <4> HIDE DEF copy
      <4>2. value # "" => GivenText(copy, "serviceName", Given(copy, "name", "")) = value
        BY <1>1, <2>1, <3>5 DEF GivenText, Given
      <4>3. value # "" => Has(BuildSpec(Page, copy), "serviceName", value)
        BY <4>1, <4>2 DEF BuildSpec, buildStatefulSetSpec, Override, Has
      <4> QED
        BY <1>0, <3>5, <4>3
    <3> QED
      BY <1>3, <3>1, <3>2, <3>3, <3>4, <3>5 DEF SpecInputs
  <2> QED
    BY <1>2, <1>3, <2>2, <2>3, SaysScalar
<1>4. CASE x = "strategy"
  <2>1. Page = "Deployment" /\ Has(f[x], "type", value)
    <3>1. path = <<"strategy", "type">>
      BY <1>4 DEF InputPaths, SpecInputs, PlainPodFields, Times, parseJobFields
    <3>2. Page = "Deployment"
      BY <1>4 DEF Offered, Times, parseJobFields
    <3> QED
      BY <3>1, <3>2, PathShape DEF At
  <2>2. Has(BuildStrategy(f[x]), "type", value)
    BY <2>1 DEF BuildStrategy, Pick, Has
  <2>3. Has(text.spec, "strategy", BuildStrategy(f[x]))
    <3> HIDE DEF copy
    <3> QED
      BY <1>0, <1>1, <1>4, <2>1 DEF BuildSpec, buildDeploymentSpec, Override, Has
  <2>4. Has(Given(text.spec, "strategy", Nothing), "type", value)
    BY <2>2, <2>3 DEF Given, Has
  <2> QED
    BY <1>2, <1>4, <2>4, SaysPart
<1>5. CASE x = "rolloutStrategy"
  <2>1. Page = "Rollout" /\ Has(f[x], "type", value)
    <3>1. path = <<"rolloutStrategy", "type">>
      BY <1>5 DEF InputPaths, SpecInputs, PlainPodFields, Times, parseJobFields
    <3>2. Page = "Rollout"
      BY <1>5 DEF Offered, Times, parseJobFields
    <3> QED
      BY <3>1, <3>2, PathShape DEF At
  <2>2. DOMAIN buildRolloutStrategy(copy) = {IF value = "BlueGreen" THEN "blueGreen" ELSE "canary"}
    <3>1. Given(copy["rolloutStrategy"], "type", "") = value
      BY <1>1, <1>5, <2>1 DEF Given, Has
    <3>2. \A c : DOMAIN buildCanaryStrategy(c) = {"canary"}
      BY DEF buildCanaryStrategy
    <3>3. \A b : DOMAIN buildBlueGreenStrategy(b) = {"blueGreen"}
      BY DEF buildBlueGreenStrategy, DefaultBlueGreen
    <3>4. DOMAIN DefaultCanary = {"canary"} /\ DOMAIN DefaultBlueGreen = {"blueGreen"}
      BY DEF DefaultCanary, DefaultBlueGreen
    <3> HIDE DEF copy
    <3> QED
      BY <1>1, <1>5, <3>1, <3>2, <3>3, <3>4 DEF buildRolloutStrategy
  <2>3. Has(text.spec, "strategy", buildRolloutStrategy(copy))
    <3> HIDE DEF copy
    <3> QED
      BY <1>0, <2>1 DEF BuildSpec, buildRolloutSpec, Override, Has
  <2>4. DOMAIN Given(text.spec, "strategy", Nothing)
            = {IF value = "BlueGreen" THEN "blueGreen" ELSE "canary"}
    BY <2>2, <2>3 DEF Given, Has
  <2> QED
    BY <1>2, <1>5, <2>4, SaysPart
<1> QED
  BY <1>3, <1>4, <1>5

(* EntryInv is strong enough. *)
LEMMA EntryInvSuffices == TypeOK /\ EntryInv => InputsAreWritten
<1> SUFFICES ASSUME TypeOK, EntryInv, mode = "form",
                    NEW path \in DOMAIN entered, ~Excused(path)
             PROVE  /\ Says(Shown, path, entered[path])
                    /\ dialog # None => Says(dialog, path, entered[path])
  BY DEF InputsAreWritten
<1>1. dialog # None => dialog = Shown
  BY DEF EntryInv
<1>2. Shown = formDataToYAML(Page, Pick(form, Copied))
  BY DEF Excused, Shown, formToYaml
<1>3. /\ path \in InputPaths /\ Offered(path) /\ At(form, path, entered[path])
      /\ Page \in Kinds
  BY ProperVisits DEF EntryInv, TypeOK, Page
<1>4. CASE path \in MetaPaths
  BY <1>1, <1>2, <1>3, <1>4, MetaIsWritten DEF Excused
<1>5. CASE path[1] \in PodFields
  BY <1>1, <1>2, <1>3, <1>5, PodInputIsWritten
<1>6. CASE path[1] = "scheduling"
  BY <1>1, <1>2, <1>3, <1>6, RuleInputIsWritten
<1>7. CASE path[1] \in SpecInputs \cup {"strategy", "rolloutStrategy"}
  BY <1>1, <1>2, <1>3, <1>7, SpecInputIsWritten
<1> QED
  BY <1>3, <1>4, <1>5, <1>6, <1>7 DEF InputPaths, PodFields, MetaPaths

(* What the user enters in an input of InputPaths is in the text that the  *)
(* page shows and in the one it asks to confirm, also when the form was    *)
(* filled from a text before, as long as the conversion does not fail.     *)
THEOREM EditorWritesInputs == Spec => []InputsAreWritten
<1> QED
  BY EntryInit, EntryNext, EntryInvSuffices, EditorTypeCorrect, PTL DEF Spec

-----------------------------------------------------------------------------
(* Lists.                                                                  *)

(* Induction, stated with a set.                                           *)
LEMMA SetInduction ==
    ASSUME NEW S, 0 \in S, \A n \in Nat : n \in S => n + 1 \in S
    PROVE  Nat \subseteq S
<1> SUFFICES ASSUME Nat \ S # {} PROVE FALSE
  OBVIOUS
<1> DEFINE R == OpToRel(<, Nat)
<1>1. PICK n \in Nat \ S : \A m \in Nat \ S : <<m, n>> \notin R
  <2> HIDE DEF R
  <2>1. IsWellFoundedOn(R, Nat)
    BY NatLessThanWellFounded DEF R
  <2> QED
    BY <2>1, WFMin
<1>2. n # 0 /\ n - 1 \in Nat
  OBVIOUS
<1>3. n - 1 \notin S
  BY <1>2
<1>4. <<n - 1, n>> \in R
  BY <1>2 DEF OpToRel
<1> QED
  BY <1>1, <1>2, <1>3, <1>4

(* FlattenSeq takes its value from a function that adds up the sequences,  *)
(* and there is one.                                                       *)
FlatStep(s, f, i) == IF i = 1 THEN s[i] ELSE f[i-1] \o s[i]
FlatSpec(s, f) == f = [i \in 1..Len(s) |-> IF i = 1 THEN s[i] ELSE f[i-1] \o s[i]]

(* There is a function that adds up the sequences of s one by one.         *)
LEMMA FlatExists ==
    ASSUME NEW s, Len(s) \in Nat
    PROVE  \E f : FlatSpec(s, f)
<1> DEFINE Partial(f, n) == f = [i \in 1..n |-> FlatStep(s, f, i)]
           S == {n \in Nat : \E f : Partial(f, n)}
<1>1. 0 \in S
  <2> DEFINE e == [i \in 1..0 |-> 0]
  <2>1. Partial(e, 0)
    OBVIOUS
  <2> HIDE DEF e, Partial
  <2> QED
    BY <2>1
<1>2. ASSUME NEW n \in Nat, n \in S
      PROVE  n + 1 \in S
  <2>1. PICK f : Partial(f, n)
    BY <1>2
  <2> DEFINE g == [i \in 1..n + 1 |-> IF i = n + 1 THEN FlatStep(s, f, n + 1) ELSE f[i]]
             h == [i \in 1..n |-> FlatStep(s, f, i)]
             k == [i \in 1..n + 1 |-> FlatStep(s, g, i)]
  <2>2. \A i \in 1..n + 1 : FlatStep(s, g, i) = FlatStep(s, f, i)
    BY DEF FlatStep
  <2>3. \A i \in 1..n : f[i] = FlatStep(s, f, i)
    <3>1. \A i \in 1..n : h[i] = FlatStep(s, f, i)
      OBVIOUS
    <3>2. f = h
      BY <2>1
    <3> HIDE DEF h
    <3> QED
      BY <3>1, <3>2
  <2>4. \A i \in 1..n + 1 : g[i] = k[i]
    <3>1. \A i \in 1..n + 1 : k[i] = FlatStep(s, g, i)
      OBVIOUS
    <3>2. \A i \in 1..n + 1 : g[i] = FlatStep(s, f, i)
      BY <2>3
    <3> HIDE DEF g, k
    <3> QED
      BY <2>2, <3>1, <3>2
  <2>5. Partial(g, n + 1)
    <3>1. g = k
      BY <2>4
    <3> HIDE DEF g
    <3> QED
      BY <3>1
  <2> HIDE DEF g, Partial
  <2> QED
    BY <2>5
<1>3. Nat \subseteq S
  <2> HIDE DEF S
  <2> QED
    BY <1>1, <1>2, SetInduction
<1>4. PICK f : Partial(f, Len(s))
  BY <1>3
<1> QED
  BY <1>4 DEF FlatSpec, FlatStep

(* What FlattenSeq gives is what that function has at the end.             *)
LEMMA FlattenIs ==
    ASSUME NEW s, Len(s) \in Nat, Len(s) # 0
    PROVE  \E f : /\ FlattenSeq(s) = f[Len(s)]
                  /\ f[1] = s[1]
                  /\ \A n \in Nat : n # 0 /\ n + 1 \in 1..Len(s) => f[n + 1] = f[n] \o s[n + 1]
<1> DEFINE f == CHOOSE f : FlatSpec(s, f)
           h == [i \in 1..Len(s) |-> IF i = 1 THEN s[i] ELSE f[i-1] \o s[i]]
<1>1. FlattenSeq(s) = f[Len(s)]
  BY DEF FlattenSeq, FlatSpec
<1>2. f = h
  <2>1. FlatSpec(s, f)
    BY FlatExists
  <2> QED
    BY <2>1 DEF FlatSpec
<1>3. h[1] = s[1]
  <2> HIDE DEF f
  <2>1. 1 \in 1..Len(s)
    OBVIOUS
  <2> QED
    BY <2>1
<1>4. ASSUME NEW n \in Nat, n # 0, n + 1 \in 1..Len(s)
      PROVE  h[n + 1] = f[n] \o s[n + 1]
  <2> HIDE DEF f
  <2>1. n + 1 # 1 /\ (n + 1) - 1 = n
    BY <1>4
  <2> QED
    BY <1>4, <2>1
<1> HIDE DEF f, h
<1> QED
  BY <1>1, <1>2, <1>3, <1>4

(* Flattening lists of things gives a list of things.                      *)
LEMMA FlattenType ==
    ASSUME NEW S, NEW s \in Seq(Seq(S))
    PROVE  FlattenSeq(s) \in Seq(S)
<1>1. CASE s = <<>>
  BY <1>1 DEF FlattenSeq
<1>2. CASE s # <<>>
  <2>0. Len(s) \in Nat /\ Len(s) # 0
    BY <1>2
  <2>1. PICK f :
           /\ FlattenSeq(s) = f[Len(s)]
           /\ f[1] = s[1]
           /\ \A n \in Nat : n # 0 /\ n + 1 \in 1..Len(s) => f[n + 1] = f[n] \o s[n + 1]
    BY <2>0, FlattenIs
  <2> DEFINE P(n) == f[n] \in Seq(S)
             I == {n \in Nat : n \in 1..Len(s) => P(n)}
  <2>2. 0 \in I
    OBVIOUS
  <2>3. ASSUME NEW n \in Nat, n \in I, n + 1 \in 1..Len(s)
        PROVE  P(n + 1)
    <3>1. s[n + 1] \in Seq(S)
      BY <2>3
    <3>2. CASE n = 0
      <4>1. f[1] \in Seq(S)
        BY <2>1, <2>0
      <4> QED
        BY <3>2, <4>1
    <3>3. CASE n # 0
      <4>1. f[n] \in Seq(S)
        BY <2>3, <3>3
      <4>2. f[n + 1] = f[n] \o s[n + 1]
        BY <2>1, <2>3, <3>3
      <4> QED
        BY <3>1, <4>1, <4>2
    <3> QED
      BY <3>2, <3>3
  <2>4. Nat \subseteq I
    <3> HIDE DEF P
    <3>1. ASSUME NEW n \in Nat, n \in I
          PROVE  n + 1 \in I
      <4>1. CASE n + 1 \in 1..Len(s)
        <5>1. P(n + 1)
          BY <2>3, <3>1, <4>1
        <5> QED
          BY <5>1
      <4>2. CASE n + 1 \notin 1..Len(s)
        BY <4>2
      <4> QED
        BY <4>1, <4>2
    <3> HIDE DEF I
    <3> QED
      BY <2>2, <3>1, SetInduction
  <2> QED
    BY <1>2, <2>1, <2>4
<1> QED
  BY <1>1, <1>2

(* Flattening lists of one thing each.                                     *)
LEMMA FlattenSingles ==
    ASSUME NEW S, NEW s \in Seq(Seq(S)), \A i \in 1..Len(s) : Len(s[i]) = 1
    PROVE  FlattenSeq(s) = [i \in 1..Len(s) |-> s[i][1]]
<1>0. \A i \in 1..Len(s) : s[i] \in Seq(S) /\ s[i] = <<s[i][1]>> /\ s[i][1] \in S
  OBVIOUS
<1>1. CASE s = <<>>
  BY <1>1 DEF FlattenSeq
<1>2. CASE s # <<>>
  <2>0. Len(s) \in Nat /\ Len(s) # 0
    BY <1>2
  <2>1. PICK f :
           /\ FlattenSeq(s) = f[Len(s)]
           /\ f[1] = s[1]
           /\ \A n \in Nat : n # 0 /\ n + 1 \in 1..Len(s) => f[n + 1] = f[n] \o s[n + 1]
    BY <2>0, FlattenIs
  <2> DEFINE firsts(n) == [i \in 1..n |-> s[i][1]]
             I == {n \in Nat : n \in 1..Len(s) => f[n] = firsts(n)}
  <2>2. 0 \in I
    OBVIOUS
  <2>3. ASSUME NEW n \in Nat, n \in I, n + 1 \in 1..Len(s)
        PROVE  f[n + 1] = firsts(n + 1)
    <3>1. s[n + 1] \in Seq(S) /\ s[n + 1] = <<s[n + 1][1]>> /\ s[n + 1][1] \in S
      BY <1>0, <2>3
    <3>2. CASE n = 0
      <4>1. f[1] = <<s[1][1]>>
        BY <2>1, <3>1, <3>2
      <4>2. <<s[1][1]>> = firsts(1)
        OBVIOUS
      <4> QED
        BY <3>2, <4>1, <4>2
    <3>3. CASE n # 0
      <4>1. f[n] = firsts(n)
        BY <2>3, <3>3
      <4>2. firsts(n) \in Seq(S) /\ Len(firsts(n)) = n
        <5>1. \A i \in 1..n : s[i][1] \in S
          BY <1>0, <2>3
        <5>2. firsts(n) \in [1..n -> S]
          BY <5>1
        <5> QED
          BY <5>2
      <4>3. firsts(n) \o <<s[n + 1][1]>> = firsts(n + 1)
        <5> DEFINE a == firsts(n) \o <<s[n + 1][1]>>
        <5>1. a \in Seq(S) /\ Len(a) = n + 1
          BY <3>1, <4>2
        <5>2. \A i \in 1..n + 1 : a[i] = s[i][1]
          BY <3>1, <4>2
        <5>3. a = [i \in 1..n + 1 |-> a[i]]
          <6> HIDE DEF a
          <6> QED
            BY <5>1
        <5> HIDE DEF a
        <5> QED
          BY <5>2, <5>3
      <4> HIDE DEF firsts
      <4> QED
        BY <2>1, <2>3, <3>1, <3>3, <4>1, <4>3
    <3> QED
      BY <3>2, <3>3
  <2>4. Nat \subseteq I
    <3> HIDE DEF firsts
    <3>1. ASSUME NEW n \in Nat, n \in I
          PROVE  n + 1 \in I
      <4>1. CASE n + 1 \in 1..Len(s)
        BY <2>3, <3>1, <4>1
      <4>2. CASE n + 1 \notin 1..Len(s)
        BY <4>2
      <4> QED
        BY <4>1, <4>2
    <3> HIDE DEF I
    <3> QED
      BY <2>2, <3>1, SetInduction
  <2> QED
    BY <1>2, <2>1, <2>4
<1> QED
  BY <1>1, <1>2

(* Flattening a list element by element.                                   *)
LEMMA FlattenCons ==
    ASSUME NEW S, NEW x \in Seq(S), NEW s \in Seq(Seq(S))
    PROVE  FlattenSeq(<<x>> \o s) = x \o FlattenSeq(s)
<1> DEFINE t == <<x>> \o s
<1>0. /\ t \in Seq(Seq(S)) /\ Len(t) = Len(s) + 1 /\ t[1] = x
      /\ \A i \in 1..Len(s) : t[i + 1] = s[i]
  OBVIOUS
<1>1. PICK g :
         /\ FlattenSeq(t) = g[Len(t)]
         /\ g[1] = t[1]
         /\ \A n \in Nat : n # 0 /\ n + 1 \in 1..Len(t) => g[n + 1] = g[n] \o t[n + 1]
  <2> HIDE DEF t
  <2>1. Len(t) \in Nat /\ Len(t) # 0
    BY <1>0
  <2> QED
    BY <2>1, FlattenIs
<1>a. ASSUME NEW n \in Nat, n + 1 \in 1..Len(s)
      PROVE  g[n + 2] = g[n + 1] \o s[n + 1]
  <2> HIDE DEF t
  <2>1. n + 1 # 0 /\ (n + 1) + 1 \in 1..Len(t) /\ (n + 1) + 1 = n + 2 /\ n + 1 \in Nat
    BY <1>0, <1>a
  <2>2. t[(n + 1) + 1] = s[n + 1]
    BY <1>0, <1>a
  <2>3. g[(n + 1) + 1] = g[n + 1] \o t[(n + 1) + 1]
    BY <1>1, <2>1
  <2> QED
    BY <2>1, <2>2, <2>3
<1>b. \A a, b \in Seq(S) : (x \o a) \o b = x \o (a \o b)
  BY ConcatAssociative
<1>2. CASE s = <<>>
  <2>1. FlattenSeq(s) = <<>>
    BY <1>2 DEF FlattenSeq
  <2> QED
    BY <1>0, <1>1, <1>2, <2>1
<1>3. CASE s # <<>>
  <2>0. Len(s) \in Nat /\ Len(s) # 0
    BY <1>3
  <2>1. PICK f :
           /\ FlattenSeq(s) = f[Len(s)]
           /\ f[1] = s[1]
           /\ \A n \in Nat : n # 0 /\ n + 1 \in 1..Len(s) => f[n + 1] = f[n] \o s[n + 1]
    BY <2>0, FlattenIs
  <2> DEFINE P(n) == f[n] \in Seq(S) /\ g[n + 1] = x \o f[n]
             I == {n \in Nat : n \in 1..Len(s) => P(n)}
  <2>2. 0 \in I
    OBVIOUS
  <2>3. ASSUME NEW n \in Nat, n \in I, n + 1 \in 1..Len(s)
        PROVE  P(n + 1)
    <3>1. g[n + 2] = g[n + 1] \o s[n + 1]
      BY <1>a, <2>3
    <3>2. s[n + 1] \in Seq(S)
      BY <2>3
    <3>3. CASE n = 0
      <4>1. f[1] = s[1] /\ g[1] = x
        BY <1>0, <1>1, <2>1
      <4>2. g[2] = g[1] \o s[1]
        <5>1. 0 + 1 \in 1..Len(s) /\ 0 + 1 = 1 /\ 0 + 2 = 2
          BY <2>0
        <5>2. g[0 + 2] = g[0 + 1] \o s[0 + 1]
          BY <1>a, <5>1
        <5> QED
          BY <5>1, <5>2
      <4>3. P(1)
        BY <3>2, <3>3, <4>1, <4>2
      <4> QED
        BY <3>3, <4>3
    <3>4. CASE n # 0
      <4>1. f[n] \in Seq(S) /\ g[n + 1] = x \o f[n]
        BY <2>3, <3>4
      <4>2. (x \o f[n]) \o s[n + 1] = x \o (f[n] \o s[n + 1])
        BY <1>b, <3>2, <4>1
      <4>3. f[n + 1] = f[n] \o s[n + 1]
        BY <2>1, <2>3, <3>4
      <4>4. f[n + 1] \in Seq(S)
        BY <3>2, <4>1, <4>3
      <4>5. (n + 1) + 1 = n + 2
        OBVIOUS
      <4> QED
        BY <3>1, <4>1, <4>2, <4>3, <4>4, <4>5
    <3> QED
      BY <3>3, <3>4
  <2>4. Nat \subseteq I
    <3> HIDE DEF P
    <3>1. ASSUME NEW n \in Nat, n \in I
          PROVE  n + 1 \in I
      <4>1. CASE n + 1 \in 1..Len(s)
        BY <2>3, <3>1, <4>1
      <4>2. CASE n + 1 \notin 1..Len(s)
        BY <4>2
      <4> QED
        BY <4>1, <4>2
    <3> HIDE DEF I
    <3> QED
      BY <2>2, <3>1, SetInduction
  <2>5. P(Len(s))
    BY <1>3, <2>4
  <2> QED
    BY <1>0, <1>1, <2>1, <2>5
<1> QED
  BY <1>2, <1>3

(* Ways to make a sequence.                                                *)
LEMMA OneIsSeq ==
    ASSUME NEW S, NEW x \in S
    PROVE  <<x>> \in Seq(S) /\ Len(<<x>>) = 1 /\ <<x>>[1] = x /\ DOMAIN <<x>> = {1}
OBVIOUS

(* A function from 1..n is a sequence of length n.                         *)
LEMMA FunctionIsSeq ==
    ASSUME NEW S, NEW n \in Nat, NEW f \in [1..n -> S]
    PROVE  f \in Seq(S) /\ Len(f) = n
OBVIOUS

(* A list is a sequence, whatever is in it.                                *)
LEMMA ListIsSeq ==
    ASSUME NEW s, IsList(s), NEW S, \A i \in DOMAIN s : s[i] \in S
    PROVE  s \in Seq(S) /\ DOMAIN s = 1..Len(s)
<1>1. DOMAIN s = 1..Len(s) /\ Len(s) \in Nat
  <2> DEFINE t == [i \in 1..Len(s) |-> s[i]]
  <2>1. DOMAIN t = 1..Len(s)
    OBVIOUS
  <2>2. s = t /\ Len(s) \in Nat
    BY DEF IsList
  <2> HIDE DEF t
  <2> QED
    BY <2>1, <2>2
<1>2. s \in [1..Len(s) -> S]
  <2> DEFINE t == [i \in 1..Len(s) |-> s[i]]
  <2>1. t \in [1..Len(s) -> S]
    BY <1>1
  <2>2. s = t
    BY DEF IsList
  <2> HIDE DEF t
  <2> QED
    BY <2>1, <2>2
<1> QED
  BY <1>1, <1>2

(* A sequence is a list.                                                   *)
LEMMA SeqIsList ==
    ASSUME NEW S, NEW s \in Seq(S)
    PROVE  IsList(s) /\ DOMAIN s = 1..Len(s) /\ \A i \in DOMAIN s : s[i] \in S
BY DEF IsList

(* Mapping a list gives a list.                                            *)
LEMMA MappedList ==
    ASSUME NEW n \in Nat, NEW t, t = [i \in 1..n |-> t[i]]
    PROVE  IsList(t) /\ Len(t) = n /\ DOMAIN t = 1..n
<1> DEFINE u == [i \in 1..n |-> t[i]]
<1>1. Len(u) = n /\ DOMAIN u = 1..n
  OBVIOUS
<1>2. t = u
  OBVIOUS
<1> HIDE DEF u
<1>3. Len(t) = n /\ DOMAIN t = 1..n
  BY <1>1, <1>2
<1> QED
  BY <1>3 DEF IsList

(* What a command becomes in the form is a text.                           *)
LEMMA JoinedIsText ==
    ASSUME NEW c, IsCommand(c)
    PROVE  IsText(commandArrayToString(c))
<1> DEFINE L == UNION {{c[i][j] : j \in DOMAIN c[i]} : i \in DOMAIN c}
<1>1. \A l \in L : IsLine(l)
  BY DEF IsCommand, IsText
<1>2. \A i \in DOMAIN c : c[i] \in Seq(L)
  <2> SUFFICES ASSUME NEW i \in DOMAIN c PROVE c[i] \in Seq(L)
    OBVIOUS
  <2>1. IsList(c[i]) /\ \A j \in DOMAIN c[i] : c[i][j] \in L
    BY DEF IsCommand, IsText
  <2> HIDE DEF L
  <2> QED
    BY <2>1, ListIsSeq
<1>3. c \in Seq(Seq(L))
  <2>1. IsList(c)
    BY DEF IsCommand
  <2> HIDE DEF L
  <2> QED
    BY <1>2, <2>1, ListIsSeq
<1>4. commandArrayToString(c) \in Seq(L)
  <2> HIDE DEF L
  <2> QED
    BY <1>3, FlattenType DEF commandArrayToString
<1> HIDE DEF L
<1> QED
  BY <1>1, <1>4, SeqIsList DEF IsText

(* The arguments that a text is split into.  Each is one line without      *)
(* blanks around it.                                                       *)
LEMMA SplitIsCommand ==
    ASSUME NEW text, IsText(text)
    PROVE  LET c == parseCommandString(text)
           IN IsCommand(c) /\ \A i \in DOMAIN c : Sayable(c[i])
<1> DEFINE lines == {l \in {Trimmed(text[i]) : i \in DOMAIN text} : l.text # ""}
           arguments == {<<l>> : l \in lines}
           pieces == [i \in DOMAIN text |->
                         IF text[i].text = "" THEN <<>> ELSE <<<<Trimmed(text[i])>>>>]
<1>1. \A i \in DOMAIN text : pieces[i] \in Seq(arguments)
  <2>1. ASSUME NEW i \in DOMAIN text, text[i].text # ""
        PROVE  <<<<Trimmed(text[i])>>>> \in Seq(arguments)
    <3>1. Trimmed(text[i]) \in lines
      BY <2>1 DEF Trimmed
    <3>2. <<Trimmed(text[i])>> \in arguments
      BY <3>1
    <3> HIDE DEF arguments
    <3> QED
      BY <3>2, OneIsSeq
  <2>2. <<>> \in Seq(arguments)
    <3> HIDE DEF arguments
    <3> QED
      OBVIOUS
  <2> HIDE DEF arguments
  <2> QED
    BY <2>1, <2>2
<1>2. pieces \in Seq(Seq(arguments))
  <2>1. IsList(text)
    BY DEF IsText
  <2>2. text \in Seq({text[i] : i \in DOMAIN text}) /\ DOMAIN text = 1..Len(text)
    BY <2>1, ListIsSeq
  <2>3. pieces \in [1..Len(text) -> Seq(arguments)]
    BY <1>1, <2>2
  <2>4. Len(text) \in Nat
    BY <2>2
  <2> HIDE DEF pieces, arguments
  <2> QED
    BY <2>3, <2>4, FunctionIsSeq
<1>3. parseCommandString(text) \in Seq(arguments)
  <2> HIDE DEF arguments
  <2> QED
    BY <1>2, FlattenType DEF parseCommandString
<1>4. \A a \in arguments : IsText(a) /\ Sayable(a)
  <2> SUFFICES ASSUME NEW l \in lines PROVE IsText(<<l>>) /\ Sayable(<<l>>)
    OBVIOUS
  <2>0. PICK i \in DOMAIN text : l = Trimmed(text[i]) /\ l.text # ""
    OBVIOUS
  <2>1. /\ l = [indented |-> l.indented, text |-> l.text] /\ l.indented = FALSE
        /\ l.text # ""
    BY <2>0 DEF Trimmed
  <2>2. IsLine(l)
    BY <2>1 DEF IsLine
  <2>3. Sayable(<<l>>)
    BY <2>1 DEF Sayable
  <2>4. IsText(<<l>>)
    <3>1. <<l>> \in Seq({l}) /\ \A j \in DOMAIN <<l>> : <<l>>[j] = l
      BY OneIsSeq, l \in {l}
    <3>2. IsList(<<l>>)
      BY <3>1, SeqIsList
    <3> QED
      BY <2>2, <3>1, <3>2 DEF IsText
  <2> QED
    BY <2>3, <2>4
<1> HIDE DEF arguments
<1> QED
  BY <1>3, <1>4, SeqIsList DEF IsCommand

(* A command of lines that are neither blank nor indented comes back.      *)
LEMMA CommandComesBack ==
    ASSUME NEW c, IsCommand(c), \A i \in DOMAIN c : Sayable(c[i])
    PROVE  /\ parseCommandString(commandArrayToString(c)) = c
           /\ c # <<>> => commandArrayToString(c) \notin EmptyTexts
<1> DEFINE n == Len(c)
           lines == [i \in 1..n |-> c[i][1]]
           L == {c[i][1] : i \in 1..n}
<1>0. n \in Nat /\ DOMAIN c = 1..n /\ IsList(c)
  BY ListIsSeq DEF IsCommand
<1>1. ASSUME NEW i \in 1..n
      PROVE  /\ Len(c[i]) = 1 /\ c[i] = <<c[i][1]>> /\ c[i][1].text # ""
             /\ Trimmed(c[i][1]) = c[i][1] /\ c[i] \in Seq(L)
  <2>1. IsText(c[i]) /\ Sayable(c[i])
    BY <1>0 DEF IsCommand
  <2>2. c[i] \in Seq({c[i][j] : j \in DOMAIN c[i]}) /\ DOMAIN c[i] = 1..Len(c[i])
    BY <2>1, ListIsSeq DEF IsText
  <2>3. Len(c[i]) = 1 /\ c[i] = <<c[i][1]>>
    <3> DEFINE a == c[i]
    <3>1. Len(a) = 1 /\ a \in Seq({a[j] : j \in DOMAIN a})
      BY <2>1, <2>2 DEF Sayable
    <3> HIDE DEF a
    <3>2. a = <<a[1]>>
      BY <3>1
    <3> QED
      BY <3>1, <3>2 DEF a
  <2>4. IsLine(c[i][1])
    BY <2>1, <2>2, <2>3 DEF IsText
  <2>5. c[i][1].indented = FALSE /\ c[i][1].text # ""
    BY <2>1, <2>4 DEF Sayable, IsLine
  <2>6. Trimmed(c[i][1]) = c[i][1]
    BY <2>4, <2>5 DEF Trimmed, IsLine
  <2>7. c[i][1] \in L
    OBVIOUS
  <2>8. <<c[i][1]>> \in Seq(L)
    <3> HIDE DEF L
    <3> QED
      BY <2>7
  <2> QED
    BY <2>3, <2>5, <2>6, <2>8
<1>2. c \in Seq(Seq(L))
  <2> HIDE DEF L
  <2> QED
    BY <1>0, <1>1, ListIsSeq
<1>3. commandArrayToString(c) = lines
  <2> HIDE DEF L
  <2> QED
    BY <1>1, <1>2, FlattenSingles DEF commandArrayToString
<1> DEFINE pieces == [i \in DOMAIN lines |->
                         IF lines[i].text = "" THEN <<>> ELSE <<<<Trimmed(lines[i])>>>>]
<1>4. pieces = [i \in 1..n |-> <<c[i]>>]
  BY <1>1
<1>5. parseCommandString(lines) = FlattenSeq(pieces)
  BY DEF parseCommandString
<1>6. FlattenSeq(pieces) = [i \in 1..n |-> c[i]]
  <2> DEFINE p == [i \in 1..n |-> <<c[i]>>]
  <2>1. \A i \in 1..n : <<c[i]>> \in Seq(Seq(L)) /\ Len(<<c[i]>>) = 1 /\ <<c[i]>>[1] = c[i]
    <3> HIDE DEF L
    <3>1. \A i \in 1..n : c[i] \in Seq(L)
      BY <1>1
    <3> QED
      BY <3>1, OneIsSeq
  <2>2. p \in [1..n -> Seq(Seq(L))]
    <3> HIDE DEF L
    <3> QED
      BY <2>1
  <2>3. p \in Seq(Seq(Seq(L))) /\ Len(p) = n /\ \A i \in 1..n : p[i] = <<c[i]>>
    <3>1. \A i \in 1..n : p[i] = <<c[i]>>
      OBVIOUS
    <3> HIDE DEF p, L
    <3> QED
      BY <1>0, <2>2, <3>1
  <2>4. FlattenSeq(p) = [i \in 1..n |-> p[i][1]]
    <3> DEFINE S == Seq(L)
    <3>1. p \in Seq(Seq(S)) /\ Len(p) = n
      BY <2>3
    <3>2. \A i \in 1..Len(p) : Len(p[i]) = 1
      <4> HIDE DEF p, L
      <4> QED
        BY <2>1, <2>3
    <3> HIDE DEF p, S
    <3>3. FlattenSeq(p) = [i \in 1..Len(p) |-> p[i][1]]
      BY <3>1, <3>2, FlattenSingles
    <3> QED
      BY <3>1, <3>3
  <2>5. [i \in 1..n |-> p[i][1]] = [i \in 1..n |-> c[i]]
    BY <2>1
  <2> QED
    BY <1>4, <2>4, <2>5
<1>7. c = [i \in 1..n |-> c[i]]
  BY <1>0 DEF IsList
<1>8. c # <<>> => lines \notin EmptyTexts
  <2> SUFFICES ASSUME c # <<>> PROVE lines \notin EmptyTexts
    OBVIOUS
  <2>1. n # 0
    BY <1>2
  <2>2. 1 \in 1..n /\ 1 \in DOMAIN lines /\ lines[1] = c[1][1]
    BY <1>0, <2>1
  <2>3. lines[1].text # ""
    BY <1>1, <2>2
  <2>4. lines # <<>>
    BY <2>2
  <2>5. lines # <<[indented |-> FALSE, text |-> ""]>>
    <3> DEFINE blank == [indented |-> FALSE, text |-> ""]
    <3>1. <<blank>>[1].text = ""
      OBVIOUS
    <3> HIDE DEF lines, blank
    <3>2. lines # <<blank>>
      BY <2>3, <3>1
    <3> QED
      BY <3>2 DEF blank
  <2> HIDE DEF lines
  <2> QED
    BY <2>4, <2>5 DEF EmptyTexts
<1> QED
  BY <1>3, <1>5, <1>6, <1>7, <1>8

-----------------------------------------------------------------------------
(* Steps of a canary release, and the list the form makes of them.         *)

(* Induction from the end of a list to its start.                          *)
LEMMA DownInduction ==
    ASSUME NEW n \in Nat, NEW S, n + 1 \in S,
           \A i \in 1..n : (\A j \in i + 1..n + 1 : j \in S) => i \in S
    PROVE  \A i \in 1..n + 1 : i \in S
<1> DEFINE T == {k \in Nat : \A j \in n + 1 - k..n + 1 : j >= 1 => j \in S}
<1>1. 0 \in T
  OBVIOUS
<1>2. ASSUME NEW k \in Nat, k \in T
      PROVE  k + 1 \in T
  <2> SUFFICES ASSUME NEW j \in n + 1 - (k + 1)..n + 1, j >= 1
               PROVE  j \in S
    OBVIOUS
  <2>1. CASE j >= n + 1 - k
    BY <1>2, <2>1
  <2>2. CASE j = n - k
    <3>1. j \in 1..n
      BY <2>2
    <3>2. \A m \in j + 1..n + 1 : m \in S
      BY <1>2, <2>2
    <3> QED
      BY <3>1, <3>2
  <2> QED
    BY <2>1, <2>2
<1>3. Nat \subseteq T
  <2> HIDE DEF T
  <2> QED
    BY <1>1, <1>2, SetInduction
<1> QED
  BY <1>3

(* The form's steps from the i-th on, by those after it.                   *)
JoinedPause(raw, i) == "setWeight" \in DOMAIN raw[i] /\ i < Len(raw) /\ Pauses(raw[i + 1])
StepsFrom(raw, from, i) ==
    IF i > Len(raw) THEN <<>>
    ELSE IF JoinedPause(raw, i) THEN <<Override(raw[i], raw[i + 1])>> \o from[i + 2]
    ELSE IF DOMAIN raw[i] \cap StepParts # {} THEN <<raw[i]>> \o from[i + 1]
    ELSE from[i + 1]
StepSpec(raw, from) == from = [i \in 1..Len(raw) + 1 |-> StepsFrom(raw, from, i)]

(* The recursion by which FormSteps reads a canary's steps has a function  *)
(* that satisfies it,                                                      *)
LEMMA StepsExist ==
    ASSUME NEW raw, Len(raw) \in Nat
    PROVE  \E from : StepSpec(raw, from)
<1> DEFINE n == Len(raw)
           Partial(f, k) == f = [i \in k..n + 1 |-> StepsFrom(raw, f, i)]
           S == {k \in Int : \E f : Partial(f, k)}
<1>1. n + 1 \in S
  <2> DEFINE f == [i \in n + 1..n + 1 |-> <<>>]
             g == [i \in n + 1..n + 1 |-> StepsFrom(raw, f, i)]
  <2>1. \A i \in n + 1..n + 1 : i > Len(raw)
    OBVIOUS
  <2>2. \A i \in n + 1..n + 1 : StepsFrom(raw, f, i) = <<>>
    BY <2>1 DEF StepsFrom
  <2>3. f = g
    BY <2>2
  <2>4. Partial(f, n + 1)
    <3> HIDE DEF f
    <3> QED
      BY <2>3
  <2>5. n + 1 \in Int
    OBVIOUS
  <2> HIDE DEF f, Partial
  <2> QED
    BY <2>4, <2>5
<1>2. ASSUME NEW k \in 1..n, \A j \in k + 1..n + 1 : j \in S
      PROVE  k \in S
  <2>1. PICK f : Partial(f, k + 1)
    BY <1>2
  <2> DEFINE g == [i \in k..n + 1 |-> IF i = k THEN StepsFrom(raw, f, k) ELSE f[i]]
             h == [i \in k + 1..n + 1 |-> StepsFrom(raw, f, i)]
             m == [i \in k..n + 1 |-> StepsFrom(raw, g, i)]
  <2>2. \A i \in k..n + 1 : StepsFrom(raw, g, i) = StepsFrom(raw, f, i)
    <3> SUFFICES ASSUME NEW i \in k..n + 1
                 PROVE  StepsFrom(raw, g, i) = StepsFrom(raw, f, i)
      OBVIOUS
    <3>1. i <= Len(raw) => g[i + 1] = f[i + 1]
      <4> HIDE DEF h, m
      <4> QED
        OBVIOUS
    <3>2. i < Len(raw) => g[i + 2] = f[i + 2]
      <4> HIDE DEF h, m
      <4> QED
        OBVIOUS
    <3> HIDE DEF g, h, m
    <3> QED
      BY <3>1, <3>2 DEF StepsFrom, JoinedPause
  <2>3. \A i \in k + 1..n + 1 : f[i] = StepsFrom(raw, f, i)
    <3>1. \A i \in k + 1..n + 1 : h[i] = StepsFrom(raw, f, i)
      OBVIOUS
    <3>2. f = h
      BY <2>1
    <3> HIDE DEF h
    <3> QED
      BY <3>1, <3>2
  <2>4. \A i \in k..n + 1 : g[i] = m[i]
    <3>1. \A i \in k..n + 1 : m[i] = StepsFrom(raw, g, i)
      OBVIOUS
    <3>2. \A i \in k..n + 1 : g[i] = StepsFrom(raw, f, i)
      BY <2>3
    <3> HIDE DEF g, m
    <3> QED
      BY <2>2, <3>1, <3>2
  <2>5. Partial(g, k)
    <3>1. g = m
      BY <2>4
    <3> HIDE DEF g
    <3> QED
      BY <3>1
  <2>6. k \in Int
    OBVIOUS
  <2> HIDE DEF g, Partial
  <2> QED
    BY <2>5, <2>6
<1>3. 1 \in S
  <2>1. 1 \in 1..n + 1
    OBVIOUS
  <2> HIDE DEF S
  <2> QED
    BY <1>1, <1>2, <2>1, DownInduction
<1> QED
  BY <1>3 DEF StepSpec

(* and FormSteps is its value at the first step.                           *)
LEMMA FormStepsAre ==
    ASSUME NEW raw, Len(raw) \in Nat
    PROVE  \E from : /\ FormSteps(raw) = from[1]
                     /\ \A i \in 1..Len(raw) + 1 : from[i] = StepsFrom(raw, from, i)
<1> DEFINE from == CHOOSE f : StepSpec(raw, f)
           h == [i \in 1..Len(raw) + 1 |-> StepsFrom(raw, from, i)]
<1>1. FormSteps(raw) = from[1]
  BY DEF FormSteps, StepSpec, StepsFrom, JoinedPause
<1>2. from = h
  <2>1. StepSpec(raw, from)
    BY StepsExist
  <2> QED
    BY <2>1 DEF StepSpec
<1>3. \A i \in 1..Len(raw) + 1 : h[i] = StepsFrom(raw, from, i)
  OBVIOUS
<1> HIDE DEF from, h
<1> QED
  BY <1>1, <1>2, <1>3

(* The form's steps are a list.                                            *)
StepsOf(raw) == {raw[i] : i \in DOMAIN raw}
FormStepsOf(raw) ==
    StepsOf(raw) \cup {Override(s, t) : s \in StepsOf(raw), t \in StepsOf(raw)}

(* Its values are sequences of steps and of pairs of steps.                *)
LEMMA FormStepsType ==
    ASSUME NEW raw, IsList(raw)
    PROVE  \E from : /\ FormSteps(raw) = from[1]
                     /\ \A i \in 1..Len(raw) + 1 :
                           /\ from[i] = StepsFrom(raw, from, i)
                           /\ from[i] \in Seq(FormStepsOf(raw))
<1> DEFINE n == Len(raw)
           U == FormStepsOf(raw)
<1>0. n \in Nat /\ DOMAIN raw = 1..n
  <2>1. raw \in Seq(StepsOf(raw)) /\ DOMAIN raw = 1..n
    BY ListIsSeq DEF StepsOf
  <2> QED
    BY <2>1
<1>1. PICK from : /\ FormSteps(raw) = from[1]
                  /\ \A i \in 1..n + 1 : from[i] = StepsFrom(raw, from, i)
  BY <1>0, FormStepsAre
<1>2. \A i \in 1..n : raw[i] \in U
  BY <1>0 DEF FormStepsOf, StepsOf
<1>3. \A i, j \in 1..n : Override(raw[i], raw[j]) \in U
  BY <1>0 DEF FormStepsOf, StepsOf
<1> DEFINE S == {i \in Nat : from[i] \in Seq(U)}
<1> HIDE DEF U
<1>4. n + 1 \in S
  <2>1. StepsFrom(raw, from, n + 1) = <<>>
    BY <1>0 DEF StepsFrom
  <2>2. n + 1 \in Nat /\ n + 1 \in 1..n + 1
    BY <1>0
  <2>3. from[n + 1] = <<>>
    BY <1>1, <2>1, <2>2
  <2>4. <<>> \in Seq(U)
    OBVIOUS
  <2> QED
    BY <2>2, <2>3, <2>4
<1>5. ASSUME NEW i \in 1..n, \A j \in i + 1..n + 1 : j \in S
      PROVE  i \in S
  <2>1. from[i + 1] \in Seq(U) /\ (i < n => from[i + 2] \in Seq(U))
    BY <1>0, <1>5
  <2>2. <<raw[i]>> \in Seq(U)
    BY <1>2, OneIsSeq
  <2>3. i < n => <<Override(raw[i], raw[i + 1])>> \in Seq(U)
    BY <1>0, <1>3, OneIsSeq
  <2>4. StepsFrom(raw, from, i) \in Seq(U)
    BY <1>0, <2>1, <2>2, <2>3 DEF StepsFrom, JoinedPause
  <2>5. i \in Nat /\ i \in 1..n + 1
    BY <1>0
  <2> QED
    BY <1>1, <2>4, <2>5
<1>6. \A i \in 1..n + 1 : i \in S
  <2> HIDE DEF S
  <2> QED
    BY <1>0, <1>4, <1>5, DownInduction
<1> QED
  BY <1>1, <1>6 DEF U

(* So the form's steps are a list.                                         *)
LEMMA FormStepsAreAList ==
    ASSUME NEW raw, IsList(raw)
    PROVE  IsList(FormSteps(raw))
<1>1. Len(raw) \in Nat
  BY DEF IsList
<1>2. 1 \in 1..Len(raw) + 1
  BY <1>1
<1> QED
  BY <1>2, FormStepsType, SeqIsList

(* A part of a step, and the steps that a form step is written as.         *)
PartsOf(U) == UNION {{[x \in {part} |-> step[x]] : step \in U} : part \in StepParts}

(* A part of a step is a sequence of at most one step with that part,      *)
LEMMA PartType ==
    ASSUME NEW U, NEW step \in U, NEW part \in StepParts
    PROVE  Part(step, part) \in Seq(PartsOf(U))
<1>1. [x \in {part} |-> step[x]] \in PartsOf(U)
  BY DEF PartsOf
<1>2. <<[x \in {part} |-> step[x]]>> \in Seq(PartsOf(U)) /\ <<>> \in Seq(PartsOf(U))
  BY <1>1, OneIsSeq
<1> QED
  BY <1>2 DEF Part

(* a form step is written as a sequence of such steps,                     *)
LEMMA RawStepType ==
    ASSUME NEW U, NEW step \in U
    PROVE  RawStep(step) \in Seq(PartsOf(U))
<1>1. \A part \in StepParts : Part(step, part) \in Seq(PartsOf(U))
  BY PartType
<1>2. {"setWeight", "pause", "setCanaryScale", "analysis"} \subseteq StepParts
  BY DEF StepParts
<1>3. /\ Part(step, "setWeight") \in Seq(PartsOf(U))
      /\ Part(step, "pause") \in Seq(PartsOf(U))
      /\ Part(step, "setCanaryScale") \in Seq(PartsOf(U))
      /\ Part(step, "analysis") \in Seq(PartsOf(U))
  BY <1>1, <1>2
<1> QED
  BY <1>3 DEF RawStep

(* and so are all form steps together.                                     *)
LEMMA RawStepsType ==
    ASSUME NEW U, NEW steps \in Seq(U)
    PROVE  /\ [i \in DOMAIN steps |-> RawStep(steps[i])] \in Seq(Seq(PartsOf(U)))
           /\ RawSteps(steps) \in Seq(PartsOf(U))
<1> DEFINE raws == [i \in DOMAIN steps |-> RawStep(steps[i])]
<1>1. \A i \in DOMAIN steps : RawStep(steps[i]) \in Seq(PartsOf(U))
  BY RawStepType
<1>2. raws \in [1..Len(steps) -> Seq(PartsOf(U))] /\ Len(steps) \in Nat
  BY <1>1
<1>3. raws \in Seq(Seq(PartsOf(U)))
  <2> HIDE DEF raws
  <2> QED
    BY <1>2, FunctionIsSeq
<1> HIDE DEF raws
<1> QED
  BY <1>3, FlattenType DEF RawSteps, raws

(* Written steps have one part each.                                       *)
LEMMA RawStepsAreSayable ==
    ASSUME NEW steps, IsList(steps)
    PROVE  LET raw == RawSteps(steps)
           IN /\ IsList(raw)
              /\ \A i \in DOMAIN raw :
                    IsFunction(raw[i]) /\ \E part \in StepParts : DOMAIN raw[i] = {part}
              /\ (\A i \in DOMAIN steps : IsSpelled(steps[i]))
                    => \A i \in DOMAIN raw : IsSpelled(raw[i])
<1> DEFINE U == {steps[i] : i \in DOMAIN steps}
<1>1. steps \in Seq(U)
  BY ListIsSeq
<1>2. \A p \in PartsOf(U) :
         IsFunction(p) /\ \E part \in StepParts : DOMAIN p = {part}
  <2> SUFFICES ASSUME NEW p \in PartsOf(U)
               PROVE  IsFunction(p) /\ \E part \in StepParts : DOMAIN p = {part}
    OBVIOUS
  <2> HIDE DEF U
  <2>1. PICK part \in StepParts, step \in U : p = [x \in {part} |-> step[x]]
    BY DEF PartsOf
  <2> QED
    BY <2>1 DEF IsFunction
<1>4. ASSUME \A i \in DOMAIN steps : IsSpelled(steps[i])
      PROVE  \A i \in DOMAIN RawSteps(steps) : IsSpelled(RawSteps(steps)[i])
  <2> DEFINE V == {p \in PartsOf(U) : IsSpelled(p)}
  <2>1. ASSUME NEW step \in U, NEW part \in StepParts
        PROVE  Part(step, part) \in Seq(V)
    <3> DEFINE p == [x \in {part} |-> step[x]]
    <3>1. IsSpelled(step)
      BY <1>4
    <3> HIDE DEF U
    <3>2. CASE part \in DOMAIN step
      <4>1. p \in PartsOf(U)
        BY DEF PartsOf
      <4>2. DOMAIN p = {part} /\ p[part] = step[part]
        OBVIOUS
      <4> HIDE DEF p
      <4>3. IsSpelled(p)
        BY <3>1, <3>2, <4>2 DEF IsSpelled
      <4>4. <<p>> \in Seq(V)
        BY <4>1, <4>3, OneIsSeq
      <4> QED
        BY <3>2, <4>4 DEF Part, p
    <3>3. CASE part \notin DOMAIN step
      BY <3>3 DEF Part
    <3> QED
      BY <3>2, <3>3
  <2> HIDE DEF U, V
  <2>2. ASSUME NEW step \in U
        PROVE  RawStep(step) \in Seq(V)
    <3>1. /\ Part(step, "setWeight") \in Seq(V) /\ Part(step, "pause") \in Seq(V)
          /\ Part(step, "setCanaryScale") \in Seq(V) /\ Part(step, "analysis") \in Seq(V)
      BY <2>1, <2>2 DEF StepParts
    <3> QED
      BY <3>1 DEF RawStep
  <2> DEFINE raws == [i \in DOMAIN steps |-> RawStep(steps[i])]
  <2>3. raws \in [1..Len(steps) -> Seq(V)] /\ Len(steps) \in Nat
    BY <1>1, <2>2
  <2>4. raws \in Seq(Seq(V))
    <3> HIDE DEF raws
    <3> QED
      BY <2>3, FunctionIsSeq
  <2> HIDE DEF raws
  <2>5. RawSteps(steps) \in Seq(V)
    BY <2>4, FlattenType DEF RawSteps, raws
  <2> QED
    BY <2>5, SeqIsList DEF V
<1> HIDE DEF U
<1>3. RawSteps(steps) \in Seq(PartsOf(U))
  BY <1>1, RawStepsType
<1> QED
  BY <1>2, <1>3, <1>4, SeqIsList

(* The steps written for a list are those of its first, then those of the  *)
(* rest.                                                                   *)
LEMMA RawStepsCons ==
    ASSUME NEW U, NEW x \in U, NEW s \in Seq(U)
    PROVE  RawSteps(<<x>> \o s) = RawStep(x) \o RawSteps(s)
<1> DEFINE t == <<x>> \o s
           raws(u) == [i \in DOMAIN u |-> RawStep(u[i])]
           a == raws(t)
           b == <<RawStep(x)>> \o raws(s)
<1>1. /\ t \in Seq(U) /\ Len(t) = Len(s) + 1 /\ t[1] = x
      /\ \A i \in 1..Len(s) : t[i + 1] = s[i]
  OBVIOUS
<1>2. RawStep(x) \in Seq(PartsOf(U)) /\ raws(s) \in Seq(Seq(PartsOf(U)))
  BY RawStepType, RawStepsType
<1>3. a \in Seq(Seq(PartsOf(U))) /\ Len(a) = Len(s) + 1 /\ \A i \in 1..Len(t) : a[i] = RawStep(t[i])
  <2>1. a \in Seq(Seq(PartsOf(U)))
    <3> HIDE DEF t
    <3> QED
      BY <1>1, RawStepsType
  <2>2. \A i \in 1..Len(t) : a[i] = RawStep(t[i])
    <3> HIDE DEF t
    <3> QED
      BY <1>1
  <2>3. a = [i \in 1..Len(t) |-> RawStep(t[i])]
    <3> HIDE DEF t
    <3> QED
      BY <1>1
  <2>4. Len(a) = Len(t)
    <3> HIDE DEF t, a
    <3> QED
      BY <1>1, <2>3
  <2> HIDE DEF t, a
  <2> QED
    BY <1>1, <2>1, <2>2, <2>4
<1>4. /\ b \in Seq(Seq(PartsOf(U))) /\ Len(b) = Len(raws(s)) + 1 /\ b[1] = RawStep(x)
      /\ \A i \in 1..Len(raws(s)) : b[i + 1] = raws(s)[i]
  <2> DEFINE r == raws(s)
  <2> HIDE DEF r
  <2>1. r \in Seq(Seq(PartsOf(U))) /\ b = <<RawStep(x)>> \o r
    BY <1>2 DEF r
  <2>2. /\ <<RawStep(x)>> \o r \in Seq(Seq(PartsOf(U)))
        /\ Len(<<RawStep(x)>> \o r) = Len(r) + 1 /\ (<<RawStep(x)>> \o r)[1] = RawStep(x)
        /\ \A i \in 1..Len(r) : (<<RawStep(x)>> \o r)[i + 1] = r[i]
    BY <1>2, <2>1
  <2> QED
    BY <2>1, <2>2 DEF r
<1>5. Len(raws(s)) = Len(s) /\ \A i \in 1..Len(s) : raws(s)[i] = RawStep(s[i])
  OBVIOUS
<1>6. \A i \in 1..Len(a) : a[i] = b[i]
  <2> SUFFICES ASSUME NEW i \in 1..Len(a) PROVE a[i] = b[i]
    OBVIOUS
  <2> HIDE DEF a, b, t
  <2>1. CASE i = 1
    BY <1>1, <1>3, <1>4, <2>1
  <2>2. CASE i # 1
    <3>1. i - 1 \in 1..Len(s) /\ (i - 1) + 1 = i
      BY <1>3, <2>2
    <3>2. t[(i - 1) + 1] = s[i - 1] /\ b[(i - 1) + 1] = RawStep(s[i - 1])
      BY <1>1, <1>4, <1>5, <3>1
    <3> QED
      BY <1>1, <1>3, <3>1, <3>2
  <2> QED
    BY <2>1, <2>2
<1>7. a = b
  <2>1. Len(a) = Len(b)
    <3> HIDE DEF a, b, t
    <3> QED
      BY <1>3, <1>4, <1>5
  <2> HIDE DEF a, b, t
  <2> QED
    BY <1>3, <1>4, <1>6, <2>1, SeqEqual
<1>8. FlattenSeq(b) = RawStep(x) \o FlattenSeq(raws(s))
  <2> DEFINE r == raws(s)
             W == PartsOf(U)
  <2>1. r \in Seq(Seq(W)) /\ RawStep(x) \in Seq(W)
    BY <1>2
  <2> HIDE DEF r, W
  <2>2. FlattenSeq(<<RawStep(x)>> \o r) = RawStep(x) \o FlattenSeq(r)
    BY <2>1, FlattenCons
  <2> QED
    BY <2>2 DEF r
<1> QED
  BY <1>7, <1>8 DEF RawSteps

(* A step of one part is written as it is.                                 *)
LEMMA OneStep ==
    ASSUME NEW step, IsFunction(step), NEW part \in StepParts, DOMAIN step = {part}
    PROVE  RawStep(step) = <<step>>
<1>1. [x \in {part} |-> step[x]] = step
  BY DEF IsFunction
<1>2. \A p \in StepParts : Part(step, p) = IF p = part THEN <<step>> ELSE <<>>
  BY <1>1 DEF Part
<1>3. /\ Part(step, "setWeight") = IF "setWeight" = part THEN <<step>> ELSE <<>>
      /\ Part(step, "pause") = IF "pause" = part THEN <<step>> ELSE <<>>
      /\ Part(step, "setCanaryScale") = IF "setCanaryScale" = part THEN <<step>> ELSE <<>>
      /\ Part(step, "analysis") = IF "analysis" = part THEN <<step>> ELSE <<>>
  BY <1>2 DEF StepParts
<1>4. <<step>> \o <<>> = <<step>> /\ <<>> \o <<step>> = <<step>> /\ <<>> \o <<>> = <<>>
  OBVIOUS
<1> QED
  BY <1>3, <1>4 DEF RawStep, StepParts

(* Two sequences of one, joined.                                           *)
LEMMA TwoInARow == ASSUME NEW S, NEW a \in S, NEW b \in S PROVE <<a>> \o <<b>> = <<a, b>>
<1> DEFINE t == <<a>> \o <<b>>
           u == <<a, b>>
<1>1. /\ <<a>> \in Seq(S) /\ Len(<<a>>) = 1 /\ <<a>>[1] = a
      /\ <<b>> \in Seq(S) /\ Len(<<b>>) = 1 /\ <<b>>[1] = b
  BY OneIsSeq
<1>2. t \in Seq(S) /\ Len(t) = 2 /\ t[1] = a /\ t[2] = b
  BY <1>1
<1>3. u \in Seq(S) /\ Len(u) = 2 /\ u[1] = a /\ u[2] = b
  OBVIOUS
<1> HIDE DEF t, u
<1>4. \A i \in 1..Len(t) : t[i] = u[i]
  BY <1>2, <1>3
<1>5. t = u
  BY <1>2, <1>3, <1>4, SeqEqual
<1> QED
  BY <1>5 DEF t, u

(* A weight and a pause that the form joined are written as the two steps  *)
(* they were.                                                              *)
LEMMA TwoSteps ==
    ASSUME NEW a, NEW b, IsFunction(a), IsFunction(b),
           DOMAIN a = {"setWeight"}, DOMAIN b = {"pause"}
    PROVE  RawStep(Override(a, b)) = <<a, b>>
<1> DEFINE c == Override(a, b)
<1>1. /\ DOMAIN c = {"setWeight", "pause"}
      /\ c["setWeight"] = a["setWeight"] /\ c["pause"] = b["pause"]
  BY DEF Override
<1>2. /\ [x \in {"setWeight"} |-> a[x]] = a
      /\ [x \in {"pause"} |-> b[x]] = b
  BY DEF IsFunction
<1>3. /\ [x \in {"setWeight"} |-> c[x]] = a
      /\ [x \in {"pause"} |-> c[x]] = b
  <2> HIDE DEF c
  <2> QED
    BY <1>1, <1>2
<1> HIDE DEF c
<1>4. /\ Part(c, "setWeight") = <<a>> /\ Part(c, "pause") = <<b>>
      /\ Part(c, "setCanaryScale") = <<>> /\ Part(c, "analysis") = <<>>
  BY <1>1, <1>3 DEF Part
<1>5. ((<<a>> \o <<b>>) \o <<>>) \o <<>> = <<a, b>>
  <2>1. <<a>> \o <<b>> = <<a, b>>
    BY TwoInARow, a \in {a, b}, b \in {a, b}
  <2>2. <<a, b>> \in Seq({a, b})
    OBVIOUS
  <2> QED
    BY <2>1, <2>2, ConcatEmptySeq
<1> QED
  BY <1>4, <1>5 DEF RawStep, c

(* A canary's steps of one part each come back from the form as they were, *)
(* however many there are: a weight and a pause right after it are one     *)
(* step of the form and two of the text, and none is dropped, doubled or   *)
(* moved (yamlCommonService.ts 304-333, yamlDeploymentService.ts 87-127).  *)
THEOREM StepsComeBack ==
    ASSUME NEW raw, IsList(raw),
           \A i \in DOMAIN raw :
               IsFunction(raw[i]) /\ \E part \in StepParts : DOMAIN raw[i] = {part}
    PROVE  RawSteps(FormSteps(raw)) = raw
<1> DEFINE n == Len(raw)
           U == FormStepsOf(raw)
           rest(i) == [j \in 1..n + 1 - i |-> raw[i + j - 1]]
           V == StepsOf(raw)
<1>0. n \in Nat /\ DOMAIN raw = 1..n /\ raw \in Seq(V)
  BY ListIsSeq DEF StepsOf
<1>1. PICK from : /\ FormSteps(raw) = from[1]
                  /\ \A i \in 1..n + 1 : from[i] = StepsFrom(raw, from, i) /\ from[i] \in Seq(U)
  BY FormStepsType
<1>2. \A i \in 1..n : raw[i] \in U /\ raw[i] \in V
  BY <1>0 DEF FormStepsOf, StepsOf
<1>3. \A i, j \in 1..n : Override(raw[i], raw[j]) \in U
  BY <1>0 DEF FormStepsOf, StepsOf
<1>4. ASSUME NEW i \in 1..n
      PROVE  /\ rest(i) \in Seq(V) /\ Len(rest(i)) = n + 1 - i
             /\ \A j \in 1..n + 1 - i : rest(i)[j] = raw[i + j - 1]
  <2>1. \A j \in 1..n + 1 - i : i + j - 1 \in 1..n
    BY <1>0
  <2>2. rest(i) \in [1..n + 1 - i -> V] /\ n + 1 - i \in Nat
    BY <1>0, <1>2, <2>1
  <2>3. \A j \in 1..n + 1 - i : rest(i)[j] = raw[i + j - 1]
    OBVIOUS
  <2> HIDE DEF rest
  <2> QED
    BY <2>2, <2>3, FunctionIsSeq
<1>5. rest(n + 1) = <<>>
  BY <1>0
<1>6. ASSUME NEW i \in 1..n
      PROVE  <<raw[i]>> \o rest(i + 1) = rest(i)
  <2> DEFINE r == rest(i + 1)
             s == rest(i)
  <2>1. r \in Seq(V) /\ Len(r) = n - i /\ \A j \in 1..n - i : r[j] = raw[i + j]
    <3>1. CASE i = n
      <4>1. r = <<>>
        BY <1>5, <3>1
      <4> HIDE DEF r
      <4> QED
        BY <1>0, <3>1, <4>1
    <3>2. CASE i # n
      <4> HIDE DEF rest, r, s, n, U, V
      <4>0. n \in Nat
        BY <1>0
      <4>1. i + 1 \in 1..n
        BY <4>0, <3>2
      <4>2. n + 1 - (i + 1) = n - i
        BY <4>0
      <4>3. \A j \in 1..n - i : (i + 1) + j - 1 = i + j
        BY <4>0
      <4>4. /\ rest(i + 1) \in Seq(V) /\ Len(rest(i + 1)) = n + 1 - (i + 1)
            /\ \A j \in 1..n + 1 - (i + 1) : rest(i + 1)[j] = raw[(i + 1) + j - 1]
        BY <1>4, <4>1
      <4> QED
        BY <4>2, <4>3, <4>4 DEF r
    <3> QED
      BY <3>1, <3>2
  <2>2. s \in Seq(V) /\ Len(s) = n + 1 - i /\ \A j \in 1..n + 1 - i : s[j] = raw[i + j - 1]
    <3> HIDE DEF rest
    <3> QED
      BY <1>4
  <2>3. <<raw[i]>> \in Seq(V) /\ Len(<<raw[i]>>) = 1 /\ <<raw[i]>>[1] = raw[i]
    BY <1>2, OneIsSeq
  <2> DEFINE t == <<raw[i]>> \o r
  <2> HIDE DEF r, s
  <2>4. /\ t \in Seq(V) /\ Len(t) = n + 1 - i /\ t[1] = raw[i]
        /\ \A j \in 1..n - i : t[j + 1] = r[j]
    <3>1. n \in Nat
      BY <1>0
    <3> DEFINE one == <<raw[i]>>
    <3>2. one \in Seq(V) /\ Len(one) = 1 /\ one[1] = raw[i]
      BY <2>3
    <3> HIDE DEF rest, n, U, V, one
    <3>3. t = one \o r
      BY DEF one
    <3>4. /\ t \in Seq(V) /\ Len(t) = Len(one) + Len(r)
          /\ \A j \in 1..Len(one) + Len(r) :
                t[j] = IF j <= Len(one) THEN one[j] ELSE r[j - Len(one)]
      BY <3>2, <3>3, <2>1, ConcatProperties
    <3> HIDE DEF t
    <3>5. /\ Len(t) = 1 + (n - i)
          /\ \A j \in 1..1 + (n - i) : t[j] = IF j <= 1 THEN one[1] ELSE r[j - 1]
      BY <3>1, <3>2, <3>4, <2>1
    <3>6. 1 \in 1..1 + (n - i) /\ 1 + (n - i) = n + 1 - i
      BY <3>1
    <3>7. ASSUME NEW j \in 1..n - i
          PROVE  t[j + 1] = r[j]
      <4>1. j + 1 \in 1..1 + (n - i) /\ ~(j + 1 <= 1) /\ (j + 1) - 1 = j
        BY <3>1
      <4> QED
        BY <3>5, <4>1
    <3>8. t[1] = raw[i]
      BY <3>2, <3>5, <3>6
    <3>9. Len(t) = n + 1 - i
      BY <3>5, <3>6
    <3> QED
      BY <3>4, <3>7, <3>8, <3>9
  <2>5. \A j \in 1..Len(s) : t[j] = s[j]
    <3> SUFFICES ASSUME NEW j \in 1..n + 1 - i PROVE t[j] = s[j]
      BY <2>2
    <3> HIDE DEF t
    <3>1. CASE j = 1
      BY <1>0, <2>2, <2>4, <3>1
    <3>2. CASE j # 1
      <4>1. j - 1 \in 1..n - i /\ (j - 1) + 1 = j /\ i + (j - 1) = i + j - 1
        BY <1>0, <3>2
      <4> QED
        BY <2>1, <2>2, <2>4, <4>1
    <3> QED
      BY <3>1, <3>2
  <2>6. t = s
    <3> HIDE DEF t
    <3> QED
      BY <2>2, <2>4, <2>5, SeqEqual
  <2> QED
    BY <2>6 DEF r, s
<1> DEFINE S == {i \in Nat : RawSteps(from[i]) = rest(i)}
<1>7. n + 1 \in S
  <2>1. StepsFrom(raw, from, n + 1) = <<>>
    BY <1>0 DEF StepsFrom
  <2>2. n + 1 \in Nat /\ n + 1 \in 1..n + 1
    BY <1>0
  <2>3. from[n + 1] = <<>>
    BY <1>1, <2>1, <2>2
  <2>4. RawSteps(<<>>) = <<>>
    BY DEF RawSteps, FlattenSeq
  <2> HIDE DEF rest
  <2> QED
    BY <1>5, <2>2, <2>3, <2>4
<1>8. ASSUME NEW i \in 1..n, \A j \in i + 1..n + 1 : j \in S
      PROVE  i \in S
  <2> HIDE DEF rest, U, V
  <2>1. RawSteps(from[i + 1]) = rest(i + 1) /\ from[i + 1] \in Seq(U)
    BY <1>0, <1>1, <1>8
  <2>2. from[i] = StepsFrom(raw, from, i) /\ i \in Nat /\ i <= Len(raw)
    BY <1>0, <1>1
  <2>3. PICK part \in StepParts : DOMAIN raw[i] = {part}
    BY <1>0
  <2>4. IsFunction(raw[i])
    BY <1>0
  <2>5. CASE JoinedPause(raw, i)
    <3>1. i + 1 \in 1..n /\ i + 2 \in i + 1..n + 1 /\ i + 2 \in 1..n + 1
      BY <1>0, <2>5 DEF JoinedPause
    <3>2. RawSteps(from[i + 2]) = rest(i + 2) /\ from[i + 2] \in Seq(U)
      BY <1>1, <1>8, <3>1
    <3>3. DOMAIN raw[i] = {"setWeight"} /\ DOMAIN raw[i + 1] = {"pause"} /\ IsFunction(raw[i + 1])
      <4>1. PICK p \in StepParts : DOMAIN raw[i + 1] = {p}
        BY <1>0, <3>1
      <4>2. IsFunction(raw[i + 1])
        BY <1>0, <3>1
      <4> QED
        BY <2>3, <2>5, <4>1, <4>2 DEF JoinedPause, Pauses
    <3>4. RawStep(Override(raw[i], raw[i + 1])) = <<raw[i], raw[i + 1]>>
      BY <2>4, <3>3, TwoSteps
    <3>5. Override(raw[i], raw[i + 1]) \in U
      BY <1>3, <3>1
    <3>6. from[i] = <<Override(raw[i], raw[i + 1])>> \o from[i + 2]
      BY <2>2, <2>5 DEF StepsFrom
    <3>7. RawSteps(from[i]) = <<raw[i], raw[i + 1]>> \o rest(i + 2)
      BY <3>2, <3>4, <3>5, <3>6, RawStepsCons
    <3>8. <<raw[i], raw[i + 1]>> \o rest(i + 2) = <<raw[i]>> \o (<<raw[i + 1]>> \o rest(i + 2))
      <4>1. rest(i + 2) \in Seq(V)
        <5>1. CASE i + 2 \in 1..n
          BY <1>4, <5>1
        <5>2. CASE i + 2 = n + 1
          BY <1>5, <5>2, EmptySeq
        <5> QED
          BY <1>0, <3>1, <5>1, <5>2
      <4>2. <<raw[i]>> \in Seq(V) /\ <<raw[i + 1]>> \in Seq(V)
        BY <1>2, <3>1, OneIsSeq
      <4>3. <<raw[i], raw[i + 1]>> = <<raw[i]>> \o <<raw[i + 1]>>
        OBVIOUS
      <4> QED
        BY <4>1, <4>2, <4>3, ConcatAssociative
    <3>9. <<raw[i + 1]>> \o rest(i + 2) = rest(i + 1)
      <4>1. (i + 1) + 1 = i + 2
        OBVIOUS
      <4> QED
        BY <1>6, <3>1, <4>1
    <3> QED
      BY <1>6, <2>2, <3>7, <3>8, <3>9
  <2>6. CASE ~JoinedPause(raw, i)
    <3>1. from[i] = <<raw[i]>> \o from[i + 1]
      BY <2>2, <2>3, <2>6 DEF StepsFrom
    <3>2. RawStep(raw[i]) = <<raw[i]>>
      BY <2>3, <2>4, OneStep
    <3>3. RawSteps(from[i]) = <<raw[i]>> \o rest(i + 1)
      <4>1. raw[i] \in U
        BY <1>2
      <4>2. RawSteps(<<raw[i]>> \o from[i + 1]) = RawStep(raw[i]) \o RawSteps(from[i + 1])
        BY <2>1, <4>1, RawStepsCons
      <4> QED
        BY <2>1, <3>1, <3>2, <4>2
    <3> QED
      BY <1>6, <2>2, <3>3
  <2> QED
    BY <2>5, <2>6
<1>9. 1 \in S
  <2>1. 1 \in 1..n + 1
    BY <1>0
  <2> HIDE DEF S
  <2> QED
    BY <1>0, <1>7, <1>8, <2>1, DownInduction
<1>10. rest(1) = raw
  <2>1. rest(1) = [j \in 1..n |-> raw[j]]
    BY <1>0
  <2> QED
    BY <2>1 DEF IsList
<1> HIDE DEF rest
<1> QED
  BY <1>1, <1>9, <1>10

-----------------------------------------------------------------------------
(* What the form reads from a text and writes again, piece by piece.       *)

(* Nothing is left out of what has no other fields.                        *)
LEMMA PickAll ==
    ASSUME NEW f, IsFunction(f), NEW S, DOMAIN f \subseteq S
    PROVE  Pick(f, S) = f
<1>1. DOMAIN f \cap S = DOMAIN f
  OBVIOUS
<1>2. Pick(f, S) = [x \in DOMAIN f |-> f[x]]
  BY <1>1 DEF Pick
<1> QED
  BY <1>2 DEF IsFunction

(* Picking fields keeps their values and has no others.                    *)
LEMMA PickIsFunction ==
    ASSUME NEW f, NEW S
    PROVE  IsFunction(Pick(f, S)) /\ DOMAIN Pick(f, S) = DOMAIN f \cap S
           /\ \A x \in DOMAIN f \cap S : Pick(f, S)[x] = f[x]
BY DEF Pick, IsFunction

(* Overriding has the fields of both functions, and of those both have the *)
(* second's values.                                                        *)
LEMMA OverrideIs ==
    ASSUME NEW f, NEW g
    PROVE  /\ IsFunction(Override(f, g))
           /\ DOMAIN Override(f, g) = DOMAIN f \cup DOMAIN g
           /\ \A x \in DOMAIN g : Override(f, g)[x] = g[x]
           /\ \A x \in DOMAIN f \ DOMAIN g : Override(f, g)[x] = f[x]
BY DEF Override, IsFunction

(* Two functions with the same values are the same.                        *)
LEMMA SameFunction ==
    ASSUME NEW f, NEW g, IsFunction(f), IsFunction(g), DOMAIN f = DOMAIN g,
           \A x \in DOMAIN f : f[x] = g[x]
    PROVE  f = g
BY DEF IsFunction

(* Nothing is the function without fields.                                 *)
LEMMA NothingIs ==
    /\ IsFunction(Nothing) /\ DOMAIN Nothing = {}
    /\ \A f : IsFunction(f) /\ DOMAIN f = {} => f = Nothing
BY DEF Nothing, IsFunction

(* A probe that the form can say comes back as it was,                     *)
LEMMA ProbeComesBack ==
    ASSUME NEW p, DocProbe(p), SayableProbe(p)
    PROVE  /\ buildProbeConfig(parseProbe(p)) = p
           /\ p.type # "none" \/ p.times # Nothing
<1>1. p = [type |-> p.type, command |-> p.command, settings |-> p.settings,
           times |-> p.times]
  BY DEF DocProbe
<1>2. Pick(p.times, ProbeTimes) = p.times
  BY PickAll DEF DocProbe, SayableProbe
<1>3. CASE p.type = "exec"
  <2>1. p.settings = Nothing /\ IsCommand(p.command) /\ SayableCommand(p.command)
    BY <1>3 DEF DocProbe, SayableProbe
  <2> DEFINE q == parseProbe(p)
             text == commandArrayToString(p.command)
  <2>2. q = [p EXCEPT !.command = text]
    BY <1>3 DEF parseProbe
  <2> HIDE DEF text
  <2>3. q.type = "exec" /\ q.command = text /\ q.settings = Nothing /\ q.times = p.times
    BY <1>1, <1>3, <2>1, <2>2
  <2>4. parseCommandString(text) = p.command /\ text \notin EmptyTexts
    BY <2>1, CommandComesBack DEF SayableCommand, text
  <2>5. "exec" \notin DOMAIN HandlerFields
    BY DEF HandlerFields
  <2> HIDE DEF q
  <2>6. buildProbeConfig(q) = [type |-> "exec", command |-> p.command, settings |-> Nothing,
                               times |-> p.times]
    BY <1>2, <2>3, <2>4, <2>5 DEF buildProbeConfig
  <2> QED
    BY <1>1, <1>3, <2>1, <2>6 DEF q
<1>4. CASE p.type = "httpGet"
  <2>1. /\ p.command = <<>> /\ IsFunction(p.settings)
        /\ {"path", "port"} \subseteq DOMAIN p.settings
        /\ DOMAIN p.settings \subseteq {"path", "port", "scheme"}
    BY <1>4 DEF DocProbe, SayableProbe
  <2>2. parseProbe(p) = p
    BY <1>4 DEF parseProbe
  <2>3. HandlerFields["httpGet"] = {"path", "port", "scheme"} /\ "httpGet" \in DOMAIN HandlerFields
        /\ HandlerDefaults["httpGet"] = [path |-> "/", port |-> 80]
    BY DEF HandlerFields, HandlerDefaults
  <2>4. Pick(p.settings, HandlerFields["httpGet"]) = p.settings
    BY <2>1, <2>3, PickAll
  <2>5. Override([path |-> "/", port |-> 80], p.settings) = p.settings
    <3> DEFINE d == [path |-> "/", port |-> 80]
               s == p.settings
    <3>1. DOMAIN d = {"path", "port"}
      OBVIOUS
    <3> HIDE DEF d, s
    <3>2. IsFunction(s) /\ DOMAIN d \subseteq DOMAIN s
      BY <2>1, <3>1 DEF s
    <3>3. Override(d, s) = s
      BY <3>2, OverrideIs, SameFunction
    <3> QED
      BY <3>3 DEF d, s
  <2>6. buildProbeConfig(p) = [type |-> p.type, command |-> <<>>, settings |-> p.settings,
                               times |-> p.times]
    BY <1>2, <1>4, <2>3, <2>4, <2>5 DEF buildProbeConfig
  <2> QED
    BY <1>1, <1>4, <2>1, <2>2, <2>6
<1>5. CASE p.type = "tcpSocket"
  <2>1. p.command = <<>> /\ IsFunction(p.settings) /\ DOMAIN p.settings \subseteq {"port"}
    BY <1>5 DEF DocProbe, SayableProbe
  <2>2. parseProbe(p) = p
    BY <1>5 DEF parseProbe
  <2>3. HandlerFields["tcpSocket"] = {"port"} /\ "tcpSocket" \in DOMAIN HandlerFields
        /\ HandlerDefaults["tcpSocket"] = Nothing
    BY DEF HandlerFields, HandlerDefaults
  <2>4. Pick(p.settings, HandlerFields["tcpSocket"]) = p.settings
    BY <2>1, <2>3, PickAll
  <2>5. Override(Nothing, p.settings) = p.settings
    <3> DEFINE s == p.settings
    <3>1. IsFunction(s)
      BY <2>1
    <3> HIDE DEF s
    <3> DEFINE o == Override(Nothing, s)
    <3>3. IsFunction(o) /\ DOMAIN o = DOMAIN Nothing \cup DOMAIN s /\ \A x \in DOMAIN s : o[x] = s[x]
      BY OverrideIs
    <3>4. DOMAIN o = DOMAIN s
      BY <3>3, NothingIs
    <3> HIDE DEF o
    <3>5. o = s
      BY <3>1, <3>3, <3>4, SameFunction
    <3>2. Override(Nothing, s) = s
      BY <3>5 DEF o
    <3> QED
      BY <3>2 DEF s
  <2>6. buildProbeConfig(p) = [type |-> p.type, command |-> <<>>, settings |-> p.settings,
                               times |-> p.times]
    BY <1>2, <1>5, <2>3, <2>4, <2>5 DEF buildProbeConfig
  <2> QED
    BY <1>1, <1>5, <2>1, <2>2, <2>6
<1>6. CASE p.type \notin {"exec", "httpGet", "tcpSocket"}
  <2>1. p.type = "none" /\ p.settings = Nothing /\ p.times # Nothing /\ p.command = <<>>
    BY <1>6 DEF DocProbe, SayableProbe
  <2>2. parseProbe(p) = p /\ "none" \notin DOMAIN HandlerFields
    BY <2>1 DEF parseProbe, HandlerFields
  <2>3. buildProbeConfig(p) = [type |-> "none", command |-> <<>>, settings |-> Nothing,
                               times |-> p.times]
    BY <1>2, <2>1, <2>2 DEF buildProbeConfig
  <2> QED
    BY <1>1, <2>1, <2>2, <2>3
<1> QED
  BY <1>3, <1>4, <1>5, <1>6

(* so do hooks,                                                            *)
LEMMA HooksComeBack ==
    ASSUME NEW hooks, DocHooks(hooks), SayableHooks(hooks)
    PROVE  BuildLifecycle(ParseLifecycle(hooks)) = hooks
<1> DEFINE q == ParseLifecycle(hooks)
           b == BuildLifecycle(q)
<1>1. ASSUME NEW h \in DOMAIN hooks
      PROVE  /\ q[h] = commandArrayToString(hooks[h].command)
             /\ parseCommandString(q[h]) = hooks[h].command /\ hooks[h].command # <<>>
             /\ hooks[h] = [type |-> "exec", command |-> hooks[h].command]
  <2>1. hooks[h].type = "exec" /\ SayableCommand(hooks[h].command)
    BY DEF SayableHooks
  <2>2. IsCommand(hooks[h].command)
        /\ hooks[h] = [type |-> hooks[h].type, command |-> hooks[h].command]
    BY DEF DocHooks
  <2>3. q[h] = commandArrayToString(hooks[h].command)
    BY <2>1 DEF ParseLifecycle
  <2>4. parseCommandString(commandArrayToString(hooks[h].command)) = hooks[h].command
    BY <2>1, <2>2, CommandComesBack DEF SayableCommand
  <2> HIDE DEF q
  <2> QED
    BY <2>1, <2>2, <2>3, <2>4 DEF SayableCommand
<1>2. DOMAIN q = DOMAIN hooks
  BY DEF ParseLifecycle
<1>3. DOMAIN b = {g \in DOMAIN q : parseCommandString(q[g]) # <<>>} /\ IsFunction(b)
      /\ \A h \in DOMAIN b : b[h] = [type |-> "exec", command |-> parseCommandString(q[h])]
  <2> HIDE DEF q
  <2> QED
    BY DEF BuildLifecycle, IsFunction
<1> HIDE DEF q, b
<1>4. DOMAIN b = DOMAIN hooks
  BY <1>1, <1>2, <1>3
<1>5. \A h \in DOMAIN b : b[h] = hooks[h]
  BY <1>1, <1>3, <1>4
<1>6. IsFunction(hooks)
  BY DEF DocHooks
<1>7. b = hooks
  BY <1>3, <1>4, <1>5, <1>6, SameFunction
<1> QED
  BY <1>7 DEF b, q

(* resources,                                                              *)
LEMMA ResourcesComeBack ==
    ASSUME NEW r, r = [requests |-> r.requests, limits |-> r.limits],
           IsFunction(r.requests), IsFunction(r.limits), SayableResources(r)
    PROVE  BuildResources(r) = r
<1>1. Pick(r.requests, Requests) = r.requests
  BY PickAll DEF SayableResources
<1>2. Pick(r.limits, Requests \cup {"nvidia.com/gpu"}) = r.limits
  BY PickAll DEF SayableResources
<1> QED
  BY <1>1, <1>2 DEF BuildResources

(* ports,                                                                  *)
LEMMA PortComesBack ==
    ASSUME NEW port, IsFunction(port), SayablePort(port)
    PROVE  BuildPort(port) = port
<1> DEFINE fields == {"name", "containerPort"} \cup
                     (IF Given(port, "protocol", "TCP") = "TCP" THEN {} ELSE {"protocol"})
<1>1. DOMAIN port \subseteq fields
  BY DEF SayablePort, Given
<1>2. BuildPort(port) = Pick(port, fields)
  BY DEF BuildPort
<1> HIDE DEF fields
<1> QED
  BY <1>1, <1>2, PickAll

(* and mounts.                                                             *)
LEMMA MountComesBack ==
    ASSUME NEW m, IsFunction(m), DOMAIN m \subseteq {"name", "mountPath", "subPath", "readOnly"}
    PROVE  BuildMount(m) = m
BY PickAll DEF BuildMount

(* Mapping a list with a function that gives every element back gives the  *)
(* list back.                                                              *)
LEMMA SameList ==
    ASSUME NEW s, IsList(s), NEW t, t = [i \in DOMAIN s |-> t[i]],
           \A i \in DOMAIN s : t[i] = s[i]
    PROVE  t = s
<1>1. DOMAIN s = 1..Len(s) /\ s = [i \in 1..Len(s) |-> s[i]]
  <2> DEFINE u == [i \in 1..Len(s) |-> s[i]]
  <2>1. DOMAIN u = 1..Len(s) /\ s = u
    BY DEF IsList
  <2> HIDE DEF u
  <2>2. DOMAIN s = 1..Len(s)
    BY <2>1
  <2> QED
    BY <2>1, <2>2 DEF u
<1> QED
  BY <1>1

(* The fields of a container, after reading it and writing it again.       *)
LEMMA ContainerFieldComesBack ==
    ASSUME NEW fields, NEW c, DocContainer(c), SayableContainer(c, fields),
           NEW f \in DOMAIN c
    PROVE  LET q == ParseContainer(c, fields)
           IN f \in WrittenFields(q) /\ buildContainerSpec(q)[f] = c[f]
<1> DEFINE q == ParseContainer(c, fields)
           b == buildContainerSpec(q)
<1>0. Commands \cap Probes = {} /\ (Commands \cup Probes)
          \cap {"image", "lifecycle", "resources", "ports", "volumeMounts"} = {}
  BY DEF Commands, Probes
<1>1. f \in fields /\ f \in DOMAIN q
      /\ q[f] = CASE f \in Commands -> commandArrayToString(c[f])
                  [] f \in Probes -> parseProbe(c[f])
                  [] f = "lifecycle" -> ParseLifecycle(c[f])
                  [] OTHER -> c[f]
  BY DEF ParseContainer, SayableContainer
<1>2. (CASE f \in Commands
                       -> IsCommand(c[f]) /\ SayableCommand(c[f])
        [] f \in Probes -> DocProbe(c[f]) /\ SayableProbe(c[f])
        [] f = "lifecycle" -> DocHooks(c[f]) /\ SayableHooks(c[f])
        [] f = "resources" ->
              /\ c[f] = [requests |-> c[f].requests, limits |-> c[f].limits]
              /\ IsFunction(c[f].requests) /\ IsFunction(c[f].limits)
              /\ SayableResources(c[f])
        [] f = "ports" -> IsList(c[f]) /\ \A i \in DOMAIN c[f] :
                              IsFunction(c[f][i]) /\ SayablePort(c[f][i])
        [] f = "volumeMounts" -> IsList(c[f]) /\ \A i \in DOMAIN c[f] :
                IsFunction(c[f][i])
                  /\ DOMAIN c[f][i] \subseteq {"name", "mountPath", "subPath", "readOnly"}
        [] OTHER -> TRUE)
  BY DEF DocContainer, SayableContainer, Commands, Probes
<1>3. "image" \in DOMAIN q /\ q["image"] = c["image"] /\ c["image"] # ""
  BY DEF ParseContainer, SayableContainer, Commands, Probes
<1> HIDE DEF q
<1>4. f \in WrittenFields(q) <=>
        CASE f \in Commands -> parseCommandString(q[f]) # <<>>
          [] f = "lifecycle" -> BuildLifecycle(q[f]) # Nothing
          [] f \in Probes -> buildProbeConfig(q[f]).type # "none"
                               \/ buildProbeConfig(q[f]).times # Nothing
          [] OTHER -> TRUE
  BY <1>1 DEF WrittenFields
<1>5. f \in WrittenFields(q) =>
        b[f] = CASE f = "image" -> Image(q)
                 [] f \in Commands -> parseCommandString(q[f])
                 [] f \in Probes -> buildProbeConfig(q[f])
                 [] f = "lifecycle" -> BuildLifecycle(q[f])
                 [] f = "resources" -> BuildResources(q[f])
                 [] f = "ports" -> [i \in DOMAIN q[f] |-> BuildPort(q[f][i])]
                 [] f = "volumeMounts" -> [i \in DOMAIN q[f] |-> BuildMount(q[f][i])]
                 [] OTHER -> q[f]
  BY DEF buildContainerSpec
<1> HIDE DEF b
<1>6. CASE f \in Commands
  <2>0. f \notin Probes /\ f \notin {"image", "lifecycle", "resources", "ports", "volumeMounts"}
    BY <1>0, <1>6
  <2>1. q[f] = commandArrayToString(c[f]) /\ IsCommand(c[f]) /\ SayableCommand(c[f])
    BY <1>1, <1>2, <1>6, <2>0
  <2>2. parseCommandString(q[f]) = c[f] /\ c[f] # <<>>
    BY <2>1, CommandComesBack DEF SayableCommand
  <2> QED
    BY <1>4, <1>5, <1>6, <2>0, <2>2 DEF b, q
<1>7. CASE f \in Probes
  <2>0. f \notin Commands /\ f \notin {"image", "lifecycle", "resources", "ports", "volumeMounts"}
    BY <1>0, <1>7
  <2>1. q[f] = parseProbe(c[f]) /\ DocProbe(c[f]) /\ SayableProbe(c[f])
    BY <1>1, <1>2, <1>7, <2>0
  <2>2. buildProbeConfig(q[f]) = c[f] /\ (c[f].type # "none" \/ c[f].times # Nothing)
    BY <2>1, ProbeComesBack
  <2> QED
    BY <1>4, <1>5, <1>7, <2>0, <2>2 DEF b, q
<1>8. CASE f = "lifecycle"
  <2>0. f \notin Commands /\ f \notin Probes /\ f # "image"
    BY <1>8 DEF Commands, Probes
  <2>1. q[f] = ParseLifecycle(c[f]) /\ DocHooks(c[f]) /\ SayableHooks(c[f])
    BY <1>1, <1>2, <1>8, <2>0
  <2>2. BuildLifecycle(q[f]) = c[f] /\ c[f] # Nothing
    BY <2>1, HooksComeBack DEF SayableHooks
  <2> QED
    BY <1>4, <1>5, <1>8, <2>0, <2>2 DEF b, q
<1>9. CASE f \notin Commands \cup Probes /\ f # "lifecycle"
  <2>1. q[f] = c[f] /\ f \in WrittenFields(q)
    BY <1>1, <1>4, <1>9
  <2>2. CASE f = "image"
    BY <1>3, <1>5, <1>9, <2>1, <2>2 DEF Image, b, q
  <2>3. CASE f = "resources"
    <3>1. BuildResources(c[f]) = c[f]
      BY <1>2, <1>9, <2>3, ResourcesComeBack
    <3> QED
      BY <1>5, <1>9, <2>1, <2>3, <3>1 DEF b, q
  <2>4. CASE f = "ports"
    <3>1. IsList(c[f]) /\ \A i \in DOMAIN c[f] : BuildPort(c[f][i]) = c[f][i]
      BY <1>2, <1>9, <2>4, PortComesBack
    <3> DEFINE t == [i \in DOMAIN c[f] |-> BuildPort(c[f][i])]
    <3>2. t = [i \in DOMAIN c[f] |-> t[i]] /\ \A i \in DOMAIN c[f] : t[i] = c[f][i]
      BY <3>1
    <3>3. b[f] = t
      BY <1>5, <1>9, <2>1, <2>4
    <3> HIDE DEF t
    <3>4. t = c[f]
      BY <3>1, <3>2, SameList
    <3> QED
      BY <2>1, <3>3, <3>4 DEF b, q
  <2>5. CASE f = "volumeMounts"
    <3>1. IsList(c[f]) /\ \A i \in DOMAIN c[f] : BuildMount(c[f][i]) = c[f][i]
      BY <1>2, <1>9, <2>5, MountComesBack
    <3> DEFINE t == [i \in DOMAIN c[f] |-> BuildMount(c[f][i])]
    <3>2. t = [i \in DOMAIN c[f] |-> t[i]] /\ \A i \in DOMAIN c[f] : t[i] = c[f][i]
      BY <3>1
    <3>3. b[f] = t
      BY <1>5, <1>9, <2>1, <2>5
    <3> HIDE DEF t
    <3>4. t = c[f]
      BY <3>1, <3>2, SameList
    <3> QED
      BY <2>1, <3>3, <3>4 DEF b, q
  <2>6. CASE f \notin {"image", "resources", "ports", "volumeMounts"}
    BY <1>5, <1>9, <2>1, <2>6 DEF b, q
  <2> QED
    BY <2>2, <2>3, <2>4, <2>5, <2>6
<1> QED
  BY <1>6, <1>7, <1>8, <1>9

(* A container that the form can say comes back as it was.                 *)
LEMMA ContainerComesBack ==
    ASSUME NEW fields, NEW c, DocContainer(c), SayableContainer(c, fields)
    PROVE  buildContainerSpec(ParseContainer(c, fields)) = c
<1> DEFINE q == ParseContainer(c, fields)
           b == buildContainerSpec(q)
<1>1. \A f \in DOMAIN c : f \in WrittenFields(q) /\ b[f] = c[f]
  BY ContainerFieldComesBack
<1>2. DOMAIN q \subseteq DOMAIN c
  BY DEF ParseContainer
<1> HIDE DEF q
<1>3. IsFunction(b) /\ DOMAIN b = WrittenFields(q) \cup {"image"}
  BY DEF buildContainerSpec, IsFunction
<1>4. WrittenFields(q) \subseteq DOMAIN q /\ "image" \in DOMAIN c /\ IsFunction(c)
  BY DEF WrittenFields, DocContainer
<1> HIDE DEF b
<1>5. DOMAIN b = DOMAIN c
  BY <1>1, <1>2, <1>3, <1>4
<1>6. b = c
  BY <1>1, <1>3, <1>4, <1>5, SameFunction
<1> QED
  BY <1>6 DEF b, q

(* So do volumes.                                                          *)
LEMMA VolumeComesBack ==
    ASSUME NEW v, IsVolume(v), SayableVolume(v)
    PROVE  buildVolumeSpec(ParseVolume(v)) = v
<1>1. ParseVolume(v) = v
  BY DEF ParseVolume, SayableVolume
<1>2. CASE v.type = "emptyDir"
  BY <1>1, <1>2 DEF buildVolumeSpec
<1>3. CASE v.type # "emptyDir"
  <2> DEFINE named == [f \in {VolumeName[v.type]} |-> ""]
             o == Override(named, v.config)
  <2>1. /\ IsFunction(v.config) /\ VolumeName[v.type] \in DOMAIN v.config
        /\ DOMAIN v.config \subseteq VolumeFields[v.type]
    BY <1>3 DEF IsVolume, SayableVolume
  <2>2. Pick(v.config, VolumeFields[v.type]) = v.config
    BY <2>1, PickAll
  <2>3. DOMAIN named = {VolumeName[v.type]}
    OBVIOUS
  <2> HIDE DEF named
  <2> DEFINE c == v.config
  <2> HIDE DEF c
  <2>8. /\ IsFunction(Override(named, c))
        /\ DOMAIN Override(named, c) = DOMAIN named \cup DOMAIN c
        /\ \A x \in DOMAIN c : Override(named, c)[x] = c[x]
    BY OverrideIs
  <2>4. IsFunction(o) /\ DOMAIN o = DOMAIN v.config /\ \A f \in DOMAIN o : o[f] = v.config[f]
    BY <2>1, <2>3, <2>8 DEF c
  <2> HIDE DEF o
  <2>5. o = v.config
    BY <2>1, <2>4, SameFunction
  <2>6. buildVolumeSpec(v) = [v EXCEPT !.config = o]
    BY <1>3, <2>2 DEF buildVolumeSpec, o, named
  <2>7. v = [name |-> v.name, type |-> v.type, config |-> v.config]
    BY DEF IsVolume
  <2> QED
    BY <1>1, <2>5, <2>6, <2>7
<1> QED
  BY <1>2, <1>3

(* And tolerations.                                                        *)
LEMMA TolerationComesBack ==
    ASSUME NEW t, IsFunction(t), SayableToleration(t)
    PROVE  BuildToleration(ParseToleration(t)) = t
<1> DEFINE equal == [operator |-> "Equal"]
           o == Override(equal, t)
<1>1. "operator" \in DOMAIN t /\ DOMAIN t \subseteq TolerationFields
  BY DEF SayableToleration
<1>2. Pick(t, TolerationFields) = t
  BY <1>1, PickAll
<1>3. DOMAIN equal = {"operator"}
  OBVIOUS
<1> HIDE DEF equal
<1>7. /\ IsFunction(o) /\ DOMAIN o = DOMAIN equal \cup DOMAIN t
      /\ \A x \in DOMAIN t : o[x] = t[x]
  BY OverrideIs
<1>4. IsFunction(o) /\ DOMAIN o = DOMAIN t /\ \A f \in DOMAIN o : o[f] = t[f]
  <2> HIDE DEF o
  <2> QED
    BY <1>1, <1>3, <1>7
<1> HIDE DEF o
<1>5. o = t
  BY <1>4, SameFunction
<1>6. ParseToleration(t) = t
  <2>1. ParseToleration(t) = Override(equal, Pick(t, TolerationFields))
    BY DEF ParseToleration, equal
  <2> QED
    BY <1>2, <1>5, <2>1 DEF o
<1> QED
  BY <1>2, <1>6 DEF BuildToleration

-----------------------------------------------------------------------------
(* Scheduling rules, there and back.                                       *)

(* An expression without the empty value comes back as it was.             *)
LEMMA ExpressionComesBack ==
    ASSUME NEW e, e = [key |-> e.key, operator |-> e.operator, values |-> e.values],
           Blank \notin e.values
    PROVE  Parsed(e) = e
<1>1. parseCommaString(e.values) = e.values
  BY DEF parseCommaString
<1> QED
  BY <1>1 DEF Parsed

(* A set that holds one element is the set of it.                          *)
LEMMA OneIs == ASSUME NEW S, One(S) PROVE \E x : S = {x} /\ x \in S
BY DEF One

(* The required rows of node affinity give their one term back.            *)
LEMMA RequiredComesBack ==
    ASSUME NEW terms, One(terms),
           \A t \in terms : DocTerm("nodeAffinityRequired", t)
                              /\ SayableTerm("nodeAffinityRequired", t)
    PROVE  NodeTerms(NodeRows(terms)) = terms /\ NodeRows(terms) # {}
<1>1. PICK t : terms = {t}
  BY OneIs
<1>2. /\ t = [expressions |-> t.expressions, fields |-> t.fields]
      /\ \A e \in t.expressions :
            e = [key |-> e.key, operator |-> e.operator, values |-> e.values]
      /\ t.fields = {} /\ t.expressions # {} /\ \A e \in t.expressions : Blank \notin e.values
  BY <1>1 DEF DocTerm, DocNodeTerm, SayableTerm, NoBlanks, PodRules, Weighted
<1>3. NodeRows(terms) = t.expressions
  BY <1>1 DEF NodeRows
<1>4. \A e \in t.expressions : Parsed(e) = e
  BY <1>2, ExpressionComesBack
<1>5. {Parsed(e) : e \in t.expressions} = t.expressions
  BY <1>4
<1>6. NodeTerms(t.expressions) = {[expressions |-> t.expressions, fields |-> {}]}
  BY <1>5 DEF NodeTerms, NodeTerm
<1> QED
  BY <1>1, <1>2, <1>3, <1>6

(* A preferred term of node affinity is one row, and the row the term.     *)
LEMMA PreferredComesBack ==
    ASSUME NEW terms,
           \A t \in terms : DocTerm("nodeAffinityPreferred", t)
                              /\ SayableTerm("nodeAffinityPreferred", t)
    PROVE  PreferredTerms(PreferredRows(terms)) = terms
           /\ (terms # {} => PreferredRows(terms) # {})
<1> DEFINE row(t, e) == [weight |-> t.weight, expression |-> e]
           back(r) == [weight |-> r.weight, preference |-> NodeTerm({Parsed(r.expression)})]
           rows == PreferredRows(terms)
<1>1. ASSUME NEW t \in terms
      PROVE  /\ \E e : t.preference.expressions = {e}
             /\ \A e \in t.preference.expressions : back(row(t, e)) = t
  <2>1. /\ t = [weight |-> t.weight, preference |-> t.preference]
        /\ DocNodeTerm(t.preference)
        /\ t.preference.fields = {} /\ One(t.preference.expressions)
        /\ NoBlanks(t.preference.expressions)
    BY DEF DocTerm, SayableTerm, PodRules, Weighted
  <2>2. PICK e : t.preference.expressions = {e}
    BY <2>1, OneIs
  <2>3. e = [key |-> e.key, operator |-> e.operator, values |-> e.values]
        /\ Blank \notin e.values
        /\ t.preference = [expressions |-> {e}, fields |-> {}]
    BY <2>1, <2>2 DEF DocNodeTerm, NoBlanks
  <2>4. Parsed(e) = e
    BY <2>3, ExpressionComesBack
  <2>5. NodeTerm({Parsed(e)}) = t.preference
    BY <2>3, <2>4 DEF NodeTerm
  <2>6. row(t, e).weight = t.weight /\ row(t, e).expression = e
    OBVIOUS
  <2>7. back(row(t, e)) = t
    BY <2>1, <2>5, <2>6
  <2> HIDE DEF back, row
  <2> QED
    BY <2>2, <2>7
<1>2. \A r : r \in rows <=> \E t \in terms : \E e \in t.preference.expressions : r = row(t, e)
  BY DEF PreferredRows
<1>3. \A x : x \in PreferredTerms(rows) <=> \E r \in rows : x = back(r)
  BY DEF PreferredTerms
<1> HIDE DEF row, back, rows
<1>4. \A x : x \in PreferredTerms(rows) <=> x \in terms
  BY <1>1, <1>2, <1>3
<1>5. terms # {} => rows # {}
  BY <1>1, <1>2
<1> QED
  BY <1>4, <1>5 DEF rows

(* So it is for Pods: one expression, no labels.                           *)
LEMMA PodTermComesBack ==
    ASSUME NEW t, DocPodTerm(t), SayablePodTerm(t)
    PROVE  \E e : /\ Expressions(t) = {e}
                  /\ \A r : r.expression = e /\ r.topologyKey = t.topologyKey => PodTerm(r) = t
<1>1. PICK e : t.expressions = {e}
  BY OneIs DEF SayablePodTerm
<1>2. /\ t = [topologyKey |-> t.topologyKey, expressions |-> t.expressions,
              labels |-> t.labels, namespaces |-> t.namespaces]
      /\ t.labels = [x \in DOMAIN t.labels |-> t.labels[x]]
      /\ e = [key |-> e.key, operator |-> e.operator, values |-> e.values]
  BY <1>1 DEF DocPodTerm, IsFunction
<1>3. Blank \notin e.values /\ DOMAIN t.labels = {} /\ t.namespaces = {}
  BY <1>1 DEF SayablePodTerm, NoBlanks
<1>4. Expressions(t) = {e}
  BY <1>1, <1>3 DEF Expressions
<1>5. t.labels = [k \in {} |-> Blank]
  BY <1>2, <1>3
<1>6. Parsed(e) = e
  BY <1>2, <1>3, ExpressionComesBack
<1>7. ASSUME NEW r, r.expression = e, r.topologyKey = t.topologyKey
      PROVE  PodTerm(r) = t
  BY <1>1, <1>2, <1>3, <1>5, <1>6, <1>7 DEF PodTerm
<1> QED
  BY <1>4, <1>7

(* So the required rules about Pods come back,                             *)
LEMMA PodRulesComeBack ==
    ASSUME NEW terms, \A t \in terms : DocPodTerm(t) /\ SayablePodTerm(t)
    PROVE  PodTerms(PodRows(terms)) = terms /\ (terms # {} => PodRows(terms) # {})
<1> DEFINE row(t, e) == [topologyKey |-> t.topologyKey, expression |-> e]
           rows == PodRows(terms)
<1>1. ASSUME NEW t \in terms
      PROVE  \E e : Expressions(t) = {e} /\ PodTerm(row(t, e)) = t
  <2>1. PICK e : /\ Expressions(t) = {e}
                 /\ \A r : r.expression = e /\ r.topologyKey = t.topologyKey => PodTerm(r) = t
    BY PodTermComesBack
  <2>2. row(t, e).expression = e /\ row(t, e).topologyKey = t.topologyKey
    OBVIOUS
  <2> HIDE DEF row
  <2> QED
    BY <2>1, <2>2
<1>2. \A r : r \in rows <=> \E t \in terms : \E e \in Expressions(t) : r = row(t, e)
  BY DEF PodRows
<1>3. \A x : x \in PodTerms(rows) <=> \E r \in rows : x = PodTerm(r)
  BY DEF PodTerms
<1> HIDE DEF row, rows
<1>4. \A x : x \in PodTerms(rows) <=> x \in terms
  BY <1>1, <1>2, <1>3
<1>5. terms # {} => rows # {}
  BY <1>1, <1>2
<1> QED
  BY <1>4, <1>5 DEF rows

(* and so do the preferred ones.                                           *)
LEMMA WeightedPodRulesComeBack ==
    ASSUME NEW terms,
           \A t \in terms : /\ t = [weight |-> t.weight, term |-> t.term]
                            /\ DocPodTerm(t.term) /\ SayablePodTerm(t.term)
    PROVE  WeightedPodTerms(WeightedPodRows(terms)) = terms
           /\ (terms # {} => WeightedPodRows(terms) # {})
<1> DEFINE row(t, e) == [weight |-> t.weight, topologyKey |-> t.term.topologyKey,
                         expression |-> e]
           back(r) == [weight |-> r.weight, term |-> PodTerm(r)]
           rows == WeightedPodRows(terms)
<1>1. ASSUME NEW t \in terms
      PROVE  \E e : Expressions(t.term) = {e} /\ back(row(t, e)) = t
  <2>1. PICK e : /\ Expressions(t.term) = {e}
                 /\ \A r : r.expression = e /\ r.topologyKey = t.term.topologyKey
                              => PodTerm(r) = t.term
    BY PodTermComesBack
  <2>2. row(t, e).expression = e /\ row(t, e).topologyKey = t.term.topologyKey
        /\ row(t, e).weight = t.weight
    OBVIOUS
  <2> HIDE DEF row
  <2>3. PodTerm(row(t, e)) = t.term
    BY <2>1, <2>2
  <2> QED
    BY <2>1, <2>2, <2>3
<1>2. \A r : r \in rows <=> \E t \in terms : \E e \in Expressions(t.term) : r = row(t, e)
  BY DEF WeightedPodRows
<1>3. \A x : x \in WeightedPodTerms(rows) <=> \E r \in rows : x = back(r)
  BY DEF WeightedPodTerms
<1> HIDE DEF row, rows, back
<1>4. \A x : x \in WeightedPodTerms(rows) <=> x \in terms
  BY <1>1, <1>2, <1>3
<1>5. terms # {} => rows # {}
  BY <1>1, <1>2
<1> QED
  BY <1>4, <1>5 DEF rows

(* Every rule that the form can say comes back.                            *)
LEMMA RuleComesBack ==
    ASSUME NEW a, DocAffinity(a), SayableAffinity(a), NEW rule \in DOMAIN a
    PROVE  RowsOf(rule, a[rule]) # {} /\ TermsOf(rule, RowsOf(rule, a[rule])) = a[rule]
<1>0. rule \in Rules /\ a[rule] # {}
      /\ \A t \in a[rule] : DocTerm(rule, t) /\ SayableTerm(rule, t)
  BY DEF DocAffinity, SayableAffinity
<1> DEFINE terms == a[rule]
<1> HIDE DEF terms
<1>1. CASE rule = "nodeAffinityRequired"
  <2>1. One(terms) /\ \A t \in terms : DocTerm(rule, t) /\ SayableTerm(rule, t)
    BY <1>0, <1>1 DEF SayableAffinity, terms
  <2>2. NodeTerms(NodeRows(terms)) = terms /\ NodeRows(terms) # {}
    BY <1>1, <2>1, RequiredComesBack
  <2>3. \A x : RowsOf(rule, x) = NodeRows(x) /\ TermsOf(rule, x) = NodeTerms(x)
    BY <1>1 DEF RowsOf, TermsOf, PodRules, Weighted
  <2> QED
    BY <2>2, <2>3 DEF terms
<1>2. CASE rule = "nodeAffinityPreferred"
  <2>2. PreferredTerms(PreferredRows(terms)) = terms /\ PreferredRows(terms) # {}
    BY <1>0, <1>2, PreferredComesBack DEF terms
  <2>3. \A x : RowsOf(rule, x) = PreferredRows(x) /\ TermsOf(rule, x) = PreferredTerms(x)
    BY <1>2 DEF RowsOf, TermsOf, PodRules, Weighted
  <2> QED
    BY <2>2, <2>3 DEF terms
<1>3. CASE rule \in PodRules \ Weighted
  <2>0. rule \notin NodeRules
    BY <1>3 DEF PodRules, NodeRules
  <2>1. \A t \in terms : DocPodTerm(t) /\ SayablePodTerm(t)
    BY <1>0, <1>3, <2>0 DEF DocTerm, SayableTerm, NodeRules, terms
  <2>2. PodTerms(PodRows(terms)) = terms /\ PodRows(terms) # {}
    BY <1>0, <2>1, PodRulesComeBack DEF terms
  <2>3. \A x : RowsOf(rule, x) = PodRows(x) /\ TermsOf(rule, x) = PodTerms(x)
    BY <1>3, <2>0 DEF RowsOf, TermsOf, NodeRules
  <2> QED
    BY <2>2, <2>3 DEF terms
<1>4. CASE rule \in PodRules \cap Weighted
  <2>0. rule \notin NodeRules
    BY <1>4 DEF PodRules, NodeRules
  <2>1. \A t \in terms : /\ t = [weight |-> t.weight, term |-> t.term]
                         /\ DocPodTerm(t.term) /\ SayablePodTerm(t.term)
    BY <1>0, <1>4, <2>0 DEF DocTerm, SayableTerm, NodeRules, terms
  <2>2. WeightedPodTerms(WeightedPodRows(terms)) = terms /\ WeightedPodRows(terms) # {}
    BY <1>0, <2>1, WeightedPodRulesComeBack DEF terms
  <2>3. \A x : RowsOf(rule, x) = WeightedPodRows(x) /\ TermsOf(rule, x) = WeightedPodTerms(x)
    BY <1>4, <2>0 DEF RowsOf, TermsOf, NodeRules
  <2> QED
    BY <2>2, <2>3 DEF terms
<1> QED
  BY <1>0, <1>1, <1>2, <1>3, <1>4 DEF Rules, NodeRules

(* The scheduling rules that the form can say come back as they were.      *)
LEMMA AffinityComesBack ==
    ASSUME NEW a, DocAffinity(a), SayableAffinity(a)
    PROVE  /\ parseAffinityToScheduling(a) # Nothing
           /\ buildScheduling(parseAffinityToScheduling(a)) = a
<1> DEFINE rows == parseAffinityToScheduling(a)
           b == buildScheduling(rows)
<1>1. /\ DOMAIN rows = {rule \in DOMAIN a : RowsOf(rule, a[rule]) # {}}
      /\ \A rule \in DOMAIN rows : rows[rule] = RowsOf(rule, a[rule])
  BY DEF parseAffinityToScheduling, NonEmpty
<1> HIDE DEF rows
<1>2. /\ DOMAIN b = {rule \in DOMAIN rows : rows[rule] # {}} /\ IsFunction(b)
      /\ \A rule \in DOMAIN b : b[rule] = TermsOf(rule, rows[rule])
  BY DEF buildScheduling, NonEmpty, IsFunction
<1> HIDE DEF b
<1>3. DOMAIN rows = DOMAIN a /\ \A rule \in DOMAIN a : rows[rule] # {}
  BY <1>1, RuleComesBack
<1>4. DOMAIN b = DOMAIN a /\ \A rule \in DOMAIN b : b[rule] = a[rule]
  BY <1>1, <1>2, <1>3, RuleComesBack
<1>5. IsFunction(a) /\ a # Nothing
  BY DEF DocAffinity, SayableAffinity
<1>6. b = a
  BY <1>2, <1>4, <1>5, SameFunction
<1>7. rows # Nothing
  BY <1>3, <1>5, NothingIs
<1> QED
  BY <1>6, <1>7 DEF b, rows

-----------------------------------------------------------------------------
(* Strategies, there and back.                                             *)

(* What traffic routing the form can say comes back.                       *)
LEMMA RoutingComesBack ==
    ASSUME NEW r, IsFunction(r), "nginx" \in DOMAIN r => IsFunction(r["nginx"]),
           SayableRouting(r)
    PROVE  Routing(r) = r
<1>1. /\ IsFunction(Routing(r))
      /\ DOMAIN Routing(r) = {x \in DOMAIN r \cap Routers :
                                 x = "nginx" => "stableIngress" \in DOMAIN r[x]}
      /\ \A x \in DOMAIN Routing(r) : Routing(r)[x] = IF x = "nginx" THEN Nginx(r[x]) ELSE r[x]
  BY DEF Routing, IsFunction
<1>2. DOMAIN Routing(r) = DOMAIN r
  BY <1>1 DEF SayableRouting
<1>3. "nginx" \in DOMAIN r => Nginx(r["nginx"]) = r["nginx"]
  BY PickAll DEF Nginx, SayableRouting
<1> QED
  BY <1>1, <1>2, <1>3, SameFunction

(* The empty list has no steps, in the form and in the document.           *)
LEMMA NoSteps == IsList(<<>>) /\ DOMAIN <<>> = {} /\ RawSteps(FormSteps(<<>>)) = <<>>
<1>1. IsList(<<>>) /\ DOMAIN <<>> = {}
  BY DEF IsList
<1> QED
  BY <1>1, StepsComeBack

(* Steps that are read have the durations of their pauses as texts, and    *)
(* those that had are not changed.                                         *)
LEMMA SpelledIs ==
    ASSUME NEW raw, IsList(raw)
    PROVE  /\ IsList(Spelled(raw)) /\ DOMAIN Spelled(raw) = DOMAIN raw
           /\ \A i \in DOMAIN raw : IsFunction(Spelled(raw)[i]) /\ IsSpelled(Spelled(raw)[i])
           /\ (\A i \in DOMAIN raw : IsFunction(raw[i]) /\ IsSpelled(raw[i]))
                => Spelled(raw) = raw
<1> DEFINE step(i) == [x \in DOMAIN raw[i] |->
                          IF x = "pause" THEN normalizePauseDuration(raw[i][x]) ELSE raw[i][x]]
           steps == [i \in DOMAIN raw |-> step(i)]
<1>1. Spelled(raw) = steps
  BY DEF Spelled
<1>2. Len(raw) \in Nat /\ DOMAIN raw = 1..Len(raw)
  BY ListIsSeq DEF IsList
<1>3. \A p : normalizePauseDuration(normalizePauseDuration(p)) = normalizePauseDuration(p)
  <2> SUFFICES ASSUME NEW p, p # Nothing
               PROVE  normalizePauseDuration(normalizePauseDuration(p)) = normalizePauseDuration(p)
    BY DEF normalizePauseDuration
  <2> DEFINE q == [duration |-> p.duration, quoted |-> TRUE]
  <2>1. normalizePauseDuration(p) = q
    BY DEF normalizePauseDuration
  <2>2. q # Nothing
    <3>1. DOMAIN q # {}
      OBVIOUS
    <3> QED
      BY <3>1, NothingIs
  <2>3. q.duration = p.duration
    OBVIOUS
  <2> HIDE DEF q
  <2> QED
    BY <2>1, <2>2, <2>3 DEF normalizePauseDuration, q
<1>4. \A i \in DOMAIN raw : IsFunction(step(i)) /\ IsSpelled(step(i))
  <2> SUFFICES ASSUME NEW i \in DOMAIN raw
               PROVE  IsFunction(step(i)) /\ IsSpelled(step(i))
    OBVIOUS
  <2> DEFINE t == step(i)
  <2>1. IsFunction(t)
    BY DEF IsFunction
  <2>2. "pause" \in DOMAIN t => t["pause"] = normalizePauseDuration(raw[i]["pause"])
    OBVIOUS
  <2> HIDE DEF t
  <2>3. IsSpelled(t)
    BY <1>3, <2>2 DEF IsSpelled
  <2> QED
    BY <2>1, <2>3 DEF t
<1>5. DOMAIN steps = DOMAIN raw /\ \A i \in DOMAIN raw : steps[i] = step(i)
  OBVIOUS
<1>6. IsList(steps)
  <2> DEFINE S == {step(i) : i \in DOMAIN raw}
  <2>1. steps \in [1..Len(raw) -> S]
    BY <1>2
  <2> HIDE DEF steps, S
  <2>2. steps \in Seq(S)
    BY <1>2, <2>1, FunctionIsSeq
  <2> QED
    BY <2>2, SeqIsList
<1>7. ASSUME \A i \in DOMAIN raw : IsFunction(raw[i]) /\ IsSpelled(raw[i])
      PROVE  steps = raw
  <2>1. ASSUME NEW i \in DOMAIN raw PROVE steps[i] = raw[i]
    <3> DEFINE t == step(i)
    <3>1. /\ DOMAIN t = DOMAIN raw[i]
          /\ \A x \in DOMAIN t :
                t[x] = IF x = "pause" THEN normalizePauseDuration(raw[i][x]) ELSE raw[i][x]
      OBVIOUS
    <3>2. IsFunction(t)
      BY <1>4, <2>1
    <3>3. IsFunction(raw[i]) /\ IsSpelled(raw[i])
      BY <1>7, <2>1
    <3> HIDE DEF t
    <3>4. \A x \in DOMAIN t : t[x] = raw[i][x]
      BY <3>1, <3>3 DEF IsSpelled
    <3>5. t = raw[i]
      BY <3>1, <3>2, <3>3, <3>4, SameFunction
    <3> QED
      BY <1>5, <2>1, <3>5 DEF t
  <2>2. steps = [i \in DOMAIN raw |-> steps[i]]
    OBVIOUS
  <2> HIDE DEF steps
  <2> QED
    BY <2>1, <2>2, SameList
<1> HIDE DEF steps, step
<1> QED
  BY <1>1, <1>4, <1>5, <1>6, <1>7

(* Form steps made of such steps are such steps.                           *)
LEMMA FormStepsAreSpelled ==
    ASSUME NEW raw, IsList(raw), \A i \in DOMAIN raw : IsSpelled(raw[i])
    PROVE  LET steps == FormSteps(raw)
           IN IsList(steps) /\ \A i \in DOMAIN steps : IsSpelled(steps[i])
<1> DEFINE U == FormStepsOf(raw)
<1>1. \A s \in StepsOf(raw) : IsSpelled(s)
  BY DEF StepsOf
<1>2. \A s, t : IsSpelled(s) /\ IsSpelled(t) => IsSpelled(Override(s, t))
  <2> SUFFICES ASSUME NEW s, NEW t, IsSpelled(s), IsSpelled(t)
               PROVE  IsSpelled(Override(s, t))
    OBVIOUS
  <2> DEFINE o == Override(s, t)
  <2>1. /\ DOMAIN o = DOMAIN s \cup DOMAIN t
        /\ \A x \in DOMAIN t : o[x] = t[x]
        /\ \A x \in DOMAIN s \ DOMAIN t : o[x] = s[x]
    BY OverrideIs
  <2> HIDE DEF o
  <2>2. IsSpelled(o)
    BY <2>1 DEF IsSpelled
  <2> QED
    BY <2>2 DEF o
<1>3. \A u \in U : IsSpelled(u)
  BY <1>1, <1>2 DEF FormStepsOf
<1>4. Len(raw) \in Nat /\ 1 \in 1..Len(raw) + 1
  BY DEF IsList
<1> HIDE DEF U
<1>5. FormSteps(raw) \in Seq(U)
  BY <1>4, FormStepsType DEF U
<1> QED
  BY <1>3, <1>5, SeqIsList

(* The form's canary of a document's.                                      *)
FormCanary(c) ==
    Override(Pick(c, CanaryFields),
             [steps |-> FormSteps(Spelled(IF "steps" \in DOMAIN c THEN c["steps"] ELSE <<>>))])

(* The fields of the form's canary.                                        *)
LEMMA FormCanaryIs ==
    ASSUME NEW c
    PROVE  /\ DOMAIN FormCanary(c) = (DOMAIN c \cap CanaryFields) \cup {"steps"}
           /\ FormCanary(c)["steps"] = FormSteps(Spelled(Given(c, "steps", <<>>)))
           /\ \A x \in DOMAIN c \cap CanaryFields : FormCanary(c)[x] = c[x]
           /\ IsFunction(FormCanary(c))
<1> DEFINE s == [steps |-> FormSteps(Spelled(IF "steps" \in DOMAIN c THEN c["steps"] ELSE <<>>))]
           p == Pick(c, CanaryFields)
<1>1. DOMAIN s = {"steps"} /\ s["steps"] = FormSteps(Spelled(Given(c, "steps", <<>>)))
  BY DEF Given
<1>2. DOMAIN p = DOMAIN c \cap CanaryFields /\ \A x \in DOMAIN p : p[x] = c[x]
  BY DEF Pick
<1>3. "steps" \notin CanaryFields
  BY DEF CanaryFields
<1>4. FormCanary(c) = Override(p, s)
  BY DEF FormCanary
<1> DEFINE o == Override(p, s)
<1> HIDE DEF p, s
<1>5. /\ IsFunction(o) /\ DOMAIN o = DOMAIN p \cup DOMAIN s
      /\ \A x \in DOMAIN s : o[x] = s[x]
      /\ \A x \in DOMAIN p \ DOMAIN s : o[x] = p[x]
  BY OverrideIs
<1> HIDE DEF o
<1>6. FormCanary(c) = o
  BY <1>4 DEF o
<1> QED
  BY <1>1, <1>2, <1>3, <1>5, <1>6

(* What a canary is written as.                                            *)
LEMMA BuiltCanaryIs ==
    ASSUME NEW p
    PROVE  \E b :
              /\ buildCanaryStrategy(p) = [canary |-> b] /\ IsFunction(b)
              /\ LET raw == RawSteps(Given(p, "steps", <<>>))
                     routing == Routing(Given(p, "trafficRouting", Nothing))
                 IN /\ DOMAIN b =
                         (DOMAIN p \cap (CanaryFields \ (Zeros(p) \cup {"trafficRouting"})))
                         \cup {x \in {"steps"} : DOMAIN raw # {}}
                         \cup {x \in {"trafficRouting"} : DOMAIN routing # {}}
                    /\ "steps" \in DOMAIN b => b["steps"] = raw
                    /\ "trafficRouting" \in DOMAIN b => b["trafficRouting"] = routing
                    /\ \A x \in DOMAIN b \ {"steps", "trafficRouting"} : b[x] = p[x]
<1> DEFINE raw == RawSteps(Given(p, "steps", <<>>))
           routing == Routing(Given(p, "trafficRouting", Nothing))
           computed == [steps |-> raw, trafficRouting |-> routing]
           nonempty == {f \in DOMAIN computed : DOMAIN computed[f] # {}}
           kept == Pick(p, CanaryFields \ (Zeros(p) \cup {"trafficRouting"}))
           made == Pick(computed, nonempty)
           b == Override(kept, made)
<1>1. buildCanaryStrategy(p) = [canary |-> b]
  BY DEF buildCanaryStrategy
<1>2. /\ DOMAIN computed = {"steps", "trafficRouting"} /\ computed["steps"] = raw
      /\ computed["trafficRouting"] = routing
  OBVIOUS
<1> HIDE DEF raw, routing, computed
<1>3. nonempty = {x \in {"steps"} : DOMAIN raw # {}}
                 \cup {x \in {"trafficRouting"} : DOMAIN routing # {}}
  BY <1>2
<1>4. /\ DOMAIN made = nonempty
      /\ "steps" \in DOMAIN made => made["steps"] = raw
      /\ "trafficRouting" \in DOMAIN made => made["trafficRouting"] = routing
  BY <1>2 DEF Pick
<1>5. /\ DOMAIN kept = DOMAIN p \cap (CanaryFields \ (Zeros(p) \cup {"trafficRouting"}))
      /\ \A x \in DOMAIN kept : kept[x] = p[x]
  BY DEF Pick
<1>6. "steps" \notin DOMAIN kept /\ "trafficRouting" \notin DOMAIN kept
  BY <1>5 DEF CanaryFields
<1> HIDE DEF nonempty, kept, made
<1>7. /\ IsFunction(b) /\ DOMAIN b = DOMAIN kept \cup DOMAIN made
      /\ \A x \in DOMAIN made : b[x] = made[x]
      /\ \A x \in DOMAIN kept \ DOMAIN made : b[x] = kept[x]
  BY OverrideIs
<1> HIDE DEF b
<1>8. DOMAIN b = (DOMAIN p \cap (CanaryFields \ (Zeros(p) \cup {"trafficRouting"})))
                 \cup {x \in {"steps"} : DOMAIN raw # {}}
                 \cup {x \in {"trafficRouting"} : DOMAIN routing # {}}
  BY <1>3, <1>4, <1>5, <1>7
<1>9. /\ "steps" \in DOMAIN b => b["steps"] = raw
      /\ "trafficRouting" \in DOMAIN b => b["trafficRouting"] = routing
  BY <1>4, <1>6, <1>7
<1>10. \A x \in DOMAIN b \ {"steps", "trafficRouting"} : b[x] = p[x]
  BY <1>3, <1>4, <1>5, <1>7
<1> QED
  BY <1>1, <1>7, <1>8, <1>9, <1>10 DEF raw, routing

(* A canary that the form can say comes back as it was.                    *)
LEMMA CanaryComesBack ==
    ASSUME NEW c, DocCanary(c), SayableCanary(c)
    PROVE  buildCanaryStrategy(FormCanary(c)) = [canary |-> c]
<1> DEFINE p == FormCanary(c)
           steps == Given(c, "steps", <<>>)
           raw == RawSteps(Given(p, "steps", <<>>))
           routing == Routing(Given(p, "trafficRouting", Nothing))
<1>1. PICK b :
        /\ buildCanaryStrategy(p) = [canary |-> b] /\ IsFunction(b)
        /\ DOMAIN b = (DOMAIN p \cap (CanaryFields \ (Zeros(p) \cup {"trafficRouting"})))
                      \cup {x \in {"steps"} : DOMAIN raw # {}}
                      \cup {x \in {"trafficRouting"} : DOMAIN routing # {}}
        /\ "steps" \in DOMAIN b => b["steps"] = raw
        /\ "trafficRouting" \in DOMAIN b => b["trafficRouting"] = routing
        /\ \A x \in DOMAIN b \ {"steps", "trafficRouting"} : b[x] = p[x]
  BY BuiltCanaryIs
<1>2. /\ DOMAIN p = (DOMAIN c \cap CanaryFields) \cup {"steps"}
      /\ p["steps"] = FormSteps(Spelled(steps))
      /\ \A x \in DOMAIN c \cap CanaryFields : p[x] = c[x]
  BY FormCanaryIs
<1>3. {"maxSurge", "maxUnavailable", "trafficRouting"} \subseteq CanaryFields
      /\ "steps" \notin CanaryFields
  BY DEF CanaryFields
<1>4. DOMAIN c \subseteq CanaryFields \cup {"steps"} /\ Zeros(c) = {} /\ IsFunction(c)
  BY DEF DocCanary, SayableCanary
<1> HIDE DEF p
<1>5. Zeros(p) = {}
  BY <1>2, <1>3, <1>4 DEF Zeros
<1>6. /\ raw = steps
      /\ "steps" \in DOMAIN c => steps = c["steps"] /\ DOMAIN steps # {}
      /\ "steps" \notin DOMAIN c => DOMAIN steps = {}
  <2>1. raw = RawSteps(FormSteps(Spelled(steps)))
    BY <1>2 DEF Given
  <2>2. CASE "steps" \in DOMAIN c
    <3>1. steps = c["steps"] /\ IsList(steps) /\ steps # <<>>
          /\ \A i \in DOMAIN steps :
                /\ IsFunction(steps[i]) /\ IsSpelled(steps[i])
                /\ \E part \in StepParts : DOMAIN steps[i] = {part}
      BY <2>2 DEF DocCanary, SayableCanary, Given
    <3> HIDE DEF steps
    <3>2. RawSteps(FormSteps(Spelled(steps))) = steps
      BY <3>1, SpelledIs, StepsComeBack
    <3>3. DOMAIN steps # {}
      <4>1. Len(steps) \in Nat /\ DOMAIN steps = 1..Len(steps)
        BY <3>1, ListIsSeq DEF IsList
      <4>2. Len(steps) # 0
        <5>1. steps \in Seq({steps[i] : i \in DOMAIN steps})
          BY <3>1, ListIsSeq
        <5> QED
          BY <5>1, <3>1
      <4> QED
        BY <4>1, <4>2
    <3> QED
      BY <2>1, <2>2, <3>1, <3>2, <3>3
  <2>3. CASE "steps" \notin DOMAIN c
    <3>1. steps = <<>>
      BY <2>3 DEF Given
    <3>2. Spelled(<<>>) = <<>>
      BY NoSteps, SpelledIs
    <3> QED
      BY <2>1, <2>3, <3>1, <3>2, NoSteps
  <2> QED
    BY <2>2, <2>3
<1>7. /\ "trafficRouting" \in DOMAIN c => routing = c["trafficRouting"] /\ DOMAIN routing # {}
      /\ "trafficRouting" \notin DOMAIN c => DOMAIN routing = {}
  <2>1. CASE "trafficRouting" \in DOMAIN c
    <3>1. Given(p, "trafficRouting", Nothing) = c["trafficRouting"]
      BY <1>2, <1>3, <2>1 DEF Given
    <3> DEFINE r == c["trafficRouting"]
    <3>2. IsFunction(r) /\ ("nginx" \in DOMAIN r => IsFunction(r["nginx"])) /\ SayableRouting(r)
      BY <2>1 DEF DocCanary, HasSettings, SayableCanary
    <3>3. r # Nothing
      BY <3>2 DEF SayableRouting
    <3> HIDE DEF r
    <3>4. Routing(r) = r /\ DOMAIN r # {}
      BY <3>2, <3>3, RoutingComesBack, NothingIs
    <3> QED
      BY <2>1, <3>1, <3>4 DEF r
  <2>2. CASE "trafficRouting" \notin DOMAIN c
    <3>1. "trafficRouting" \notin DOMAIN p
      BY <1>2, <1>3, <2>2
    <3>2. routing = Routing(Nothing)
      BY <3>1 DEF Given
    <3>3. DOMAIN Routing(Nothing) = {}
      BY NothingIs DEF Routing
    <3> QED
      BY <2>2, <3>2, <3>3
  <2> QED
    BY <2>1, <2>2
<1> HIDE DEF raw, routing, steps
<1>8. DOMAIN b = DOMAIN c
  BY <1>1, <1>2, <1>3, <1>4, <1>5, <1>6, <1>7
<1>9. \A x \in DOMAIN b : b[x] = c[x]
  <2>1. CASE "steps" \in DOMAIN b
    BY <2>1, <1>1, <1>2, <1>3, <1>4, <1>6, <1>7, <1>8
  <2>2. CASE "steps" \notin DOMAIN b
    BY <2>2, <1>1, <1>2, <1>3, <1>4, <1>6, <1>7, <1>8
  <2> QED
    BY <2>1, <2>2
<1>10. b = c
  BY <1>1, <1>4, <1>8, <1>9, SameFunction
<1> QED
  BY <1>1, <1>10 DEF p

(* The strategy of a Deployment comes back.                                *)
LEMMA StrategyComesBack ==
    ASSUME NEW s, IsFunction(s), SayableStrategy("Deployment", s)
    PROVE  BuildStrategy(s) = s
<1>1. /\ DOMAIN s \subseteq {"type", "rollingUpdate"}
      /\ "rollingUpdate" \in DOMAIN s => Given(s, "type", "") = "RollingUpdate"
  BY DEF SayableStrategy
<1>2. CASE Given(s, "type", "") = "RollingUpdate"
  BY <1>1, <1>2, PickAll DEF BuildStrategy
<1>3. CASE Given(s, "type", "") # "RollingUpdate"
  BY <1>1, <1>3, PickAll DEF BuildStrategy
<1> QED
  BY <1>2, <1>3

(* So does the one of a Rollout.                                           *)
LEMMA RolloutStrategyComesBack ==
    ASSUME NEW s, DocStrategy(s), SayableStrategy("Rollout", s),
           NEW f, "rolloutStrategy" \in DOMAIN f,
           f["rolloutStrategy"] = RolloutStrategy(s)
    PROVE  /\ DOMAIN s \cap {"canary", "blueGreen"} # {}
           /\ buildRolloutStrategy(f) = s
<1> DEFINE q == RolloutStrategy(s)
<1>0. /\ IsFunction(s)
      /\ \/ DOMAIN s = {"canary"} /\ SayableCanary(s["canary"])
         \/ /\ DOMAIN s = {"blueGreen"}
            /\ "activeService" \in DOMAIN s["blueGreen"]
            /\ DOMAIN s["blueGreen"] \subseteq BlueGreenFields
  BY DEF SayableStrategy, DocStrategy
<1>1. CASE DOMAIN s = {"canary"} /\ SayableCanary(s["canary"])
  <2>1. q = [type |-> "Canary", canary |-> FormCanary(s["canary"])]
    BY <1>1 DEF RolloutStrategy, FormCanary
  <2>2. Given(q, "type", "") = "Canary" /\ "canary" \in DOMAIN q
        /\ q["canary"] = FormCanary(s["canary"])
    BY <2>1 DEF Given
  <2> HIDE DEF q
  <2>3. buildRolloutStrategy(f) = buildCanaryStrategy(FormCanary(s["canary"]))
    BY <2>2 DEF buildRolloutStrategy, q
  <2>4. DocCanary(s["canary"])
    BY <1>1 DEF DocStrategy
  <2>5. buildRolloutStrategy(f) = [canary |-> s["canary"]]
    BY <1>1, <2>3, <2>4, CanaryComesBack
  <2>6. s = [x \in {"canary"} |-> s[x]]
    BY <1>0, <1>1 DEF IsFunction
  <2>7. s = [canary |-> s["canary"]]
    BY <2>6
  <2> QED
    BY <1>1, <2>5, <2>7
<1>2. CASE DOMAIN s = {"blueGreen"} /\ "activeService" \in DOMAIN s["blueGreen"]
           /\ DOMAIN s["blueGreen"] \subseteq BlueGreenFields
  <2> DEFINE g == s["blueGreen"]
  <2>0. IsFunction(g)
    BY <1>2 DEF DocStrategy
  <2>1. Pick(g, BlueGreenFields) = g
    BY <1>2, <2>0, PickAll
  <2>2. q = [type |-> "BlueGreen", blueGreen |-> g]
    BY <1>2, <2>1 DEF RolloutStrategy
  <2>3. Given(q, "type", "") = "BlueGreen" /\ "blueGreen" \in DOMAIN q /\ q["blueGreen"] = g
    BY <2>2 DEF Given
  <2> HIDE DEF q
  <2>4. buildRolloutStrategy(f) = buildBlueGreenStrategy(g)
    BY <2>3 DEF buildRolloutStrategy, q
  <2>5. buildBlueGreenStrategy(g) = [blueGreen |-> g]
    BY <1>2, <2>1 DEF buildBlueGreenStrategy
  <2>6. s = [x \in {"blueGreen"} |-> s[x]]
    BY <1>0, <1>2 DEF IsFunction
  <2>7. s = [blueGreen |-> s["blueGreen"]]
    BY <2>6
  <2> QED
    BY <1>2, <2>4, <2>5, <2>7
<1> QED
  BY <1>0, <1>1, <1>2

-----------------------------------------------------------------------------
(* The text of a store, and the form that was read from a text.            *)

(* The text that the page writes from a store, field by field.             *)
Text(kind, f) == formDataToYAML(kind, Pick(f, Copied))
WrittenAs(x, value) ==
    CASE x \in {"containers", "initContainers"} ->
            [i \in DOMAIN value |-> buildContainerSpec(value[i])]
      [] x = "volumes" -> [i \in DOMAIN value |-> buildVolumeSpec(value[i])]
      [] x = "tolerations" -> [i \in DOMAIN value |-> BuildToleration(value[i])]
      [] x = "dnsConfig" -> BuildDns(value)
      [] OTHER -> value
WrittenRules(f) == buildScheduling(Given(f, "scheduling", Nothing))

(* The Pod of a text.                                                      *)
LEMMA TextPod ==
    ASSUME NEW kind, NEW f
    PROVE  LET pod == Text(kind, f).pod
           IN /\ IsFunction(pod)
              /\ DOMAIN pod = (DOMAIN f \cap PodFields)
                              \cup {x \in {"affinity"} : WrittenRules(f) # Nothing}
                              \cup {x \in {"restartPolicy"} : kind \in Jobs}
              /\ \A x \in DOMAIN f \cap PodFields : pod[x] = WrittenAs(x, f[x])
              /\ "affinity" \in DOMAIN pod => pod["affinity"] = WrittenRules(f)
              /\ "restartPolicy" \in DOMAIN pod => pod["restartPolicy"] = "Never"
<1> DEFINE copy == Pick(f, Copied)
           affinity == buildScheduling(Given(copy, "scheduling", Nothing))
           names == {"containers", "initContainers", "volumes",
                     "tolerations", "dnsConfig"} \cup PlainPodFields
           plain == [y \in DOMAIN Pick(copy, names) |->
                        CASE y \in {"containers", "initContainers"} ->
                                [i \in DOMAIN copy[y] |-> buildContainerSpec(copy[y][i])]
                          [] y = "volumes" ->
                                [i \in DOMAIN copy[y] |-> buildVolumeSpec(copy[y][i])]
                          [] y = "tolerations" ->
                                [i \in DOMAIN copy[y] |-> BuildToleration(copy[y][i])]
                          [] y = "dnsConfig" -> BuildDns(copy[y])
                          [] OTHER -> copy[y]]
           last == [y \in {g \in {"affinity", "restartPolicy"} :
                                IF g = "affinity" THEN affinity # Nothing
                                ELSE kind \in Jobs} |->
                         IF y = "affinity" THEN affinity ELSE "Never"]
           pod == Override(plain, last)
<1>1. Text(kind, f).pod = pod
  BY DEF Text, formDataToYAML, BuildPod
<1>2. affinity = WrittenRules(f)
  BY CopiedFields DEF WrittenRules, Copied, CommonFields
<1>3. names \cap Copied = PodFields /\ PodFields \cap {"affinity", "restartPolicy"} = {}
  BY DEF PodFields, Copied, CommonFields, PlainPodFields, Times
<1>4. DOMAIN plain = DOMAIN f \cap PodFields
  BY <1>3 DEF Pick
<1>5. \A x \in DOMAIN plain : plain[x] = WrittenAs(x, f[x])
  <2> SUFFICES ASSUME NEW x \in DOMAIN plain PROVE plain[x] = WrittenAs(x, f[x])
    OBVIOUS
  <2>1. copy[x] = f[x]
    BY <1>3, <1>4 DEF Pick
  <2> HIDE DEF copy
  <2> QED
    BY <2>1 DEF WrittenAs
<1>6. /\ DOMAIN last = {x \in {"affinity"} : affinity # Nothing}
                       \cup {x \in {"restartPolicy"} : kind \in Jobs}
      /\ "affinity" \in DOMAIN last => last["affinity"] = affinity
      /\ "restartPolicy" \in DOMAIN last => last["restartPolicy"] = "Never"
  <2> HIDE DEF affinity
  <2> QED
    OBVIOUS
<1> HIDE DEF plain, last, affinity, names
<1>7. /\ IsFunction(pod) /\ DOMAIN pod = DOMAIN plain \cup DOMAIN last
      /\ \A x \in DOMAIN last : pod[x] = last[x]
      /\ \A x \in DOMAIN plain \ DOMAIN last : pod[x] = plain[x]
  BY OverrideIs
<1> HIDE DEF pod
<1>8. DOMAIN plain \cap DOMAIN last = {}
  BY <1>3, <1>4, <1>6
<1>9. \A x \in DOMAIN f \cap PodFields : pod[x] = WrittenAs(x, f[x])
  BY <1>4, <1>5, <1>7, <1>8
<1>10. DOMAIN pod = (DOMAIN f \cap PodFields)
                    \cup {x \in {"affinity"} : WrittenRules(f) # Nothing}
                    \cup {x \in {"restartPolicy"} : kind \in Jobs}
  BY <1>2, <1>4, <1>6, <1>7
<1>11. /\ "affinity" \in DOMAIN pod => pod["affinity"] = WrittenRules(f)
       /\ "restartPolicy" \in DOMAIN pod => pod["restartPolicy"] = "Never"
  BY <1>2, <1>3, <1>4, <1>6, <1>7
<1> QED
  BY <1>1, <1>7, <1>9, <1>10, <1>11

(* What a text has besides its spec and its Pod.                           *)
LEMMA TextMeta ==
    ASSUME NEW kind, NEW f
    PROVE  Text(kind, f) =
             [kind |-> kind, name |-> GivenText(f, "name", "example"),
              labels |-> BuildLabels(f),
              annotations |-> Override(Kept(Pick(f, {"description"})),
                                       Kept(Given(f, "annotations", Nothing))),
              selector |-> IF kind \in Jobs THEN Nothing ELSE BuildLabels(f),
              templateLabels |-> BuildLabels(f), templateAnnotations |-> Nothing,
              spec |-> Text(kind, f).spec, pod |-> Text(kind, f).pod]
<1> DEFINE copy == Pick(f, Copied)
<1>1. {"name", "labels", "annotations", "description"} \subseteq Copied
  BY DEF Copied, CommonFields
<1>2. \A x \in {"name", "labels", "annotations"} : \A default :
          Given(copy, x, default) = Given(f, x, default)
          /\ GivenText(copy, x, default) = GivenText(f, x, default)
  BY <1>1, CopiedFields DEF GivenText, Given
<1>3. Pick(copy, {"description"}) = Pick(f, {"description"})
  <2>1. DOMAIN copy \cap {"description"} = DOMAIN f \cap {"description"}
        /\ \A x \in DOMAIN copy \cap {"description"} : copy[x] = f[x]
    BY <1>1 DEF Pick
  <2> HIDE DEF copy
  <2> QED
    BY <2>1 DEF Pick
<1> HIDE DEF copy
<1>4. BuildLabels(copy) = BuildLabels(f)
  BY <1>2 DEF BuildLabels
<1>5. BuildAnnotations(copy) = Override(Kept(Pick(f, {"description"})),
                                        Kept(Given(f, "annotations", Nothing)))
  BY <1>2, <1>3 DEF BuildAnnotations
<1>6. formDataToYAML(kind, copy) = Text(kind, f)
  BY DEF Text, copy
<1> QED
  BY <1>2, <1>4, <1>5, <1>6 DEF formDataToYAML

(* The spec of a text is the one of its kind, from what is copied.         *)
LEMMA TextSpecIs == ASSUME NEW kind, NEW f
                    PROVE  Text(kind, f).spec = BuildSpec(kind, Pick(f, Copied))
BY DEF Text, formDataToYAML

(* The spec of a text, kind by kind: a Deployment's,                       *)
LEMMA DeploymentText ==
    ASSUME NEW f
    PROVE  LET spec == Text("Deployment", f).spec
           IN /\ IsFunction(spec)
              /\ DOMAIN spec = {"replicas"} \cup (DOMAIN f \cap (Times \cup {"strategy"}))
              /\ spec["replicas"] = Given(f, "replicas", 1)
              /\ "strategy" \in DOMAIN spec => spec["strategy"] = BuildStrategy(f["strategy"])
              /\ \A x \in DOMAIN f \cap Times : spec[x] = f[x]
<1> DEFINE copy == Pick(f, Copied)
           made == [x \in {"replicas"} \cup ({"strategy"} \cap DOMAIN copy) |->
                       IF x = "replicas" THEN Given(copy, "replicas", 1)
                       ELSE BuildStrategy(copy["strategy"])]
           times == Pick(copy, Times)
           spec == Override(times, made)
<1>1. Text("Deployment", f).spec = spec
  BY TextSpecIs DEF BuildSpec, buildDeploymentSpec
<1>2. Times \cup {"replicas", "strategy"} \subseteq Copied
      /\ Times \cap {"replicas", "strategy"} = {}
  BY DEF Copied, Times
<1>3. DOMAIN times = DOMAIN f \cap Times /\ \A x \in DOMAIN times : times[x] = f[x]
  BY <1>2 DEF Pick
<1>4. Given(copy, "replicas", 1) = Given(f, "replicas", 1)
      /\ ("strategy" \in DOMAIN copy <=> "strategy" \in DOMAIN f)
      /\ ("strategy" \in DOMAIN copy => copy["strategy"] = f["strategy"])
  BY <1>2, CopiedFields
<1> HIDE DEF copy
<1>5. /\ DOMAIN made = {"replicas"} \cup ({"strategy"} \cap DOMAIN f)
      /\ made["replicas"] = Given(f, "replicas", 1)
      /\ "strategy" \in DOMAIN made => made["strategy"] = BuildStrategy(f["strategy"])
  BY <1>4
<1> HIDE DEF made, times
<1>6. /\ IsFunction(spec) /\ DOMAIN spec = DOMAIN times \cup DOMAIN made
      /\ \A x \in DOMAIN made : spec[x] = made[x]
      /\ \A x \in DOMAIN times \ DOMAIN made : spec[x] = times[x]
  BY OverrideIs
<1> HIDE DEF spec
<1> QED
  BY <1>1, <1>2, <1>3, <1>5, <1>6

(* a Rollout's,                                                            *)
LEMMA RolloutText ==
    ASSUME NEW f
    PROVE  LET spec == Text("Rollout", f).spec
           IN /\ IsFunction(spec)
              /\ DOMAIN spec = {"replicas", "strategy"} \cup (DOMAIN f \cap Times)
              /\ spec["replicas"] = Given(f, "replicas", 1)
              /\ spec["strategy"] = buildRolloutStrategy(Pick(f, Copied))
              /\ \A x \in DOMAIN f \cap Times : spec[x] = f[x]
<1> DEFINE copy == Pick(f, Copied)
           strategy == buildRolloutStrategy(copy)
           made == [replicas |-> Given(copy, "replicas", 1), strategy |-> strategy]
           times == Pick(copy, Times)
           spec == Override(times, made)
<1>1. Text("Rollout", f).spec = spec
  BY TextSpecIs DEF BuildSpec, buildRolloutSpec
<1>2. Times \cup {"replicas"} \subseteq Copied
      /\ Times \cap {"replicas", "strategy"} = {}
  BY DEF Copied, Times
<1>3. DOMAIN times = DOMAIN f \cap Times /\ \A x \in DOMAIN times : times[x] = f[x]
  BY <1>2 DEF Pick
<1>4. Given(copy, "replicas", 1) = Given(f, "replicas", 1)
  BY <1>2, CopiedFields
<1> HIDE DEF strategy, copy
<1>5. /\ DOMAIN made = {"replicas", "strategy"}
      /\ made["replicas"] = Given(f, "replicas", 1) /\ made["strategy"] = strategy
  BY <1>4
<1> HIDE DEF made, times
<1>6. /\ IsFunction(spec) /\ DOMAIN spec = DOMAIN times \cup DOMAIN made
      /\ \A x \in DOMAIN made : spec[x] = made[x]
      /\ \A x \in DOMAIN times \ DOMAIN made : spec[x] = times[x]
  BY OverrideIs
<1> HIDE DEF spec
<1> QED
  BY <1>1, <1>2, <1>3, <1>5, <1>6 DEF strategy, copy

(* a StatefulSet's,                                                        *)
LEMMA StatefulSetText ==
    ASSUME NEW f
    PROVE  LET spec == Text("StatefulSet", f).spec
           IN /\ IsFunction(spec) /\ DOMAIN spec = {"replicas", "serviceName"}
              /\ spec["replicas"] = Given(f, "replicas", 1)
              /\ spec["serviceName"] = GivenText(f, "serviceName", Given(f, "name", ""))
<1> DEFINE copy == Pick(f, Copied)
           made == [replicas |-> Given(copy, "replicas", 1),
                    serviceName |-> GivenText(copy, "serviceName", Given(copy, "name", ""))]
           policy == Pick(copy, {"podManagementPolicy"})
           spec == Override(policy, made)
<1>1. Text("StatefulSet", f).spec = spec
  BY TextSpecIs DEF BuildSpec, buildStatefulSetSpec
<1>2. {"replicas", "serviceName", "name"} \subseteq Copied /\ "podManagementPolicy" \notin Copied
  BY DEF Copied, CommonFields, PodFields, PlainPodFields, Times
<1>3. DOMAIN policy = {}
  BY <1>2 DEF Pick
<1>4. Given(copy, "replicas", 1) = Given(f, "replicas", 1)
      /\ Given(copy, "name", "") = Given(f, "name", "")
      /\ \A d : GivenText(copy, "serviceName", d) = GivenText(f, "serviceName", d)
  BY <1>2, CopiedFields DEF GivenText, Given
<1> HIDE DEF copy
<1>5. /\ DOMAIN made = {"replicas", "serviceName"}
      /\ made["replicas"] = Given(f, "replicas", 1)
      /\ made["serviceName"] = GivenText(f, "serviceName", Given(f, "name", ""))
  BY <1>4
<1> HIDE DEF made, policy
<1>6. /\ IsFunction(spec) /\ DOMAIN spec = DOMAIN policy \cup DOMAIN made
      /\ \A x \in DOMAIN made : spec[x] = made[x]
  BY OverrideIs
<1> HIDE DEF spec
<1> QED
  BY <1>1, <1>3, <1>5, <1>6

(* a Job's,                                                                *)
LEMMA JobText ==
    ASSUME NEW f
    PROVE  LET spec == Text("Job", f).spec
           IN /\ IsFunction(spec)
              /\ DOMAIN spec = DOMAIN f \cap (parseJobFields \ {"ttlSecondsAfterFinished"})
              /\ \A x \in DOMAIN spec : spec[x] = f[x]
<1> DEFINE copy == Pick(f, Copied)
           spec == Pick(copy, parseJobFields)
<1>1. Text("Job", f).spec = spec
  BY TextSpecIs DEF BuildSpec, buildJobSpec, Jobs
<1>2. parseJobFields \cap Copied = parseJobFields \ {"ttlSecondsAfterFinished"}
  BY DEF Copied, CommonFields, PodFields, PlainPodFields, Times, parseJobFields
<1>3. DOMAIN copy = DOMAIN f \cap Copied /\ \A x \in DOMAIN copy : copy[x] = f[x]
  BY DEF Pick
<1> HIDE DEF copy
<1>4. IsFunction(spec) /\ DOMAIN spec = DOMAIN copy \cap parseJobFields
      /\ \A x \in DOMAIN spec : spec[x] = copy[x]
  BY PickIsFunction
<1> HIDE DEF spec
<1> QED
  BY <1>1, <1>2, <1>3, <1>4

(* a CronJob's,                                                            *)
LEMMA CronJobText ==
    ASSUME NEW f
    PROVE  LET spec == Text("CronJob", f).spec
           IN /\ IsFunction(spec)
              /\ DOMAIN spec = {"schedule"}
                               \cup (DOMAIN f \cap {"suspend", "concurrencyPolicy"})
              /\ spec["schedule"] = GivenText(f, "schedule", "0 0 * * *")
              /\ \A x \in DOMAIN f \cap {"suspend", "concurrencyPolicy"} : spec[x] = f[x]
<1> DEFINE copy == Pick(f, Copied)
           made == [schedule |-> GivenText(copy, "schedule", "0 0 * * *")]
           plain == Pick(copy, parseCronJobFields)
           spec == Override(plain, made)
<1>1. Text("CronJob", f).spec = spec
  BY TextSpecIs DEF BuildSpec, buildCronJobSpec
<1>2. parseCronJobFields \cap Copied = {"schedule", "suspend", "concurrencyPolicy"}
      /\ "schedule" \in Copied
  BY DEF Copied, CommonFields, PodFields, PlainPodFields, Times, parseCronJobFields
<1>3. DOMAIN plain = DOMAIN f \cap {"schedule", "suspend", "concurrencyPolicy"}
      /\ \A x \in DOMAIN plain : plain[x] = f[x]
  BY <1>2 DEF Pick
<1>4. GivenText(copy, "schedule", "0 0 * * *") = GivenText(f, "schedule", "0 0 * * *")
  BY <1>2, CopiedFields DEF GivenText, Given
<1> HIDE DEF copy
<1>5. /\ DOMAIN made = {"schedule"}
      /\ made["schedule"] = GivenText(f, "schedule", "0 0 * * *")
  BY <1>4
<1> HIDE DEF made, plain
<1>6. /\ IsFunction(spec) /\ DOMAIN spec = DOMAIN plain \cup DOMAIN made
      /\ \A x \in DOMAIN made : spec[x] = made[x]
      /\ \A x \in DOMAIN plain \ DOMAIN made : spec[x] = plain[x]
  BY OverrideIs
<1> HIDE DEF spec
<1>7. "suspend" # "schedule" /\ "concurrencyPolicy" # "schedule"
  OBVIOUS
<1> QED
  BY <1>1, <1>3, <1>5, <1>6, <1>7

(* and none for a DaemonSet.                                               *)
LEMMA DaemonSetText == ASSUME NEW f PROVE Text("DaemonSet", f).spec = Nothing
BY TextSpecIs DEF BuildSpec

(* What the form holds after a text was read, field by field.              *)
ReadAs(x, value) ==
    CASE x = "containers" ->
            [i \in DOMAIN value |-> ParseContainer(value[i], ContainerFields)]
      [] x = "initContainers" ->
            [i \in DOMAIN value |-> ParseContainer(value[i], InitContainerFields)]
      [] x = "volumes" -> [i \in DOMAIN value |-> ParseVolume(value[i])]
      [] x = "tolerations" -> [i \in DOMAIN value |-> ParseToleration(value[i])]
      [] x = "dnsConfig" -> ParseDns(value)
      [] OTHER -> value
ReadRules(doc) == parseAffinityToScheduling(Given(doc.pod, "affinity", Nothing))
ReadSpec(doc) ==
    IF IsRollout(doc)
    THEN Override(Pick(doc.spec, {"replicas"} \cup Times),
                  [f \in {g \in {"rolloutStrategy"} : HasStrategy(doc)} |->
                      RolloutStrategy(doc.spec["strategy"])])
    ELSE Pick(doc.spec, ResourceFields(doc))

(* The fields of the kinds are none of the common fields.                  *)
LEMMA ResourceFieldsApart ==
    ASSUME NEW doc
    PROVE  ResourceFields(doc) \cap CommonFields = {}
<1> DEFINE all == parseDeploymentFields \cup parseRolloutFields \cup parseStatefulSetFields
                     \cup parseJobFields \cup parseCronJobFields
<1>1. ResourceFields(doc) \subseteq all
  BY DEF ResourceFields
<1>2. all \cap CommonFields = {}
  BY DEF parseDeploymentFields, parseRolloutFields, parseStatefulSetFields,
         parseJobFields, parseCronJobFields, CommonFields, PodFields, PlainPodFields, Times
<1> QED
  BY <1>1, <1>2

(* The spec that is read.                                                  *)
LEMMA ReadSpecIs ==
    ASSUME NEW doc
    PROVE  /\ DOMAIN ReadSpec(doc) =
                IF IsRollout(doc)
                THEN (DOMAIN doc.spec \cap ({"replicas"} \cup Times))
                     \cup {g \in {"rolloutStrategy"} : HasStrategy(doc)}
                ELSE DOMAIN doc.spec \cap ResourceFields(doc)
           /\ \A x \in DOMAIN ReadSpec(doc) : x # "rolloutStrategy" => ReadSpec(doc)[x] = doc.spec[x]
           /\ IsRollout(doc) /\ HasStrategy(doc) =>
                ReadSpec(doc)["rolloutStrategy"] = RolloutStrategy(doc.spec["strategy"])
           /\ DOMAIN ReadSpec(doc) \subseteq ResourceFields(doc)
<1> DEFINE plain == Pick(doc.spec, {"replicas"} \cup Times)
           made == [f \in {g \in {"rolloutStrategy"} : HasStrategy(doc)} |->
                       RolloutStrategy(doc.spec["strategy"])]
           o == Override(plain, made)
<1>1. CASE IsRollout(doc)
  <2>1. ReadSpec(doc) = o
    BY <1>1 DEF ReadSpec
  <2>2. DOMAIN plain = DOMAIN doc.spec \cap ({"replicas"} \cup Times)
        /\ \A x \in DOMAIN plain : plain[x] = doc.spec[x]
    BY DEF Pick
  <2>3. DOMAIN made = {g \in {"rolloutStrategy"} : HasStrategy(doc)}
        /\ \A x \in DOMAIN made : made[x] = RolloutStrategy(doc.spec["strategy"])
    OBVIOUS
  <2>4. "rolloutStrategy" \notin DOMAIN plain
    BY <2>2 DEF Times
  <2>5. ResourceFields(doc) = {"replicas", "rolloutStrategy"} \cup Times
    BY <1>1 DEF ResourceFields, parseRolloutFields
  <2> HIDE DEF plain, made
  <2>6. /\ DOMAIN o = DOMAIN plain \cup DOMAIN made
        /\ \A x \in DOMAIN made : o[x] = made[x]
        /\ \A x \in DOMAIN plain \ DOMAIN made : o[x] = plain[x]
    BY OverrideIs
  <2> HIDE DEF o
  <2>7. DOMAIN ReadSpec(doc) = (DOMAIN doc.spec \cap ({"replicas"} \cup Times))
                     \cup {g \in {"rolloutStrategy"} : HasStrategy(doc)}
    BY <2>1, <2>2, <2>3, <2>6
  <2>8. \A x \in DOMAIN ReadSpec(doc) : x # "rolloutStrategy" => ReadSpec(doc)[x] = doc.spec[x]
    BY <2>1, <2>2, <2>3, <2>6
  <2>9. HasStrategy(doc) =>
                ReadSpec(doc)["rolloutStrategy"] = RolloutStrategy(doc.spec["strategy"])
    BY <2>1, <2>3, <2>6
  <2>10. DOMAIN ReadSpec(doc) \subseteq ResourceFields(doc)
    BY <2>5, <2>7
  <2> QED
    BY <1>1, <2>7, <2>8, <2>9, <2>10
<1>2. CASE ~IsRollout(doc)
  BY <1>2 DEF ReadSpec, Pick
<1> QED
  BY <1>1, <1>2

(* The whole form.                                                         *)
LEMMA ParsedForm ==
    ASSUME NEW doc
    PROVE  LET F == yamlToFormData(doc)
           IN /\ DOMAIN F = {"name", "labels", "annotations"}
                            \cup ({"description"} \cap DOMAIN doc.annotations)
                            \cup (DOMAIN doc.pod \cap PodFields)
                            \cup {g \in {"scheduling"} : ReadRules(doc) # Nothing}
                            \cup DOMAIN ReadSpec(doc)
              /\ F["name"] = doc.name /\ F["labels"] = doc.labels
              /\ F["annotations"] = doc.annotations
              /\ "description" \in DOMAIN doc.annotations =>
                    F["description"] = doc.annotations["description"]
              /\ \A x \in DOMAIN doc.pod \cap PodFields : F[x] = ReadAs(x, doc.pod[x])
              /\ "scheduling" \in DOMAIN F => F["scheduling"] = ReadRules(doc)
              /\ \A x \in DOMAIN ReadSpec(doc) : F[x] = ReadSpec(doc)[x]
<1> DEFINE F == yamlToFormData(doc)
           meta == [name |-> doc.name, labels |-> doc.labels, annotations |-> doc.annotations]
           read == ReadPod(doc.pod)
           rules == [f \in {g \in {"scheduling"} : ReadRules(doc) # Nothing} |-> ReadRules(doc)]
           pod == Override(read, rules)
           described == [f \in {"description"} \cap DOMAIN doc.annotations |->
                            doc.annotations[f]]
           both == Override(meta, pod)
           common == Override(both, described)
           spec == ReadSpec(doc)
<1>1. F = Override(common, spec)
  BY DEF yamlToFormData, parseCommonFields, ParsePod, ReadSpec, ReadRules
<1>2. /\ DOMAIN meta = {"name", "labels", "annotations"} /\ meta["name"] = doc.name
      /\ meta["labels"] = doc.labels /\ meta["annotations"] = doc.annotations
  OBVIOUS
<1>3. DOMAIN read = DOMAIN doc.pod \cap PodFields
      /\ \A x \in DOMAIN read : read[x] = ReadAs(x, doc.pod[x])
  BY DEF ReadPod, ReadAs
<1>4. DOMAIN rules = {g \in {"scheduling"} : ReadRules(doc) # Nothing}
      /\ \A x \in DOMAIN rules : rules[x] = ReadRules(doc)
  OBVIOUS
<1>5. DOMAIN described = {"description"} \cap DOMAIN doc.annotations
      /\ \A x \in DOMAIN described : described[x] = doc.annotations[x]
  OBVIOUS
<1>6. DOMAIN spec \cap CommonFields = {}
  BY ReadSpecIs, ResourceFieldsApart
<1>7. /\ PodFields \subseteq CommonFields
      /\ {"name", "labels", "annotations", "description", "scheduling"} \subseteq CommonFields
      /\ PodFields \cap {"name", "labels", "annotations", "description", "scheduling"} = {}
  BY DEF CommonFields, PodFields, PlainPodFields
<1> HIDE DEF meta, read, rules, described, spec, F
<1>8. /\ DOMAIN pod = DOMAIN read \cup DOMAIN rules
      /\ \A x \in DOMAIN rules : pod[x] = rules[x]
      /\ \A x \in DOMAIN read \ DOMAIN rules : pod[x] = read[x]
  BY OverrideIs
<1> HIDE DEF pod
<1>9. /\ DOMAIN both = DOMAIN meta \cup DOMAIN pod
      /\ \A x \in DOMAIN pod : both[x] = pod[x]
      /\ \A x \in DOMAIN meta \ DOMAIN pod : both[x] = meta[x]
  BY OverrideIs
<1> HIDE DEF both
<1>10. /\ DOMAIN common = DOMAIN both \cup DOMAIN described
       /\ \A x \in DOMAIN described : common[x] = described[x]
       /\ \A x \in DOMAIN both \ DOMAIN described : common[x] = both[x]
  BY OverrideIs
<1> HIDE DEF common
<1> DEFINE o == Override(common, spec)
<1>18. /\ DOMAIN o = DOMAIN common \cup DOMAIN spec
       /\ \A x \in DOMAIN spec : o[x] = spec[x]
       /\ \A x \in DOMAIN common \ DOMAIN spec : o[x] = common[x]
  BY OverrideIs
<1>19. F = o
  BY <1>1
<1> HIDE DEF o
<1>11. /\ DOMAIN F = DOMAIN common \cup DOMAIN spec
       /\ \A x \in DOMAIN spec : F[x] = spec[x]
       /\ \A x \in DOMAIN common \ DOMAIN spec : F[x] = common[x]
  BY <1>18, <1>19
<1>12. DOMAIN common \subseteq CommonFields /\ \A x \in DOMAIN common : F[x] = common[x]
  BY <1>2, <1>3, <1>4, <1>5, <1>6, <1>7, <1>8, <1>9, <1>10, <1>11
<1>13. DOMAIN F = {"name", "labels", "annotations"}
                            \cup ({"description"} \cap DOMAIN doc.annotations)
                            \cup (DOMAIN doc.pod \cap PodFields)
                            \cup {g \in {"scheduling"} : ReadRules(doc) # Nothing}
                            \cup DOMAIN ReadSpec(doc)
  BY <1>2, <1>3, <1>4, <1>5, <1>8, <1>9, <1>10, <1>11 DEF spec
<1>14. /\ F["name"] = doc.name /\ F["labels"] = doc.labels
       /\ F["annotations"] = doc.annotations
  BY <1>2, <1>3, <1>4, <1>5, <1>7, <1>8, <1>9, <1>10, <1>12
<1>15. "description" \in DOMAIN doc.annotations =>
                    F["description"] = doc.annotations["description"]
  BY <1>5, <1>10, <1>12
<1>16. \A x \in DOMAIN doc.pod \cap PodFields : F[x] = ReadAs(x, doc.pod[x])
  BY <1>3, <1>4, <1>5, <1>7, <1>8, <1>9, <1>10, <1>12
<1>17. "scheduling" \in DOMAIN F => F["scheduling"] = ReadRules(doc)
  <2>1. "scheduling" \in DOMAIN F => "scheduling" \in DOMAIN rules
    BY <1>2, <1>3, <1>4, <1>5, <1>6, <1>7, <1>8, <1>9, <1>10, <1>11
  <2> QED
    BY <2>1, <1>4, <1>5, <1>8, <1>9, <1>10, <1>12
<1> QED
  BY <1>11, <1>13, <1>14, <1>15, <1>16, <1>17 DEF F, spec

-----------------------------------------------------------------------------
(* What the form can say comes back.                                       *)

(* A field of the Pod that the form can say comes back as it was.          *)
LEMMA PodFieldComesBack ==
    ASSUME NEW x \in PodFields, NEW v, DocPodField(x, v), SayablePodField(x, v)
    PROVE  WrittenAs(x, ReadAs(x, v)) = v
<1>0. x \in {"containers", "initContainers", "volumes", "tolerations", "dnsConfig"}
        \/ x \in PlainPodFields \ {"nodeSelector"}
  BY DEF PodFields
<1>1. ASSUME x = "containers" \/ x = "initContainers",
             NEW fields, ReadAs(x, v) = [i \in DOMAIN v |-> ParseContainer(v[i], fields)],
             IsList(v), \A i \in DOMAIN v : DocContainer(v[i]) /\ SayableContainer(v[i], fields)
      PROVE  WrittenAs(x, ReadAs(x, v)) = v
  <2> DEFINE r == [i \in DOMAIN v |-> ParseContainer(v[i], fields)]
             t == [i \in DOMAIN r |-> buildContainerSpec(r[i])]
  <2>1. WrittenAs(x, r) = t
    BY <1>1 DEF WrittenAs
  <2>2. \A i \in DOMAIN v : buildContainerSpec(ParseContainer(v[i], fields)) = v[i]
    BY <1>1, ContainerComesBack
  <2>3. t = [i \in DOMAIN v |-> t[i]] /\ \A i \in DOMAIN v : t[i] = v[i]
    BY <2>2
  <2> HIDE DEF t
  <2>4. t = v
    BY <1>1, <2>3, SameList
  <2> QED
    BY <1>1, <2>1, <2>4
<1>2. CASE x = "containers"
  <2>1. IsList(v) /\ \A i \in DOMAIN v : DocContainer(v[i]) /\ SayableContainer(v[i], ContainerFields)
    BY <1>2 DEF DocPodField, SayablePodField
  <2>2. ReadAs(x, v) = [i \in DOMAIN v |-> ParseContainer(v[i], ContainerFields)]
    BY <1>2 DEF ReadAs
  <2> QED
    BY <1>1, <1>2, <2>1, <2>2
<1>3. CASE x = "initContainers"
  <2>1. IsList(v) /\ \A i \in DOMAIN v : DocContainer(v[i]) /\ SayableContainer(v[i], InitContainerFields)
    BY <1>3 DEF DocPodField, SayablePodField
  <2>2. ReadAs(x, v) = [i \in DOMAIN v |-> ParseContainer(v[i], InitContainerFields)]
    BY <1>3 DEF ReadAs
  <2> QED
    BY <1>1, <1>3, <2>1, <2>2
<1>4. CASE x = "volumes"
  <2> DEFINE r == [i \in DOMAIN v |-> ParseVolume(v[i])]
             t == [i \in DOMAIN r |-> buildVolumeSpec(r[i])]
  <2>1. IsList(v) /\ \A i \in DOMAIN v : IsVolume(v[i]) /\ SayableVolume(v[i])
    BY <1>4 DEF DocPodField, SayablePodField
  <2>2. ReadAs(x, v) = r /\ WrittenAs(x, r) = t
    BY <1>4 DEF ReadAs, WrittenAs
  <2>3. \A i \in DOMAIN v : buildVolumeSpec(ParseVolume(v[i])) = v[i]
    BY <2>1, VolumeComesBack
  <2>4. t = [i \in DOMAIN v |-> t[i]] /\ \A i \in DOMAIN v : t[i] = v[i]
    BY <2>3
  <2> HIDE DEF t
  <2>5. t = v
    BY <2>1, <2>4, SameList
  <2> QED
    BY <2>2, <2>5
<1>5. CASE x = "tolerations"
  <2> DEFINE r == [i \in DOMAIN v |-> ParseToleration(v[i])]
             t == [i \in DOMAIN r |-> BuildToleration(r[i])]
  <2>1. IsList(v) /\ \A i \in DOMAIN v : IsFunction(v[i]) /\ SayableToleration(v[i])
    BY <1>5 DEF DocPodField, SayablePodField
  <2>2. ReadAs(x, v) = r /\ WrittenAs(x, r) = t
    BY <1>5 DEF ReadAs, WrittenAs
  <2>3. \A i \in DOMAIN v : BuildToleration(ParseToleration(v[i])) = v[i]
    BY <2>1, TolerationComesBack
  <2>4. t = [i \in DOMAIN v |-> t[i]] /\ \A i \in DOMAIN v : t[i] = v[i]
    BY <2>3
  <2> HIDE DEF t
  <2>5. t = v
    BY <2>1, <2>4, SameList
  <2> QED
    BY <2>2, <2>5
<1>6. CASE x = "dnsConfig"
  <2>1. v = Nothing
    BY <1>6 DEF SayablePodField
  <2>2. ReadAs(x, v) = ParseDns(v) /\ WrittenAs(x, ParseDns(v)) = BuildDns(ParseDns(v))
    BY <1>6 DEF ReadAs, WrittenAs
  <2> DEFINE b == BuildDns(ParseDns(v))
  <2>3. DOMAIN ParseDns(v) = {}
    BY <2>1, NothingIs DEF ParseDns
  <2>4. IsFunction(b) /\ DOMAIN b = {}
    BY <2>3 DEF BuildDns, IsFunction
  <2> HIDE DEF b
  <2>5. b = Nothing
    BY <2>4, NothingIs
  <2> QED
    BY <2>1, <2>2, <2>5 DEF b
<1>7. CASE x \in PlainPodFields \ {"nodeSelector"}
  <2>1. x \notin {"containers", "initContainers", "volumes", "tolerations", "dnsConfig"}
    BY <1>7 DEF PlainPodFields
  <2> QED
    BY <2>1 DEF ReadAs, WrittenAs
<1> QED
  BY <1>0, <1>2, <1>3, <1>4, <1>5, <1>6, <1>7

(* What the form can say of a spec, kind by kind.                          *)
LEMMA SayableSpecIs ==
    ASSUME NEW spec, NEW kind \in Kinds, SayableSpec(kind, spec)
    PROVE  /\ kind = "Deployment" =>
                /\ "replicas" \in DOMAIN spec
                /\ DOMAIN spec \subseteq {"replicas", "strategy"} \cup Times
           /\ kind = "Rollout" =>
                /\ {"replicas", "strategy"} \subseteq DOMAIN spec
                /\ DOMAIN spec \subseteq {"replicas", "strategy"} \cup Times
           /\ kind = "StatefulSet" => DOMAIN spec = {"replicas", "serviceName"}
           /\ kind = "CronJob" =>
                /\ "schedule" \in DOMAIN spec
                /\ DOMAIN spec \subseteq {"schedule", "suspend", "concurrencyPolicy"}
           /\ kind = "Job" => DOMAIN spec \subseteq parseJobFields \ {"ttlSecondsAfterFinished"}
           /\ kind = "DaemonSet" => DOMAIN spec = {}
           /\ \A x \in DOMAIN spec \cap {"serviceName", "schedule"} : spec[x] # ""
           /\ "strategy" \in DOMAIN spec =>
                kind \in {"Deployment", "Rollout"} /\ SayableStrategy(kind, spec["strategy"])
<1>1. /\ \A x \in DOMAIN spec \cap {"serviceName", "schedule"} : spec[x] # ""
      /\ "strategy" \in DOMAIN spec => SayableStrategy(kind, spec["strategy"])
  BY DEF SayableSpec
<1>2. CASE kind = "Deployment"
  BY <1>1, <1>2 DEF SayableSpec
<1>3. CASE kind = "Rollout"
  BY <1>1, <1>3 DEF SayableSpec
<1>4. CASE kind = "StatefulSet"
  <2>1. DOMAIN spec = {"replicas", "serviceName"}
    BY <1>4 DEF SayableSpec
  <2> QED
    BY <1>1, <1>4, <2>1
<1>5. CASE kind = "CronJob"
  <2>1. "schedule" \in DOMAIN spec /\ DOMAIN spec \subseteq {"schedule", "suspend", "concurrencyPolicy"}
    BY <1>5 DEF SayableSpec
  <2> QED
    BY <1>1, <1>5, <2>1
<1>6. CASE kind = "Job"
  <2>1. DOMAIN spec \subseteq parseJobFields \ {"ttlSecondsAfterFinished"}
    BY <1>6 DEF SayableSpec
  <2>2. "strategy" \notin parseJobFields
    BY DEF parseJobFields
  <2> QED
    BY <1>1, <1>6, <2>1, <2>2
<1>7. CASE kind = "DaemonSet"
  <2>1. DOMAIN spec = {}
    BY <1>7 DEF SayableSpec
  <2> QED
    BY <1>1, <1>7, <2>1
<1> QED
  BY <1>2, <1>3, <1>4, <1>5, <1>6, <1>7 DEF Kinds

(* A document the form can say is a Rollout if and only if it looks so.    *)
LEMMA SayableKind ==
    ASSUME NEW doc, NEW kind \in Kinds, IsDocument(doc), SayableDoc(kind, doc)
    PROVE  /\ doc.kind = kind
           /\ IsRollout(doc) <=> kind = "Rollout"
           /\ HasStrategy(doc) <=> kind = "Rollout"
           /\ kind = "Deployment" => ResourceFields(doc) = parseDeploymentFields
           /\ kind = "Rollout" => ResourceFields(doc) = parseRolloutFields
           /\ kind = "StatefulSet" => ResourceFields(doc) = parseStatefulSetFields
           /\ kind = "Job" => ResourceFields(doc) = parseJobFields
           /\ kind = "CronJob" => ResourceFields(doc) = parseCronJobFields
<1>1. doc.kind = kind /\ SayableSpec(kind, doc.spec)
  BY DEF SayableDoc
<1> DEFINE s == doc.spec["strategy"]
<1>2. CASE kind = "Rollout"
  <2>1. "strategy" \in DOMAIN doc.spec /\ SayableStrategy("Rollout", s)
    BY <1>1, <1>2, SayableSpecIs
  <2>2. DOMAIN s = {"canary"} \/ DOMAIN s = {"blueGreen"}
    BY <2>1 DEF SayableStrategy
  <2>3. HasStrategy(doc)
    BY <2>1, <2>2 DEF HasStrategy, Given
  <2> QED
    BY <1>1, <1>2, <2>3 DEF IsRollout, ResourceFields
<1>3. CASE kind # "Rollout"
  <2>1. ~HasStrategy(doc)
    <3>1. CASE "strategy" \in DOMAIN doc.spec
      <4>1. kind = "Deployment" /\ SayableStrategy("Deployment", s)
        BY <1>1, <1>3, <3>1, SayableSpecIs
      <4>2. DOMAIN s \subseteq {"type", "rollingUpdate"}
        BY <4>1 DEF SayableStrategy
      <4> QED
        BY <3>1, <4>2 DEF HasStrategy, Given
    <3>2. CASE "strategy" \notin DOMAIN doc.spec
      BY <3>2, NothingIs DEF HasStrategy, Given
    <3> QED
      BY <3>1, <3>2
  <2>2. ~IsRollout(doc)
    BY <1>1, <1>3, <2>1 DEF IsRollout
  <2> QED
    BY <1>1, <1>3, <2>1, <2>2 DEF ResourceFields
<1> QED
  BY <1>2, <1>3

(* The form agrees with what was read from a text: the same values, and    *)
(* objects of which the same is written.                                   *)
Same(f, g, x) == (x \in DOMAIN f <=> x \in DOMAIN g) /\ (x \in DOMAIN f => f[x] = g[x])
Filled(f, doc) ==
    /\ \A x \in FieldsOf(doc) \ Objects : Same(f, yamlToFormData(doc), x)
    /\ WrittenRules(f) = Given(doc.pod, "affinity", Nothing)
    /\ "dnsConfig" \in DOMAIN f <=> "dnsConfig" \in DOMAIN doc.pod
    /\ "dnsConfig" \in DOMAIN f => BuildDns(f["dnsConfig"]) = doc.pod["dnsConfig"]
    /\ doc.kind = "Deployment" =>
          /\ "strategy" \in DOMAIN f <=> "strategy" \in DOMAIN doc.spec
          /\ "strategy" \in DOMAIN f => BuildStrategy(f["strategy"]) = doc.spec["strategy"]
    /\ doc.kind = "Rollout" => buildRolloutStrategy(Pick(f, Copied)) = doc.spec["strategy"]

(* Then the Pod is the same,                                               *)
LEMMA SayablePodIsBuilt ==
    ASSUME NEW f, NEW doc, NEW kind \in Kinds, IsDocument(doc), SayableDoc(kind, doc),
           Filled(f, doc)
    PROVE  Text(kind, f).pod = doc.pod
<1> DEFINE F == yamlToFormData(doc)
           pod == doc.pod
           text == Text(kind, f).pod
<1>1. /\ IsFunction(pod) /\ \A x \in DOMAIN pod : DocPodField(x, pod[x]) /\ SayablePodField(x, pod[x])
      /\ "restartPolicy" \in DOMAIN pod <=> kind \in Jobs
  BY DEF IsDocument, SayableDoc, SayablePod
<1>2. DOMAIN pod \subseteq PodFields \cup {"affinity", "restartPolicy"}
  BY <1>1 DEF SayablePodField, PodFields
<1>3. /\ IsFunction(text)
      /\ DOMAIN text = (DOMAIN f \cap PodFields)
                       \cup {x \in {"affinity"} : WrittenRules(f) # Nothing}
                       \cup {x \in {"restartPolicy"} : kind \in Jobs}
      /\ \A x \in DOMAIN f \cap PodFields : text[x] = WrittenAs(x, f[x])
      /\ "affinity" \in DOMAIN text => text["affinity"] = WrittenRules(f)
      /\ "restartPolicy" \in DOMAIN text => text["restartPolicy"] = "Never"
  BY TextPod
<1>4. ASSUME NEW x \in PodFields
      PROVE  /\ x \in DOMAIN f <=> x \in DOMAIN pod
             /\ x \in DOMAIN f => WrittenAs(x, f[x]) = pod[x]
  <2>1. CASE x = "dnsConfig"
    BY <2>1 DEF Filled, WrittenAs
  <2>2. CASE x # "dnsConfig"
    <3>1. x \in FieldsOf(doc) \ Objects
      BY <2>2 DEF FieldsOf, CommonFields, PodFields, PlainPodFields, Objects
    <3>2. Same(f, F, x)
      BY <3>1 DEF Filled
    <3>3. x \in CommonFields /\ x \notin {"name", "labels", "annotations", "description", "scheduling"}
      BY DEF CommonFields, PodFields, PlainPodFields
    <3>4. x \notin DOMAIN ReadSpec(doc)
      BY <3>3, ReadSpecIs, ResourceFieldsApart
    <3>5. x \in DOMAIN F <=> x \in DOMAIN pod
      BY <3>3, <3>4, ParsedForm
    <3>6. x \in DOMAIN pod => F[x] = ReadAs(x, pod[x])
      BY ParsedForm
    <3>7. x \in DOMAIN pod => WrittenAs(x, ReadAs(x, pod[x])) = pod[x]
      BY <1>1, PodFieldComesBack
    <3> QED
      BY <3>2, <3>5, <3>6, <3>7 DEF Same
  <2> QED
    BY <2>1, <2>2
<1>5. WrittenRules(f) = Given(pod, "affinity", Nothing)
  BY DEF Filled
<1>6. "affinity" \in DOMAIN pod => pod["affinity"] # Nothing
  BY <1>1 DEF SayablePodField, SayableAffinity, PlainPodFields
<1>7. /\ WrittenRules(f) # Nothing <=> "affinity" \in DOMAIN pod
      /\ "affinity" \in DOMAIN pod => WrittenRules(f) = pod["affinity"]
  BY <1>5, <1>6 DEF Given
<1>8. "restartPolicy" \in DOMAIN pod => pod["restartPolicy"] = "Never"
  BY <1>1 DEF SayablePodField, PlainPodFields
<1>9. PodFields \cap {"affinity", "restartPolicy"} = {}
  BY DEF PodFields, PlainPodFields
<1> HIDE DEF pod, text, F
<1>10. DOMAIN text = DOMAIN pod
  BY <1>1, <1>2, <1>3, <1>4, <1>7
<1>11. \A x \in DOMAIN text : text[x] = pod[x]
  BY <1>2, <1>3, <1>4, <1>7, <1>8, <1>10
<1>12. text = pod
  BY <1>1, <1>3, <1>10, <1>11, SameFunction
<1> QED
  BY <1>12 DEF text, pod

(* and so is the spec.                                                     *)
LEMMA SayableSpecIsBuilt ==
    ASSUME NEW f, NEW doc, NEW kind \in Kinds, IsDocument(doc), SayableDoc(kind, doc),
           Filled(f, doc)
    PROVE  Text(kind, f).spec = doc.spec
<1> DEFINE F == yamlToFormData(doc)
           spec == doc.spec
           text == Text(kind, f).spec
<1>0. doc.kind = kind /\ SayableSpec(kind, spec) /\ IsFunction(spec)
  BY DEF SayableDoc, IsDocument
<1>1. ASSUME NEW x \in ResourceFields(doc), x \notin {"strategy", "rolloutStrategy"}
      PROVE  Same(f, spec, x)
  <2>1. Same(f, F, x)
    <3>1. x \notin CommonFields
      BY <1>1, ResourceFieldsApart
    <3>2. x \notin Objects
      BY <1>1, <3>1 DEF Objects, CommonFields, PodFields
    <3> QED
      BY <1>1, <3>2 DEF Filled, FieldsOf
  <2>2. /\ x \in DOMAIN ReadSpec(doc) <=> x \in DOMAIN spec
        /\ x \in DOMAIN spec => ReadSpec(doc)[x] = spec[x]
    <3>1. IsRollout(doc) => x \in {"replicas"} \cup Times
      BY <1>1 DEF ResourceFields, parseRolloutFields
    <3> QED
      BY <1>1, <3>1, ReadSpecIs
  <2>3. x \notin CommonFields
    BY <1>1, ResourceFieldsApart
  <2>4. x \in DOMAIN F <=> x \in DOMAIN ReadSpec(doc)
    BY <2>3, ParsedForm DEF CommonFields
  <2>5. x \in DOMAIN ReadSpec(doc) => F[x] = ReadSpec(doc)[x]
    BY ParsedForm
  <2> QED
    BY <2>1, <2>2, <2>4, <2>5 DEF Same
<1> HIDE DEF spec, text, F
<1>2. CASE kind = "Deployment"
  <2>1. ResourceFields(doc) = {"replicas", "strategy"} \cup Times
    BY <1>2, SayableKind DEF parseDeploymentFields
  <2>2. "replicas" \in DOMAIN spec /\ DOMAIN spec \subseteq {"replicas", "strategy"} \cup Times
    BY <1>0, <1>2, SayableSpecIs
  <2>3. \A x \in {"replicas"} \cup Times : Same(f, spec, x)
    BY <1>1, <2>1 DEF Times
  <2>4. "replicas" \notin Times /\ "strategy" \notin Times
    BY DEF Times
  <2>5. /\ "strategy" \in DOMAIN f <=> "strategy" \in DOMAIN spec
        /\ "strategy" \in DOMAIN f => BuildStrategy(f["strategy"]) = spec["strategy"]
    BY <1>0, <1>2 DEF Filled, spec
  <2>6. /\ IsFunction(text)
        /\ DOMAIN text = {"replicas"} \cup (DOMAIN f \cap (Times \cup {"strategy"}))
        /\ text["replicas"] = Given(f, "replicas", 1)
        /\ "strategy" \in DOMAIN text => text["strategy"] = BuildStrategy(f["strategy"])
        /\ \A x \in DOMAIN f \cap Times : text[x] = f[x]
    BY <1>2, DeploymentText DEF text
  <2>7. Given(f, "replicas", 1) = spec["replicas"]
    BY <2>2, <2>3 DEF Same, Given
  <2>8. DOMAIN text = DOMAIN spec
    BY <2>2, <2>3, <2>5, <2>6 DEF Same
  <2>9. \A x \in DOMAIN text : text[x] = spec[x]
    BY <2>2, <2>3, <2>4, <2>5, <2>6, <2>7, <2>8 DEF Same
  <2> QED
    BY <1>0, <2>6, <2>8, <2>9, SameFunction DEF text, spec
<1>3. CASE kind = "Rollout"
  <2>1. ResourceFields(doc) = {"replicas", "rolloutStrategy"} \cup Times
    BY <1>3, SayableKind DEF parseRolloutFields
  <2>2. /\ {"replicas", "strategy"} \subseteq DOMAIN spec
        /\ DOMAIN spec \subseteq {"replicas", "strategy"} \cup Times
    BY <1>0, <1>3, SayableSpecIs
  <2>3. \A x \in {"replicas"} \cup Times : Same(f, spec, x)
    BY <1>1, <2>1 DEF Times
  <2>4. "replicas" \notin Times /\ "strategy" \notin Times
    BY DEF Times
  <2>5. buildRolloutStrategy(Pick(f, Copied)) = spec["strategy"]
    BY <1>0, <1>3 DEF Filled, spec
  <2>6. /\ IsFunction(text)
        /\ DOMAIN text = {"replicas", "strategy"} \cup (DOMAIN f \cap Times)
        /\ text["replicas"] = Given(f, "replicas", 1)
        /\ text["strategy"] = buildRolloutStrategy(Pick(f, Copied))
        /\ \A x \in DOMAIN f \cap Times : text[x] = f[x]
    BY <1>3, RolloutText DEF text
  <2>7. Given(f, "replicas", 1) = spec["replicas"]
    BY <2>2, <2>3 DEF Same, Given
  <2>8. DOMAIN text = DOMAIN spec
    BY <2>2, <2>3, <2>6 DEF Same
  <2>9. \A x \in DOMAIN text : text[x] = spec[x]
    BY <2>2, <2>3, <2>4, <2>5, <2>6, <2>7, <2>8 DEF Same
  <2> QED
    BY <1>0, <2>6, <2>8, <2>9, SameFunction DEF text, spec
<1>4. CASE kind = "StatefulSet"
  <2>1. ResourceFields(doc) = {"replicas", "serviceName", "podManagementPolicy"}
    BY <1>4, SayableKind DEF parseStatefulSetFields
  <2>2. DOMAIN spec = {"replicas", "serviceName"} /\ spec["serviceName"] # ""
    BY <1>0, <1>4, SayableSpecIs
  <2>3. Same(f, spec, "replicas") /\ Same(f, spec, "serviceName")
    BY <1>1, <2>1
  <2>6. /\ IsFunction(text) /\ DOMAIN text = {"replicas", "serviceName"}
        /\ text["replicas"] = Given(f, "replicas", 1)
        /\ text["serviceName"] = GivenText(f, "serviceName", Given(f, "name", ""))
    BY <1>4, StatefulSetText DEF text
  <2>7. Given(f, "replicas", 1) = spec["replicas"]
        /\ GivenText(f, "serviceName", Given(f, "name", "")) = spec["serviceName"]
    BY <2>2, <2>3 DEF Same, Given, GivenText
  <2> QED
    BY <1>0, <2>2, <2>6, <2>7, SameFunction DEF text, spec
<1>5. CASE kind = "Job"
  <2>1. ResourceFields(doc) = parseJobFields
    BY <1>5, SayableKind
  <2>2. DOMAIN spec \subseteq parseJobFields \ {"ttlSecondsAfterFinished"}
    BY <1>0, <1>5, SayableSpecIs
  <2>3. \A x \in parseJobFields : Same(f, spec, x)
    BY <1>1, <2>1 DEF parseJobFields
  <2>6. /\ IsFunction(text)
        /\ DOMAIN text = DOMAIN f \cap (parseJobFields \ {"ttlSecondsAfterFinished"})
        /\ \A x \in DOMAIN text : text[x] = f[x]
    BY <1>5, JobText DEF text
  <2>8. DOMAIN text = DOMAIN spec
    BY <2>2, <2>3, <2>6 DEF Same
  <2>9. \A x \in DOMAIN text : text[x] = spec[x]
    BY <2>2, <2>3, <2>6, <2>8 DEF Same
  <2> QED
    BY <1>0, <2>6, <2>8, <2>9, SameFunction DEF text, spec
<1>6. CASE kind = "CronJob"
  <2>1. {"schedule", "suspend", "concurrencyPolicy"} \subseteq ResourceFields(doc)
    BY <1>6, SayableKind DEF parseCronJobFields
  <2>2. "schedule" \in DOMAIN spec /\ spec["schedule"] # ""
        /\ DOMAIN spec \subseteq {"schedule", "suspend", "concurrencyPolicy"}
    BY <1>0, <1>6, SayableSpecIs
  <2>3. \A x \in {"schedule", "suspend", "concurrencyPolicy"} : Same(f, spec, x)
    BY <1>1, <2>1
  <2>6. /\ IsFunction(text)
        /\ DOMAIN text = {"schedule"} \cup (DOMAIN f \cap {"suspend", "concurrencyPolicy"})
        /\ text["schedule"] = GivenText(f, "schedule", "0 0 * * *")
        /\ \A x \in DOMAIN f \cap {"suspend", "concurrencyPolicy"} : text[x] = f[x]
    BY <1>6, CronJobText DEF text
  <2>7. GivenText(f, "schedule", "0 0 * * *") = spec["schedule"]
    BY <2>2, <2>3 DEF Same, Given, GivenText
  <2>8. DOMAIN text = DOMAIN spec
    BY <2>2, <2>3, <2>6 DEF Same
  <2>9. \A x \in DOMAIN text : text[x] = spec[x]
    BY <2>2, <2>3, <2>6, <2>7, <2>8 DEF Same
  <2> QED
    BY <1>0, <2>6, <2>8, <2>9, SameFunction DEF text, spec
<1>7. CASE kind = "DaemonSet"
  <2>1. DOMAIN spec = {}
    BY <1>0, <1>7, SayableSpecIs
  <2>2. spec = Nothing
    BY <1>0, <2>1, NothingIs
  <2> QED
    BY <1>7, <2>2, DaemonSetText DEF text, spec
<1> QED
  BY <1>2, <1>3, <1>4, <1>5, <1>6, <1>7 DEF Kinds

(* A document that the form can say is what the page writes from a form    *)
(* that agrees with it.                                                    *)
LEMMA SayableIsBuilt ==
    ASSUME NEW f, NEW doc, NEW kind \in Kinds, IsDocument(doc), SayableDoc(kind, doc),
           Filled(f, doc)
    PROVE  Text(kind, f) = doc
<1> DEFINE F == yamlToFormData(doc)
<1>1. /\ doc.kind = kind /\ doc.name # "" /\ doc.labels # Nothing
      /\ Kept(doc.labels) = doc.labels /\ Kept(doc.annotations) = doc.annotations
      /\ doc.templateLabels = doc.labels /\ doc.templateAnnotations = Nothing
      /\ doc.selector = IF kind \in Jobs THEN Nothing ELSE doc.labels
  BY DEF SayableDoc
<1>2. \A x \in {"name", "labels", "annotations", "description"} : Same(f, F, x)
  <2>1. {"name", "labels", "annotations", "description"} \subseteq FieldsOf(doc) \ Objects
    BY DEF FieldsOf, CommonFields, Objects
  <2> QED
    BY <2>1 DEF Filled
<1>3. /\ {"name", "labels", "annotations"} \subseteq DOMAIN F
      /\ F["name"] = doc.name /\ F["labels"] = doc.labels /\ F["annotations"] = doc.annotations
  BY ParsedForm
<1>4. "description" \in DOMAIN F => "description" \in DOMAIN doc.annotations
  <2>1. "description" \notin DOMAIN ReadSpec(doc)
    BY ReadSpecIs, ResourceFieldsApart DEF CommonFields
  <2>2. "description" \notin PodFields
    BY DEF PodFields, PlainPodFields
  <2> QED
    BY <2>1, <2>2, ParsedForm
<1> HIDE DEF F
<1>5. /\ "name" \in DOMAIN f /\ f["name"] = doc.name
      /\ "labels" \in DOMAIN f /\ f["labels"] = doc.labels
      /\ "annotations" \in DOMAIN f /\ f["annotations"] = doc.annotations
      /\ "description" \in DOMAIN f => "description" \in DOMAIN doc.annotations
  BY <1>2, <1>3, <1>4 DEF Same
<1>6. GivenText(f, "name", "example") = doc.name
  BY <1>1, <1>5 DEF GivenText, Given
<1>7. BuildLabels(f) = doc.labels
  BY <1>1, <1>5 DEF BuildLabels, Given
<1>8. Override(Kept(Pick(f, {"description"})), Kept(Given(f, "annotations", Nothing)))
        = doc.annotations
  <2> DEFINE a == doc.annotations
             k == Kept(Pick(f, {"description"}))
             o == Override(k, a)
  <2>1. Kept(Given(f, "annotations", Nothing)) = a
    BY <1>1, <1>5 DEF Given
  <2>2. IsFunction(Kept(a))
    BY DEF Kept, IsFunction
  <2>3. IsFunction(a)
    BY <1>1, <2>2
  <2>4. DOMAIN k \subseteq DOMAIN Pick(f, {"description"})
    BY DEF Kept
  <2>5. DOMAIN k \subseteq DOMAIN a
    BY <1>5, <2>4 DEF Pick
  <2> HIDE DEF a, k
  <2>6. /\ IsFunction(o) /\ DOMAIN o = DOMAIN k \cup DOMAIN a
        /\ \A x \in DOMAIN a : o[x] = a[x]
    BY OverrideIs
  <2>7. DOMAIN o = DOMAIN a
    BY <2>5, <2>6
  <2> HIDE DEF o
  <2>8. o = a
    BY <2>3, <2>6, <2>7, SameFunction
  <2> QED
    BY <2>1, <2>8 DEF o, k, a
<1>9. Text(kind, f).spec = doc.spec /\ Text(kind, f).pod = doc.pod
  BY SayableSpecIsBuilt, SayablePodIsBuilt
<1>10. doc = [kind |-> doc.kind, name |-> doc.name, labels |-> doc.labels,
              annotations |-> doc.annotations, selector |-> doc.selector,
              templateLabels |-> doc.templateLabels,
              templateAnnotations |-> doc.templateAnnotations,
              spec |-> doc.spec, pod |-> doc.pod]
  BY DEF IsDocument
<1>11. doc = [kind |-> kind, name |-> doc.name, labels |-> doc.labels,
              annotations |-> doc.annotations,
              selector |-> IF kind \in Jobs THEN Nothing ELSE doc.labels,
              templateLabels |-> doc.labels, templateAnnotations |-> Nothing,
              spec |-> doc.spec, pod |-> doc.pod]
  BY <1>1, <1>10
<1>12. Text(kind, f) =
             [kind |-> kind, name |-> doc.name, labels |-> doc.labels,
              annotations |-> doc.annotations,
              selector |-> IF kind \in Jobs THEN Nothing ELSE doc.labels,
              templateLabels |-> doc.labels, templateAnnotations |-> Nothing,
              spec |-> doc.spec, pod |-> doc.pod]
  BY <1>6, <1>7, <1>8, <1>9, TextMeta
<1> QED
  BY <1>11, <1>12

(* Without rules nothing is read or written.                               *)
LEMMA NoRules == parseAffinityToScheduling(Nothing) = Nothing /\ buildScheduling(Nothing) = Nothing
<1> DEFINE p == parseAffinityToScheduling(Nothing)
           b == buildScheduling(Nothing)
<1>1. IsFunction(p) /\ DOMAIN p = {}
  BY NothingIs DEF parseAffinityToScheduling, NonEmpty, IsFunction
<1>2. IsFunction(b) /\ DOMAIN b = {}
  BY NothingIs DEF buildScheduling, NonEmpty, IsFunction
<1> HIDE DEF p, b
<1>3. p = Nothing /\ b = Nothing
  BY <1>1, <1>2, NothingIs
<1> QED
  BY <1>3 DEF p, b

(* The rules that are read from a document that the form can say.          *)
LEMMA SayableRules ==
    ASSUME NEW doc, NEW kind \in Kinds, IsDocument(doc), SayableDoc(kind, doc)
    PROVE  /\ buildScheduling(ReadRules(doc)) = Given(doc.pod, "affinity", Nothing)
           /\ ReadRules(doc) # Nothing <=> "affinity" \in DOMAIN doc.pod
           /\ "affinity" \in DOMAIN doc.pod =>
                DocAffinity(doc.pod["affinity"]) /\ SayableAffinity(doc.pod["affinity"])
<1>1. CASE "affinity" \in DOMAIN doc.pod
  <2>1. DocPodField("affinity", doc.pod["affinity"])
        /\ SayablePodField("affinity", doc.pod["affinity"])
    BY <1>1 DEF IsDocument, SayableDoc, SayablePod
  <2>2. DocAffinity(doc.pod["affinity"]) /\ SayableAffinity(doc.pod["affinity"])
    BY <2>1 DEF DocPodField, SayablePodField
  <2> QED
    BY <1>1, <2>2, AffinityComesBack DEF ReadRules, Given
<1>2. CASE "affinity" \notin DOMAIN doc.pod
  BY <1>2, NoRules DEF ReadRules, Given
<1> QED
  BY <1>1, <1>2

(* A form that has what was read from a document agrees with it.           *)
LEMMA AgreeingIsFilled ==
    ASSUME NEW f, NEW doc, NEW kind \in Kinds, IsDocument(doc), SayableDoc(kind, doc),
           \A x \in FieldsOf(doc) : Same(f, yamlToFormData(doc), x)
    PROVE  Filled(f, doc)
<1> DEFINE F == yamlToFormData(doc)
<1>0. CommonFields \subseteq FieldsOf(doc) /\ ResourceFields(doc) \subseteq FieldsOf(doc)
  BY DEF FieldsOf
<1>1. WrittenRules(f) = Given(doc.pod, "affinity", Nothing)
  <2>1. Same(f, F, "scheduling")
    BY <1>0 DEF CommonFields
  <2>2. "scheduling" \in DOMAIN F <=> ReadRules(doc) # Nothing
    <3>1. "scheduling" \notin DOMAIN ReadSpec(doc)
      BY ReadSpecIs, ResourceFieldsApart DEF CommonFields
    <3>2. "scheduling" \notin PodFields
      BY DEF PodFields, PlainPodFields
    <3> QED
      BY <3>1, <3>2, ParsedForm
  <2>3. "scheduling" \in DOMAIN F => F["scheduling"] = ReadRules(doc)
    BY ParsedForm
  <2>4. Given(f, "scheduling", Nothing) = ReadRules(doc)
    BY <2>1, <2>2, <2>3 DEF Same, Given
  <2> QED
    BY <2>4, SayableRules DEF WrittenRules
<1>2. /\ "dnsConfig" \in DOMAIN f <=> "dnsConfig" \in DOMAIN doc.pod
      /\ "dnsConfig" \in DOMAIN f => BuildDns(f["dnsConfig"]) = doc.pod["dnsConfig"]
  <2>0. "dnsConfig" \in PodFields /\ "dnsConfig" \in CommonFields
    BY DEF PodFields, CommonFields
  <2>1. Same(f, F, "dnsConfig")
    BY <1>0, <2>0
  <2>2. "dnsConfig" \in DOMAIN F <=> "dnsConfig" \in DOMAIN doc.pod
    <3>1. "dnsConfig" \notin DOMAIN ReadSpec(doc)
      BY <2>0, ReadSpecIs, ResourceFieldsApart
    <3> QED
      BY <2>0, <3>1, ParsedForm
  <2>3. ASSUME "dnsConfig" \in DOMAIN doc.pod
        PROVE  BuildDns(F["dnsConfig"]) = doc.pod["dnsConfig"]
    <3> DEFINE v == doc.pod["dnsConfig"]
    <3>1. F["dnsConfig"] = ReadAs("dnsConfig", v)
      BY <2>0, <2>3, ParsedForm
    <3>2. DocPodField("dnsConfig", v) /\ SayablePodField("dnsConfig", v)
      BY <2>3 DEF IsDocument, SayableDoc, SayablePod
    <3>3. WrittenAs("dnsConfig", ReadAs("dnsConfig", v)) = v
      BY <2>0, <3>2, PodFieldComesBack
    <3> QED
      BY <3>1, <3>3 DEF WrittenAs
  <2> QED
    BY <2>1, <2>2, <2>3 DEF Same
<1>3. ASSUME doc.kind = "Deployment"
      PROVE  /\ "strategy" \in DOMAIN f <=> "strategy" \in DOMAIN doc.spec
             /\ "strategy" \in DOMAIN f => BuildStrategy(f["strategy"]) = doc.spec["strategy"]
  <2>0. kind = "Deployment" /\ "strategy" \in ResourceFields(doc) /\ ~IsRollout(doc)
    BY <1>3, SayableKind DEF parseDeploymentFields
  <2>1. Same(f, F, "strategy")
    BY <1>0, <2>0
  <2>2. /\ "strategy" \in DOMAIN ReadSpec(doc) <=> "strategy" \in DOMAIN doc.spec
        /\ "strategy" \in DOMAIN doc.spec => ReadSpec(doc)["strategy"] = doc.spec["strategy"]
    BY <2>0, ReadSpecIs
  <2>3. "strategy" \notin CommonFields
    BY <2>0, ResourceFieldsApart
  <2>4. "strategy" \in DOMAIN F <=> "strategy" \in DOMAIN doc.spec
    BY <2>2, <2>3, ParsedForm DEF CommonFields
  <2>5. "strategy" \in DOMAIN doc.spec => F["strategy"] = doc.spec["strategy"]
    BY <2>2, ParsedForm
  <2>6. ASSUME "strategy" \in DOMAIN doc.spec
        PROVE  BuildStrategy(doc.spec["strategy"]) = doc.spec["strategy"]
    <3>1. IsFunction(doc.spec["strategy"])
      BY <2>6 DEF IsDocument, DocStrategy
    <3>2. SayableStrategy("Deployment", doc.spec["strategy"])
      BY <2>0, <2>6 DEF SayableDoc, SayableSpec
    <3> QED
      BY <3>1, <3>2, StrategyComesBack
  <2> QED
    BY <2>1, <2>4, <2>5, <2>6 DEF Same
<1>4. ASSUME doc.kind = "Rollout"
      PROVE  buildRolloutStrategy(Pick(f, Copied)) = doc.spec["strategy"]
  <2> DEFINE s == doc.spec["strategy"]
  <2>0. kind = "Rollout" /\ "rolloutStrategy" \in ResourceFields(doc)
        /\ IsRollout(doc) /\ HasStrategy(doc)
    BY <1>4, SayableKind DEF parseRolloutFields
  <2>1. Same(f, F, "rolloutStrategy")
    BY <1>0, <2>0
  <2>2. "rolloutStrategy" \in DOMAIN ReadSpec(doc)
        /\ ReadSpec(doc)["rolloutStrategy"] = RolloutStrategy(s)
    BY <2>0, ReadSpecIs
  <2>3. "rolloutStrategy" \in DOMAIN F /\ F["rolloutStrategy"] = RolloutStrategy(s)
    BY <2>2, ParsedForm
  <2>4. "rolloutStrategy" \in Copied
    BY DEF Copied
  <2>5. "rolloutStrategy" \in DOMAIN Pick(f, Copied)
        /\ Pick(f, Copied)["rolloutStrategy"] = RolloutStrategy(s)
    BY <2>1, <2>3, <2>4, CopiedFields DEF Same
  <2>6. "strategy" \in DOMAIN doc.spec /\ SayableStrategy("Rollout", s)
    BY <2>0, SayableSpecIs DEF SayableDoc
  <2>7. DocStrategy(s)
    BY <2>6 DEF IsDocument
  <2> QED
    BY <2>5, <2>6, <2>7, RolloutStrategyComesBack
<1>5. \A x \in FieldsOf(doc) \ Objects : Same(f, F, x)
  OBVIOUS
<1> HIDE DEF F
<1> QED
  BY <1>1, <1>2, <1>3, <1>4, <1>5 DEF Filled, F

(* setFieldsValue, field by field.                                         *)
LEMMA FilledStore ==
    ASSUME NEW store, NEW fields, NEW values
    PROVE  LET g == setFieldsValue(store, fields, values)
           IN /\ \A x : x \in DOMAIN g <=>
                            (x \in DOMAIN store /\ x \notin fields) \/ x \in DOMAIN values
              /\ \A x \in DOMAIN values :
                    /\ x \in Objects \cap DOMAIN store => g[x] = Merge(store[x], values[x])
                    /\ x \notin Objects \cap DOMAIN store => g[x] = values[x]
              /\ \A x \in DOMAIN store \ (fields \cup DOMAIN values) : g[x] = store[x]
<1> DEFINE kept == Pick(store, DOMAIN store \ fields)
           new == [f \in DOMAIN values |->
                      IF f \in Objects \cap DOMAIN store
                      THEN Merge(store[f], values[f]) ELSE values[f]]
           o == Override(kept, new)
<1>1. DOMAIN kept = DOMAIN store \ fields /\ \A x \in DOMAIN kept : kept[x] = store[x]
  BY DEF Pick
<1>2. /\ DOMAIN new = DOMAIN values
      /\ \A x \in DOMAIN values :
            /\ x \in Objects \cap DOMAIN store => new[x] = Merge(store[x], values[x])
            /\ x \notin Objects \cap DOMAIN store => new[x] = values[x]
  OBVIOUS
<1>3. setFieldsValue(store, fields, values) = o
  BY DEF setFieldsValue
<1> HIDE DEF kept, new
<1>4. /\ DOMAIN o = DOMAIN kept \cup DOMAIN new
      /\ \A x \in DOMAIN new : o[x] = new[x]
      /\ \A x \in DOMAIN kept \ DOMAIN new : o[x] = kept[x]
  BY OverrideIs
<1> HIDE DEF o
<1> QED
  BY <1>1, <1>2, <1>3, <1>4

(* Lists and scalars are the ones that were read.                          *)
LEMMA FilledValues ==
    ASSUME NEW store, NEW doc
    PROVE  LET F == yamlToFormData(doc)
               g == setFieldsValue(store, FieldsOf(doc), F)
           IN /\ \A x \in FieldsOf(doc) \ Objects : Same(g, F, x)
              /\ \A x \in FieldsOf(doc) : x \in DOMAIN g <=> x \in DOMAIN F
              /\ DOMAIN F \subseteq DOMAIN g
<1> DEFINE F == yamlToFormData(doc)
           g == setFieldsValue(store, FieldsOf(doc), F)
<1>1. /\ \A x : x \in DOMAIN g <=>
               (x \in DOMAIN store /\ x \notin FieldsOf(doc)) \/ x \in DOMAIN F
      /\ \A x \in DOMAIN F : x \notin Objects \cap DOMAIN store => g[x] = F[x]
  BY FilledStore
<1> HIDE DEF g, F
<1>2. \A x \in FieldsOf(doc) \ Objects : Same(g, F, x)
  BY <1>1 DEF Same
<1> QED
  BY <1>1, <1>2 DEF g, F

-----------------------------------------------------------------------------
(* What the form writes, it can say.                                       *)

(* Picking gives a function with no other fields.                          *)
LEMMA PickWithin ==
    ASSUME NEW f, NEW S
    PROVE  IsFunction(Pick(f, S)) /\ DOMAIN Pick(f, S) \subseteq S
BY DEF Pick, IsFunction

(* A text without a word is no command.                                    *)
LEMMA EmptyIsNoCommand == \A text \in EmptyTexts : parseCommandString(text) = <<>>
<1> DEFINE none == <<>>
           blank == <<[indented |-> FALSE, text |-> ""]>>
           pieces(text) == [i \in DOMAIN text |->
                              IF text[i].text = "" THEN <<>> ELSE <<<<Trimmed(text[i])>>>>]
<1>1. parseCommandString(none) = <<>>
  <2> DEFINE p == pieces(none)
  <2>1. DOMAIN none = {}
    OBVIOUS
  <2> HIDE DEF none
  <2>2. DOMAIN p = {} /\ p = [i \in DOMAIN p |-> p[i]]
    BY <2>1
  <2>3. parseCommandString(none) = FlattenSeq(p)
    BY DEF parseCommandString
  <2> HIDE DEF p
  <2>4. p \in [1..0 -> {0}]
    BY <2>2
  <2>5. p \in Seq({0}) /\ Len(p) = 0
    BY <2>4, FunctionIsSeq
  <2>6. p = <<>>
    BY <2>5
  <2> QED
    BY <2>3, <2>6 DEF FlattenSeq
<1>2. parseCommandString(blank) = <<>>
  <2> DEFINE p == pieces(blank)
             line == [indented |-> FALSE, text |-> ""]
  <2>0. line.text = ""
    OBVIOUS
  <2> HIDE DEF line
  <2>1. DOMAIN <<line>> = {1} /\ <<line>>[1].text = ""
    BY <2>0, OneIsSeq
  <2>7. blank = <<line>>
    BY DEF line
  <2> HIDE DEF blank
  <2>2. DOMAIN p = {1} /\ p = [i \in DOMAIN p |-> p[i]] /\ p[1] = <<>>
    BY <2>1, <2>7
  <2>3. parseCommandString(blank) = FlattenSeq(p)
    BY DEF parseCommandString
  <2> HIDE DEF p
  <2>8. p \in [1..1 -> {<<>>}]
    BY <2>2
  <2>4. Len(p) = 1
    BY <2>8, FunctionIsSeq
  <2>9. Len(p) \in Nat /\ Len(p) # 0
    BY <2>4
  <2>5. PICK g : /\ FlattenSeq(p) = g[Len(p)] /\ g[1] = p[1]
                 /\ \A n \in Nat : n # 0 /\ n + 1 \in 1..Len(p) => g[n + 1] = g[n] \o p[n + 1]
    BY <2>9, FlattenIs
  <2> QED
    BY <2>2, <2>3, <2>4, <2>5
<1> QED
  BY <1>1, <1>2 DEF EmptyTexts

(* What the page writes is a document, and one that the form can say: a    *)
(* probe,                                                                  *)
LEMMA WrittenProbe ==
    ASSUME NEW q, IsText(q.command)
    PROVE  LET p == buildProbeConfig(q)
           IN /\ DocProbe(p)
              /\ ~(p.type = "exec" /\ p.command = <<>>) /\ (p.type # "none" \/ p.times # Nothing)
                   => SayableProbe(p)
<1> DEFINE p == buildProbeConfig(q)
           type == IF \/ q.type \in DOMAIN HandlerFields
                      \/ q.type = "exec" /\ q.command \notin EmptyTexts
                   THEN q.type ELSE "none"
           command == IF q.type = "exec" THEN parseCommandString(q.command) ELSE <<>>
           settings == IF q.type \in DOMAIN HandlerFields
                       THEN Override(HandlerDefaults[q.type],
                                     Pick(q.settings, HandlerFields[q.type]))
                       ELSE Nothing
           times == Pick(q.times, ProbeTimes)
<1>1. p = [type |-> type, command |-> command, settings |-> settings, times |-> times]
  BY DEF buildProbeConfig
<1>2. DOMAIN HandlerFields = {"httpGet", "tcpSocket"}
      /\ HandlerFields["httpGet"] = {"path", "port", "scheme"}
      /\ HandlerFields["tcpSocket"] = {"port"}
      /\ HandlerDefaults["httpGet"] = [path |-> "/", port |-> 80]
      /\ HandlerDefaults["tcpSocket"] = Nothing
  BY DEF HandlerFields, HandlerDefaults
<1>3. IsFunction(times) /\ DOMAIN times \subseteq ProbeTimes
  BY PickWithin
<1>4. IsCommand(<<>>)
  BY NoSteps DEF IsCommand
<1>5. IsCommand(command) /\ \A i \in DOMAIN command : Sayable(command[i])
  BY <1>4, SplitIsCommand, NoSteps
<1>6. IsFunction(settings)
  BY NothingIs, OverrideIs
<1>7. type = "httpGet" => {"path", "port"} \subseteq DOMAIN settings
                            /\ DOMAIN settings \subseteq {"path", "port", "scheme"}
  <2> SUFFICES ASSUME type = "httpGet"
               PROVE  {"path", "port"} \subseteq DOMAIN settings
                        /\ DOMAIN settings \subseteq {"path", "port", "scheme"}
    OBVIOUS
  <2>1. q.type = "httpGet"
    OBVIOUS
  <2> DEFINE d == [path |-> "/", port |-> 80]
             s == Pick(q.settings, {"path", "port", "scheme"})
  <2>2. settings = Override(d, s)
    BY <1>2, <2>1
  <2>3. DOMAIN d = {"path", "port"}
    OBVIOUS
  <2>4. DOMAIN s \subseteq {"path", "port", "scheme"}
    BY PickWithin
  <2> HIDE DEF d, s, settings
  <2> QED
    <3> DEFINE o == Override(d, s)
    <3>1. DOMAIN o = DOMAIN d \cup DOMAIN s
      BY OverrideIs
    <3> HIDE DEF o
    <3>2. settings = o
      BY <2>2 DEF o
    <3> QED
      BY <2>3, <2>4, <3>1, <3>2
<1>8. type = "tcpSocket" => DOMAIN settings \subseteq {"port"}
  <2> SUFFICES ASSUME type = "tcpSocket" PROVE DOMAIN settings \subseteq {"port"}
    OBVIOUS
  <2>1. q.type = "tcpSocket"
    OBVIOUS
  <2> DEFINE s == Pick(q.settings, {"port"})
  <2>2. settings = Override(Nothing, s)
    BY <1>2, <2>1
  <2>4. DOMAIN s \subseteq {"port"}
    BY PickWithin
  <2> HIDE DEF s, settings
  <2> QED
    BY <2>2, <2>4, NothingIs, OverrideIs
<1>9. /\ type \in {"httpGet", "tcpSocket", "exec", "none"}
      /\ type = "exec" => settings = Nothing
      /\ type = "none" => settings = Nothing \/ q.type = "none"
      /\ type # "exec" => command = <<>>
  <2>1. CASE q.type \in DOMAIN HandlerFields
    BY <1>2, <2>1
  <2>2. CASE q.type = "exec" /\ q.command \notin EmptyTexts
    BY <1>2, <2>2
  <2>3. CASE q.type = "exec" /\ q.command \in EmptyTexts
    <3>1. parseCommandString(q.command) = <<>>
      BY <2>3, EmptyIsNoCommand
    <3> QED
      BY <1>2, <2>3, <3>1
  <2>4. CASE q.type \notin DOMAIN HandlerFields /\ q.type # "exec"
    BY <1>2, <2>4
  <2> QED
    BY <2>1, <2>2, <2>3, <2>4
<1>10. type = "none" => settings = Nothing
  BY <1>2, <1>9
<1> HIDE DEF type, command, settings, times, p
<1>11. p.type = type /\ p.command = command /\ p.settings = settings /\ p.times = times
  BY <1>1
<1>12. DocProbe(p)
  BY <1>1, <1>3, <1>5, <1>6, <1>9, <1>11 DEF DocProbe
<1>13. ASSUME ~(p.type = "exec" /\ p.command = <<>>), p.type # "none" \/ p.times # Nothing
       PROVE  SayableProbe(p)
  BY <1>3, <1>5, <1>7, <1>8, <1>9, <1>10, <1>11, <1>13 DEF SayableProbe, SayableCommand
<1> QED
  BY <1>12, <1>13 DEF p

(* hooks,                                                                  *)
LEMMA WrittenHooks ==
    ASSUME NEW q, \A h \in DOMAIN q : IsText(q[h])
    PROVE  LET b == BuildLifecycle(q)
           IN DocHooks(b) /\ (b # Nothing => SayableHooks(b))
<1> DEFINE b == BuildLifecycle(q)
<1>1. /\ IsFunction(b) /\ DOMAIN b = {g \in DOMAIN q : parseCommandString(q[g]) # <<>>}
      /\ \A h \in DOMAIN b : b[h] = [type |-> "exec", command |-> parseCommandString(q[h])]
  BY DEF BuildLifecycle, IsFunction
<1>2. \A h \in DOMAIN q : /\ IsCommand(parseCommandString(q[h]))
                          /\ \A i \in DOMAIN parseCommandString(q[h]) :
                                Sayable(parseCommandString(q[h])[i])
  BY SplitIsCommand
<1> HIDE DEF b
<1>3. ASSUME NEW h \in DOMAIN b
      PROVE  /\ b[h] = [type |-> b[h].type, command |-> b[h].command]
             /\ IsCommand(b[h].command) /\ b[h].type = "exec" /\ SayableCommand(b[h].command)
  <2>1. h \in DOMAIN q /\ parseCommandString(q[h]) # <<>>
    BY <1>1
  <2>2. b[h].type = "exec" /\ b[h].command = parseCommandString(q[h])
        /\ b[h] = [type |-> "exec", command |-> parseCommandString(q[h])]
    BY <1>1
  <2> QED
    BY <1>2, <2>1, <2>2 DEF SayableCommand
<1> QED
  BY <1>1, <1>3 DEF DocHooks, SayableHooks, b

(* a port,                                                                 *)
LEMMA WrittenPort == ASSUME NEW port PROVE IsFunction(BuildPort(port)) /\ SayablePort(BuildPort(port))
<1> DEFINE fields == {"name", "containerPort"} \cup
                     (IF Given(port, "protocol", "TCP") = "TCP" THEN {} ELSE {"protocol"})
           b == Pick(port, fields)
<1>1. /\ IsFunction(b) /\ DOMAIN b = DOMAIN port \cap fields
      /\ \A x \in DOMAIN port \cap fields : b[x] = port[x]
  BY PickIsFunction
<1>2. BuildPort(port) = b
  BY DEF BuildPort
<1>3. /\ DOMAIN b \subseteq {"name", "containerPort", "protocol"}
      /\ "protocol" \in DOMAIN b => b["protocol"] # "TCP"
  BY <1>1 DEF Given
<1> HIDE DEF b, fields
<1> QED
  BY <1>1, <1>2, <1>3 DEF SayablePort, Given

(* a field of a container,                                                 *)
LEMMA WrittenContainerField ==
    ASSUME NEW fields \in {ContainerFields, InitContainerFields}, NEW c, FormContainer(c, fields),
           NEW f \in DOMAIN buildContainerSpec(c)
    PROVE  LET v == buildContainerSpec(c)[f]
           IN /\ (CASE f \in Commands -> IsCommand(v)
                    [] f \in Probes -> DocProbe(v)
                    [] f = "lifecycle" -> DocHooks(v)
                    [] f = "resources" ->
                          /\ v = [requests |-> v.requests, limits |-> v.limits]
                          /\ IsFunction(v.requests) /\ IsFunction(v.limits)
                    [] f \in {"ports", "volumeMounts"} ->
                          IsList(v) /\ \A i \in DOMAIN v : IsFunction(v[i])
                    [] OTHER -> TRUE)
              /\ ~(f \in Probes /\ v.type = "exec" /\ v.command = <<>>) =>
                   (CASE f \in Commands -> SayableCommand(v)
                      [] f \in Probes -> SayableProbe(v)
                      [] f = "lifecycle" -> SayableHooks(v)
                      [] f = "resources" -> SayableResources(v)
                      [] f = "ports" -> \A i \in DOMAIN v : SayablePort(v[i])
                      [] f = "volumeMounts" -> \A i \in DOMAIN v :
                            DOMAIN v[i] \subseteq {"name", "mountPath", "subPath", "readOnly"}
                      [] OTHER -> TRUE)
<1> DEFINE b == buildContainerSpec(c)
           v == b[f]
           special == {"image", "lifecycle", "resources", "ports", "volumeMounts"}
<1>0. Commands \cap Probes = {} /\ (Commands \cup Probes) \cap special = {}
  BY DEF Commands, Probes
<1>1. DOMAIN b = WrittenFields(c) \cup {"image"}
  BY DEF buildContainerSpec
<1>2. f # "image" => f \in WrittenFields(c) /\ f \in DOMAIN c
  BY <1>1 DEF WrittenFields
<1>3. f # "image" => /\ f \in Commands => parseCommandString(c[f]) # <<>>
                     /\ f = "lifecycle" => BuildLifecycle(c[f]) # Nothing
                     /\ f \in Probes => \/ buildProbeConfig(c[f]).type # "none"
                                        \/ buildProbeConfig(c[f]).times # Nothing
  BY <1>0, <1>2 DEF WrittenFields
<1>4. /\ f \in Commands => v = parseCommandString(c[f])
      /\ f \in Probes => v = buildProbeConfig(c[f])
      /\ f = "lifecycle" => v = BuildLifecycle(c[f])
      /\ f = "resources" => v = BuildResources(c[f])
      /\ f = "ports" => v = [i \in DOMAIN c[f] |-> BuildPort(c[f][i])]
      /\ f = "volumeMounts" => v = [i \in DOMAIN c[f] |-> BuildMount(c[f][i])]
  BY <1>0, <1>1 DEF buildContainerSpec
<1>5. f # "image" => /\ f \in Commands => IsText(c[f])
                     /\ f \in Probes => IsText(c[f].command)
                     /\ f = "lifecycle" => \A h \in DOMAIN c[f] : IsText(c[f][h])
                     /\ f \in {"ports", "volumeMounts"} => IsList(c[f])
  BY <1>0, <1>2 DEF FormContainer
<1> HIDE DEF b, v
<1>6. CASE f \in Commands
  <2>1. f \notin Probes /\ f \notin special
    BY <1>0, <1>6
  <2>2. IsCommand(v) /\ SayableCommand(v)
    BY <1>3, <1>4, <1>5, <1>6, <2>1, SplitIsCommand DEF SayableCommand
  <2> QED
    BY <1>6, <2>1, <2>2 DEF b, v
<1>7. CASE f \in Probes
  <2>1. f \notin Commands /\ f \notin special
    BY <1>0, <1>7
  <2>2. DocProbe(v) /\ (~(v.type = "exec" /\ v.command = <<>>) => SayableProbe(v))
    BY <1>3, <1>4, <1>5, <1>7, <2>1, WrittenProbe
  <2> QED
    BY <1>7, <2>1, <2>2 DEF b, v
<1>8. CASE f = "lifecycle"
  <2>1. f \notin Commands /\ f \notin Probes
    BY <1>0, <1>8
  <2>2. DocHooks(v) /\ SayableHooks(v)
    BY <1>3, <1>4, <1>5, <1>8, WrittenHooks
  <2> QED
    BY <1>8, <2>1, <2>2 DEF b, v
<1>9. CASE f = "resources"
  <2>1. f \notin Commands /\ f \notin Probes
    BY <1>0, <1>9
  <2> DEFINE a == Pick(c[f].requests, Requests)
             l == Pick(c[f].limits, Requests \cup {"nvidia.com/gpu"})
  <2>2. v = [requests |-> a, limits |-> l]
    BY <1>4, <1>9 DEF BuildResources
  <2>3. /\ IsFunction(a) /\ DOMAIN a \subseteq Requests
        /\ IsFunction(l) /\ DOMAIN l \subseteq Requests \cup {"nvidia.com/gpu"}
    BY PickWithin
  <2> HIDE DEF a, l
  <2>4. v.requests = a /\ v.limits = l
    BY <2>2
  <2>5. SayableResources(v)
    BY <2>3, <2>4 DEF SayableResources
  <2> QED
    BY <1>9, <2>1, <2>2, <2>3, <2>4, <2>5 DEF b, v
<1>10. CASE f = "ports"
  <2>1. f \notin Commands /\ f \notin Probes
    BY <1>0, <1>10
  <2>2. v = [i \in DOMAIN c[f] |-> BuildPort(c[f][i])] /\ IsList(c[f])
    BY <1>4, <1>5, <1>10
  <2>3. DOMAIN v = DOMAIN c[f]
        /\ \A i \in DOMAIN v : IsFunction(v[i]) /\ SayablePort(v[i])
    BY <2>2, WrittenPort
  <2>4. IsList(v)
    <3>1. DOMAIN c[f] = 1..Len(c[f]) /\ Len(c[f]) \in Nat
      BY <2>2, ListIsSeq DEF IsList
    <3>2. v = [i \in 1..Len(c[f]) |-> v[i]]
      BY <2>2, <3>1
    <3> QED
      BY <3>1, <3>2, MappedList
  <2> QED
    BY <1>10, <2>1, <2>3, <2>4 DEF b, v
<1>11. CASE f = "volumeMounts"
  <2>1. f \notin Commands /\ f \notin Probes
    BY <1>0, <1>11
  <2>2. v = [i \in DOMAIN c[f] |-> BuildMount(c[f][i])] /\ IsList(c[f])
    BY <1>4, <1>5, <1>11
  <2>5. \A m : IsFunction(BuildMount(m))
               /\ DOMAIN BuildMount(m) \subseteq {"name", "mountPath", "subPath", "readOnly"}
    BY PickIsFunction DEF BuildMount
  <2>3. DOMAIN v = DOMAIN c[f]
        /\ \A i \in DOMAIN v : IsFunction(v[i])
              /\ DOMAIN v[i] \subseteq {"name", "mountPath", "subPath", "readOnly"}
    BY <2>2, <2>5
  <2>4. IsList(v)
    <3>1. DOMAIN c[f] = 1..Len(c[f]) /\ Len(c[f]) \in Nat
      BY <2>2, ListIsSeq DEF IsList
    <3>2. v = [i \in 1..Len(c[f]) |-> v[i]]
      BY <2>2, <3>1
    <3> QED
      BY <3>1, <3>2, MappedList
  <2> QED
    BY <1>11, <2>1, <2>3, <2>4 DEF b, v
<1>12. CASE f \notin Commands \cup Probes
            /\ f \notin {"lifecycle", "resources", "ports", "volumeMounts"}
  BY <1>12 DEF b, v
<1> QED
  BY <1>6, <1>7, <1>8, <1>9, <1>10, <1>11, <1>12

(* a container,                                                            *)
LEMMA WrittenContainer ==
    ASSUME NEW fields \in {ContainerFields, InitContainerFields}, NEW c, FormContainer(c, fields)
    PROVE  LET b == buildContainerSpec(c)
           IN DocContainer(b) /\ (~BlankProbe(b) => SayableContainer(b, fields))
<1> DEFINE b == buildContainerSpec(c)
<1>1. IsFunction(b) /\ DOMAIN b = WrittenFields(c) \cup {"image"}
  BY DEF buildContainerSpec, IsFunction
<1>2. WrittenFields(c) \subseteq DOMAIN c /\ DOMAIN c \subseteq fields /\ "name" \in DOMAIN c
  BY DEF WrittenFields, FormContainer
<1>3. "name" \in WrittenFields(c)
  BY <1>2 DEF WrittenFields, Commands, Probes
<1>4. "image" \in fields
  BY DEF ContainerFields, InitContainerFields
<1>5. DOMAIN b \subseteq fields /\ {"name", "image"} \subseteq DOMAIN b
  BY <1>1, <1>2, <1>3, <1>4
<1>6. b["image"] # ""
  <2>1. b["image"] = Image(c)
    BY DEF buildContainerSpec, Commands, Probes
  <2> QED
    BY <2>1 DEF Image
<1>7. DocContainer(b)
  <2>1. \A f \in DOMAIN b :
          CASE f \in Commands -> IsCommand(b[f])
            [] f \in Probes -> DocProbe(b[f])
            [] f = "lifecycle" -> DocHooks(b[f])
            [] f = "resources" ->
                  /\ b[f] = [requests |-> b[f].requests, limits |-> b[f].limits]
                  /\ IsFunction(b[f].requests) /\ IsFunction(b[f].limits)
            [] f \in {"ports", "volumeMounts"} ->
                  IsList(b[f]) /\ \A i \in DOMAIN b[f] : IsFunction(b[f][i])
            [] OTHER -> TRUE
    BY WrittenContainerField
  <2> HIDE DEF b
  <2> QED
    BY <1>1, <1>5, <2>1 DEF DocContainer
<1>8. ASSUME ~BlankProbe(b)
      PROVE  SayableContainer(b, fields)
  <2>1. \A f \in DOMAIN b : ~(f \in Probes /\ b[f].type = "exec" /\ b[f].command = <<>>)
    <3> HIDE DEF b
    <3> QED
      BY <1>8 DEF BlankProbe
  <2>2. \A f \in DOMAIN b :
          CASE f \in Commands -> SayableCommand(b[f])
                      [] f \in Probes -> SayableProbe(b[f])
                      [] f = "lifecycle" -> SayableHooks(b[f])
                      [] f = "resources" -> SayableResources(b[f])
                      [] f = "ports" -> \A i \in DOMAIN b[f] : SayablePort(b[f][i])
                      [] f = "volumeMounts" -> \A i \in DOMAIN b[f] :
                            DOMAIN b[f][i] \subseteq {"name", "mountPath", "subPath", "readOnly"}
                      [] OTHER -> TRUE
    BY <2>1, WrittenContainerField
  <2> HIDE DEF b
  <2> QED
    BY <1>5, <1>6, <2>2 DEF SayableContainer
<1> QED
  BY <1>7, <1>8

(* a list of whatever is written element by element,                       *)
LEMMA WrittenList ==
    ASSUME NEW s, IsList(s), NEW t, t = [i \in DOMAIN s |-> t[i]]
    PROVE  IsList(t) /\ DOMAIN t = DOMAIN s
<1>1. DOMAIN s = 1..Len(s) /\ Len(s) \in Nat
  BY ListIsSeq DEF IsList
<1>2. t = [i \in 1..Len(s) |-> t[i]]
  BY <1>1
<1> QED
  BY <1>1, <1>2, MappedList

(* a field of the Pod,                                                     *)
Unsaid(x, v) ==
    \/ x \in {"containers", "initContainers"} /\ \E i \in DOMAIN v : BlankProbe(v[i])
    \/ x = "tolerations" /\ \E i \in DOMAIN v : "operator" \notin DOMAIN v[i]
    \/ x = "dnsConfig" /\ v # Nothing

(* which the form can say, unless it is one of those,                      *)
LEMMA WrittenField ==
    ASSUME NEW x \in PodFields, NEW value, FormField(x, value)
    PROVE  LET v == WrittenAs(x, value)
           IN DocPodField(x, v) /\ (~Unsaid(x, v) => SayablePodField(x, v))
<1> DEFINE v == WrittenAs(x, value)
<1>0. x \in {"containers", "initContainers", "volumes", "tolerations", "dnsConfig"}
        \/ x \in PlainPodFields \ {"nodeSelector"}
  BY DEF PodFields
<1>1. ASSUME NEW fields \in {ContainerFields, InitContainerFields},
             x \in {"containers", "initContainers"},
             IsList(value), \A i \in DOMAIN value : FormContainer(value[i], fields)
      PROVE  /\ IsList(v) /\ \A i \in DOMAIN v : DocContainer(v[i])
             /\ ~(\E i \in DOMAIN v : BlankProbe(v[i])) =>
                   \A i \in DOMAIN v : SayableContainer(v[i], fields)
  <2>1. v = [i \in DOMAIN value |-> buildContainerSpec(value[i])]
    BY <1>1 DEF WrittenAs
  <2> HIDE DEF v
  <2>2. v = [i \in DOMAIN value |-> v[i]]
    BY <2>1
  <2>3. IsList(v) /\ DOMAIN v = DOMAIN value
    BY <1>1, <2>2, WrittenList
  <2>4. \A i \in DOMAIN v : /\ v[i] = buildContainerSpec(value[i]) /\ FormContainer(value[i], fields)
    BY <1>1, <2>1, <2>3
  <2>5. \A i \in DOMAIN v : DocContainer(v[i])
                              /\ (~BlankProbe(v[i]) => SayableContainer(v[i], fields))
    BY <2>4, WrittenContainer
  <2> QED
    BY <2>3, <2>5
<1>2. CASE x = "containers"
  <2>1. IsList(value) /\ \A i \in DOMAIN value : FormContainer(value[i], ContainerFields)
    BY <1>2 DEF FormField
  <2>2. /\ IsList(v) /\ \A i \in DOMAIN v : DocContainer(v[i])
        /\ ~(\E i \in DOMAIN v : BlankProbe(v[i])) =>
              \A i \in DOMAIN v : SayableContainer(v[i], ContainerFields)
    BY <1>1, <1>2, <2>1
  <2> HIDE DEF v
  <2> QED
    BY <1>2, <2>2 DEF DocPodField, SayablePodField, Unsaid, v
<1>3. CASE x = "initContainers"
  <2>1. IsList(value) /\ \A i \in DOMAIN value : FormContainer(value[i], InitContainerFields)
    BY <1>3 DEF FormField
  <2>2. /\ IsList(v) /\ \A i \in DOMAIN v : DocContainer(v[i])
        /\ ~(\E i \in DOMAIN v : BlankProbe(v[i])) =>
              \A i \in DOMAIN v : SayableContainer(v[i], InitContainerFields)
    BY <1>1, <1>3, <2>1
  <2> HIDE DEF v
  <2> QED
    BY <1>3, <2>2 DEF DocPodField, SayablePodField, Unsaid, v
<1>4. CASE x = "volumes"
  <2>1. IsList(value) /\ \A i \in DOMAIN value :
                            IsVolume(value[i]) /\ value[i].type \in VolumeTypes
    BY <1>4 DEF FormField
  <2>2. v = [i \in DOMAIN value |-> buildVolumeSpec(value[i])]
    BY <1>4 DEF WrittenAs
  <2> HIDE DEF v
  <2>3. v = [i \in DOMAIN value |-> v[i]]
    BY <2>2
  <2>4. IsList(v) /\ DOMAIN v = DOMAIN value
    BY <2>1, <2>3, WrittenList
  <2>5. ASSUME NEW w, IsVolume(w), w.type \in VolumeTypes
        PROVE  IsVolume(buildVolumeSpec(w)) /\ SayableVolume(buildVolumeSpec(w))
    <3>1. CASE w.type = "emptyDir"
      BY <2>5, <3>1 DEF buildVolumeSpec, SayableVolume
    <3>2. CASE w.type # "emptyDir"
      <4> DEFINE c == Pick(w.config, VolumeFields[w.type])
                 named == [f \in {VolumeName[w.type]} |-> ""]
                 o == Override(named, c)
      <4>1. IsFunction(c) /\ DOMAIN c \subseteq VolumeFields[w.type]
        BY PickWithin
      <4>2. VolumeName[w.type] \in VolumeFields[w.type]
        BY <2>5, <3>2 DEF VolumeName, VolumeFields, VolumeTypes
      <4>3. DOMAIN named = {VolumeName[w.type]}
        OBVIOUS
      <4>4. buildVolumeSpec(w) = [w EXCEPT !.config = o]
        BY <3>2 DEF buildVolumeSpec
      <4>5. w = [name |-> w.name, type |-> w.type, config |-> w.config]
        BY <2>5 DEF IsVolume
      <4> HIDE DEF c, named
      <4>6. IsFunction(o) /\ DOMAIN o = DOMAIN named \cup DOMAIN c
        BY OverrideIs
      <4> HIDE DEF o
      <4>7. IsFunction(o) /\ VolumeName[w.type] \in DOMAIN o /\ DOMAIN o \subseteq VolumeFields[w.type]
        BY <4>1, <4>2, <4>3, <4>6
      <4>8. buildVolumeSpec(w) = [name |-> w.name, type |-> w.type, config |-> o]
        BY <4>4, <4>5
      <4> QED
        BY <2>5, <4>7, <4>8 DEF IsVolume, SayableVolume
    <3> QED
      BY <3>1, <3>2
  <2>6. \A i \in DOMAIN v : IsVolume(v[i]) /\ SayableVolume(v[i])
    BY <2>1, <2>2, <2>4, <2>5
  <2> QED
    BY <1>4, <2>4, <2>6 DEF DocPodField, SayablePodField, v
<1>5. CASE x = "tolerations"
  <2>1. IsList(value)
    BY <1>5 DEF FormField
  <2>2. v = [i \in DOMAIN value |-> BuildToleration(value[i])]
    BY <1>5 DEF WrittenAs
  <2> HIDE DEF v
  <2>3. v = [i \in DOMAIN value |-> v[i]]
    BY <2>2
  <2>4. IsList(v) /\ DOMAIN v = DOMAIN value
    BY <2>1, <2>3, WrittenList
  <2>5. \A w : IsFunction(BuildToleration(w)) /\ DOMAIN BuildToleration(w) \subseteq TolerationFields
    BY PickWithin DEF BuildToleration
  <2>6. \A i \in DOMAIN v : IsFunction(v[i]) /\ DOMAIN v[i] \subseteq TolerationFields
    BY <2>2, <2>4, <2>5
  <2> QED
    BY <1>5, <2>4, <2>6 DEF DocPodField, SayablePodField, SayableToleration, Unsaid, v
<1>6. CASE x = "dnsConfig"
  <2>1. v = BuildDns(value)
    BY <1>6 DEF WrittenAs
  <2>2. IsFunction(v)
    BY <2>1 DEF BuildDns, IsFunction
  <2> HIDE DEF v
  <2> QED
    BY <1>6, <2>2 DEF DocPodField, SayablePodField, Unsaid, v
<1>7. CASE x \in PlainPodFields \ {"nodeSelector"}
  <2>1. x \notin {"containers", "initContainers", "volumes", "tolerations", "dnsConfig",
                  "affinity", "restartPolicy"}
    BY <1>7 DEF PlainPodFields
  <2>2. DocPodField(x, v)
    BY <2>1 DEF DocPodField
  <2>3. SayablePodField(x, v)
    BY <1>7, <2>1 DEF SayablePodField
  <2> QED
    BY <2>2, <2>3
<1> QED
  BY <1>0, <1>2, <1>3, <1>4, <1>5, <1>6, <1>7

(* the rules: an expression,                                               *)
LEMMA WrittenExpression ==
    ASSUME NEW e
    PROVE  /\ Parsed(e) = [key |-> Parsed(e).key, operator |-> Parsed(e).operator,
                           values |-> Parsed(e).values]
           /\ Blank \notin Parsed(e).values
<1>1. Parsed(e) = [key |-> e.key, operator |-> e.operator, values |-> parseCommaString(e.values)]
  BY DEF Parsed
<1>2. Blank \notin parseCommaString(e.values)
  BY DEF parseCommaString
<1> QED
  BY <1>1, <1>2

(* a term about Pods,                                                      *)
LEMMA WrittenPodTerm ==
    ASSUME NEW r
    PROVE  DocPodTerm(PodTerm(r)) /\ SayablePodTerm(PodTerm(r))
<1> DEFINE t == PodTerm(r)
           x == Parsed(r.expression)
           none == [k \in {} |-> Blank]
<1>1. t = [topologyKey |-> r.topologyKey, expressions |-> {x}, labels |-> none, namespaces |-> {}]
  BY DEF PodTerm
<1>2. x = [key |-> x.key, operator |-> x.operator, values |-> x.values] /\ Blank \notin x.values
  BY WrittenExpression
<1>3. IsFunction(none) /\ DOMAIN none = {}
  BY DEF IsFunction
<1> HIDE DEF t, x, none
<1>4. t.topologyKey = r.topologyKey /\ t.expressions = {x} /\ t.labels = none /\ t.namespaces = {}
  BY <1>1
<1>5. DocPodTerm(t)
  BY <1>1, <1>2, <1>3, <1>4 DEF DocPodTerm
<1>6. SayablePodTerm(t)
  BY <1>2, <1>3, <1>4 DEF SayablePodTerm, One, NoBlanks
<1> QED
  BY <1>5, <1>6 DEF t

(* a term about nodes,                                                     *)
LEMMA WrittenNodeTerm ==
    ASSUME NEW S, \A e \in S : \E r : e = Parsed(r)
    PROVE  LET t == NodeTerm(S)
           IN DocNodeTerm(t) /\ t.expressions = S /\ t.fields = {} /\ NoBlanks(S)
<1> DEFINE t == NodeTerm(S)
<1>1. t = [expressions |-> S, fields |-> {}]
  BY DEF NodeTerm
<1>2. \A e \in S : e = [key |-> e.key, operator |-> e.operator, values |-> e.values]
                     /\ Blank \notin e.values
  BY WrittenExpression
<1> HIDE DEF t
<1>3. t.expressions = S /\ t.fields = {}
  BY <1>1
<1>4. DocNodeTerm(t)
  BY <1>1, <1>2, <1>3 DEF DocNodeTerm
<1> QED
  BY <1>2, <1>3, <1>4 DEF NoBlanks, t

(* a rule with its rows,                                                   *)
LEMMA WrittenRule ==
    ASSUME NEW rule \in Rules, NEW rows, rows # {}
    PROVE  LET terms == TermsOf(rule, rows)
           IN /\ terms # {} /\ \A t \in terms : DocTerm(rule, t) /\ SayableTerm(rule, t)
              /\ rule = "nodeAffinityRequired" => One(terms)
<1> DEFINE terms == TermsOf(rule, rows)
<1>1. CASE rule = "nodeAffinityRequired"
  <2> DEFINE S == {Parsed(e) : e \in rows}
             t == NodeTerm(S)
  <2>1. terms = {t}
    BY <1>1 DEF TermsOf, NodeTerms, PodRules, Weighted
  <2>2. DocNodeTerm(t) /\ t.expressions = S /\ t.fields = {} /\ NoBlanks(S)
    <3>1. \A e \in S : \E r : e = Parsed(r)
      OBVIOUS
    <3> HIDE DEF S
    <3> QED
      BY <3>1, WrittenNodeTerm
  <2>3. S # {}
    OBVIOUS
  <2> HIDE DEF t, S, terms
  <2>4. DocTerm(rule, t) /\ SayableTerm(rule, t)
    BY <1>1, <2>2, <2>3 DEF DocTerm, SayableTerm, PodRules, Weighted
  <2> QED
    BY <1>1, <2>1, <2>4 DEF One, terms
<1>2. CASE rule = "nodeAffinityPreferred"
  <2> DEFINE back(r) == [weight |-> r.weight, preference |-> NodeTerm({Parsed(r.expression)})]
  <2>1. terms = {back(r) : r \in rows}
    BY <1>2 DEF TermsOf, PreferredTerms, PodRules, Weighted
  <2>2. ASSUME NEW r PROVE DocTerm(rule, back(r)) /\ SayableTerm(rule, back(r))
    <3> DEFINE x == Parsed(r.expression)
               p == NodeTerm({x})
               t == back(r)
    <3>1. DocNodeTerm(p) /\ p.expressions = {x} /\ p.fields = {} /\ NoBlanks({x})
      BY WrittenNodeTerm
    <3>2. t = [weight |-> r.weight, preference |-> p]
      OBVIOUS
    <3> HIDE DEF x, p, t
    <3>3. t.weight = r.weight /\ t.preference = p
      BY <3>2
    <3>4. DocTerm(rule, t) /\ SayableTerm(rule, t)
      BY <1>2, <3>1, <3>2, <3>3 DEF DocTerm, SayableTerm, PodRules, Weighted, One
    <3> QED
      BY <3>4 DEF t
  <2> HIDE DEF back, terms
  <2> QED
    BY <1>2, <2>1, <2>2 DEF terms
<1>3. CASE rule \in PodRules \ Weighted
  <2>0. rule \notin NodeRules
    BY <1>3 DEF PodRules, NodeRules
  <2>1. terms = {PodTerm(r) : r \in rows}
    BY <1>3, <2>0 DEF TermsOf, PodTerms, NodeRules
  <2>2. \A t : DocTerm(rule, t) <=> DocPodTerm(t)
    BY <1>3, <2>0 DEF DocTerm, NodeRules
  <2>3. \A t : SayableTerm(rule, t) <=> SayablePodTerm(t)
    BY <1>3, <2>0 DEF SayableTerm, NodeRules
  <2> HIDE DEF terms
  <2>4. terms # {} /\ \A t \in terms : DocTerm(rule, t) /\ SayableTerm(rule, t)
    BY <2>1, <2>2, <2>3, WrittenPodTerm
  <2> QED
    BY <2>0, <2>4 DEF NodeRules, terms
<1>4. CASE rule \in PodRules \cap Weighted
  <2> DEFINE back(r) == [weight |-> r.weight, term |-> PodTerm(r)]
  <2>0. rule \notin NodeRules
    BY <1>4 DEF PodRules, NodeRules
  <2>1. terms = {back(r) : r \in rows}
    BY <1>4, <2>0 DEF TermsOf, WeightedPodTerms, NodeRules
  <2>2. ASSUME NEW r PROVE DocTerm(rule, back(r)) /\ SayableTerm(rule, back(r))
    <3> DEFINE p == PodTerm(r)
               t == back(r)
    <3>1. DocPodTerm(p) /\ SayablePodTerm(p)
      BY WrittenPodTerm
    <3>2. t = [weight |-> r.weight, term |-> p]
      OBVIOUS
    <3> HIDE DEF p, t
    <3>3. t.weight = r.weight /\ t.term = p
      BY <3>2
    <3>4. DocTerm(rule, t)
      BY <1>4, <2>0, <3>1, <3>2, <3>3 DEF DocTerm, NodeRules
    <3>5. SayableTerm(rule, t)
      BY <1>4, <2>0, <3>1, <3>3 DEF SayableTerm, NodeRules
    <3> QED
      BY <3>4, <3>5 DEF t
  <2> HIDE DEF back, terms
  <2>3. terms # {} /\ \A t \in terms : DocTerm(rule, t) /\ SayableTerm(rule, t)
    BY <2>1, <2>2
  <2> QED
    BY <2>0, <2>3 DEF NodeRules, terms
<1> QED
  BY <1>1, <1>2, <1>3, <1>4 DEF Rules, NodeRules

(* all rules together,                                                     *)
LEMMA WrittenAffinity ==
    ASSUME NEW s, DOMAIN s \subseteq Rules
    PROVE  LET a == buildScheduling(s)
           IN DocAffinity(a) /\ (a # Nothing => SayableAffinity(a))
<1> DEFINE a == buildScheduling(s)
<1>1. /\ DOMAIN a = {rule \in DOMAIN s : s[rule] # {}} /\ IsFunction(a)
      /\ \A rule \in DOMAIN a : a[rule] = TermsOf(rule, s[rule])
  BY DEF buildScheduling, NonEmpty, IsFunction
<1> HIDE DEF a
<1>2. \A rule \in DOMAIN a :
        /\ rule \in Rules /\ a[rule] # {}
        /\ \A t \in a[rule] : DocTerm(rule, t) /\ SayableTerm(rule, t)
        /\ rule = "nodeAffinityRequired" => One(a[rule])
  BY <1>1, WrittenRule
<1> QED
  BY <1>1, <1>2 DEF DocAffinity, SayableAffinity, a

(* the strategy of a Deployment,                                           *)
LEMMA WrittenStrategy ==
    ASSUME NEW s, FormField("strategy", s)
    PROVE  DocStrategy(BuildStrategy(s)) /\ SayableStrategy("Deployment", BuildStrategy(s))
<1> DEFINE b == BuildStrategy(s)
<1>0. "rollingUpdate" \in DOMAIN s => IsFunction(s["rollingUpdate"])
  BY DEF FormField
<1>1. CASE Given(s, "type", "") = "RollingUpdate"
  <2>1. b = Pick(s, {"type", "rollingUpdate"})
    BY <1>1 DEF BuildStrategy
  <2> HIDE DEF b
  <2>2. /\ IsFunction(b) /\ DOMAIN b = DOMAIN s \cap {"type", "rollingUpdate"}
        /\ \A x \in DOMAIN b : b[x] = s[x]
    BY <2>1, PickIsFunction
  <2>3. "type" \in DOMAIN b /\ b["type"] = "RollingUpdate"
    BY <1>1, <2>2 DEF Given
  <2> QED
    BY <1>0, <2>2, <2>3 DEF DocStrategy, SayableStrategy, Given, b
<1>2. CASE Given(s, "type", "") # "RollingUpdate"
  <2>1. b = Pick(s, {"type"})
    BY <1>2 DEF BuildStrategy
  <2> HIDE DEF b
  <2>2. IsFunction(b) /\ DOMAIN b \subseteq {"type"}
    BY <2>1, PickWithin
  <2> QED
    BY <2>2 DEF DocStrategy, SayableStrategy, b
<1> QED
  BY <1>1, <1>2

(* the steps of the template,                                              *)
LEMMA DefaultStepsAreSayable ==
    /\ IsList(DefaultSteps) /\ DefaultSteps # <<>>
    /\ \A i \in DOMAIN DefaultSteps :
          /\ IsFunction(DefaultSteps[i]) /\ IsSpelled(DefaultSteps[i])
          /\ \E part \in StepParts : DOMAIN DefaultSteps[i] = {part}
<1>1. Len(DefaultSteps) = 6 /\ DOMAIN DefaultSteps = 1..6 /\ DefaultSteps # <<>>
  BY DEF DefaultSteps
<1>2. DefaultSteps = [i \in 1..6 |-> DefaultSteps[i]]
  BY DEF DefaultSteps
<1>3. \A d : IsFunction(Pause(d)) /\ DOMAIN Pause(d) = {"pause"} /\ IsSpelled(Pause(d))
  <2> SUFFICES ASSUME NEW d
               PROVE  IsFunction(Pause(d)) /\ DOMAIN Pause(d) = {"pause"} /\ IsSpelled(Pause(d))
    OBVIOUS
  <2> DEFINE p == [duration |-> d, quoted |-> TRUE]
  <2>1. IsFunction(Pause(d)) /\ DOMAIN Pause(d) = {"pause"} /\ Pause(d)["pause"] = p
    BY DEF Pause, IsFunction
  <2>2. p.duration = d /\ DOMAIN p # {}
    OBVIOUS
  <2>3. p = normalizePauseDuration(p)
    BY <2>2 DEF normalizePauseDuration, Nothing
  <2> QED
    BY <2>1, <2>3 DEF IsSpelled
<1>4. \A w : /\ IsFunction([setWeight |-> w]) /\ DOMAIN [setWeight |-> w] = {"setWeight"}
             /\ IsSpelled([setWeight |-> w])
  BY DEF IsFunction, IsSpelled
<1>5. ASSUME NEW i \in 1..6
      PROVE  /\ IsFunction(DefaultSteps[i]) /\ IsSpelled(DefaultSteps[i])
             /\ DOMAIN DefaultSteps[i] = {"pause"} \/ DOMAIN DefaultSteps[i] = {"setWeight"}
  <2>1. \/ \E d : DefaultSteps[i] = Pause(d)
        \/ \E w : DefaultSteps[i] = [setWeight |-> w]
    <3> DEFINE weight(w) == [setWeight |-> w]
    <3>1. i = 1 \/ i = 2 \/ i = 3 \/ i = 4 \/ i = 5 \/ i = 6
      OBVIOUS
    <3>2. /\ DefaultSteps[1] = [setWeight |-> 20] /\ DefaultSteps[2] = Pause("10m")
          /\ DefaultSteps[3] = [setWeight |-> 50] /\ DefaultSteps[4] = Pause("10m")
          /\ DefaultSteps[5] = [setWeight |-> 80] /\ DefaultSteps[6] = Pause("10m")
      BY DEF DefaultSteps
    <3>3. /\ DefaultSteps[1] = weight(20) /\ DefaultSteps[3] = weight(50)
          /\ DefaultSteps[5] = weight(80)
      BY <3>2
    <3> HIDE DEF weight
    <3>4. (\E d : DefaultSteps[i] = Pause(d)) \/ (\E w : DefaultSteps[i] = weight(w))
      BY <3>1, <3>2, <3>3
    <3> QED
      BY <3>4 DEF weight
  <2> QED
    BY <2>1, <1>3, <1>4
<1> QED
  BY <1>1, <1>2, <1>5 DEF IsList, StepParts

(* traffic routing,                                                        *)
LEMMA RoutingIs ==
    ASSUME NEW r
    PROVE  /\ IsFunction(Routing(r)) /\ DOMAIN Routing(r) \subseteq DOMAIN r \cap Routers
           /\ "nginx" \in DOMAIN Routing(r) =>
                /\ IsFunction(Routing(r)["nginx"])
                /\ "stableIngress" \in DOMAIN Routing(r)["nginx"]
                /\ DOMAIN Routing(r)["nginx"] \subseteq {"stableIngress", "annotationPrefix"}
           /\ (\A x \in DOMAIN r : IsFunction(r[x])) =>
                \A x \in DOMAIN Routing(r) : IsFunction(Routing(r)[x])
<1> DEFINE q == Routing(r)
<1>1. /\ IsFunction(q) /\ DOMAIN q \subseteq DOMAIN r \cap Routers
      /\ "nginx" \in DOMAIN q => "stableIngress" \in DOMAIN r["nginx"]
                                  /\ q["nginx"] = Nginx(r["nginx"])
      /\ \A x \in DOMAIN q : x # "nginx" => q[x] = r[x]
  BY DEF Routing, IsFunction
<1>2. /\ IsFunction(Nginx(r["nginx"]))
      /\ DOMAIN Nginx(r["nginx"]) = DOMAIN r["nginx"] \cap {"stableIngress", "annotationPrefix"}
  BY PickIsFunction DEF Nginx
<1> HIDE DEF q
<1>3. "nginx" \in DOMAIN q =>
         /\ IsFunction(q["nginx"]) /\ "stableIngress" \in DOMAIN q["nginx"]
         /\ DOMAIN q["nginx"] \subseteq {"stableIngress", "annotationPrefix"}
  BY <1>1, <1>2
<1>4. (\A x \in DOMAIN r : IsFunction(r[x])) => \A x \in DOMAIN q : IsFunction(q[x])
  BY <1>1, <1>3
<1> QED
  BY <1>1, <1>3, <1>4 DEF q

(* objects in a strategy,                                                  *)
LEMMA PickHasSettings ==
    ASSUME NEW c, HasSettings(c), NEW S
    PROVE  HasSettings(Pick(c, S))
<1> DEFINE p == Pick(c, S)
<1>1. DOMAIN p = DOMAIN c \cap S /\ \A x \in DOMAIN p : p[x] = c[x]
  BY DEF Pick
<1> HIDE DEF p
<1>2. HasSettings(p)
  BY <1>1 DEF HasSettings
<1> QED
  BY <1>2 DEF p

(* a canary,                                                               *)
LEMMA WrittenCanary ==
    ASSUME NEW p, HasSettings(p), IsList(Given(p, "steps", <<>>)),
           \A i \in DOMAIN Given(p, "steps", <<>>) : IsSpelled(Given(p, "steps", <<>>)[i]),
           NEW b, buildCanaryStrategy(p) = [canary |-> b]
    PROVE  DocCanary(b) /\ SayableCanary(b)
<1> DEFINE raw == RawSteps(Given(p, "steps", <<>>))
           routing == Routing(Given(p, "trafficRouting", Nothing))
<1>1. PICK c : /\ buildCanaryStrategy(p) = [canary |-> c] /\ IsFunction(c)
               /\ DOMAIN c =
                    (DOMAIN p \cap (CanaryFields \ (Zeros(p) \cup {"trafficRouting"})))
                    \cup {x \in {"steps"} : DOMAIN raw # {}}
                    \cup {x \in {"trafficRouting"} : DOMAIN routing # {}}
               /\ "steps" \in DOMAIN c => c["steps"] = raw
               /\ "trafficRouting" \in DOMAIN c => c["trafficRouting"] = routing
               /\ \A x \in DOMAIN c \ {"steps", "trafficRouting"} : c[x] = p[x]
  BY BuiltCanaryIs
<1>2. b = c
  <2>1. [canary |-> b]["canary"] = [canary |-> c]["canary"]
    BY <1>1
  <2> QED
    BY <2>1
<1>3. /\ IsList(raw)
      /\ \A i \in DOMAIN raw :
            /\ IsFunction(raw[i]) /\ IsSpelled(raw[i])
            /\ \E part \in StepParts : DOMAIN raw[i] = {part}
  BY RawStepsAreSayable
<1>4. /\ IsFunction(routing) /\ DOMAIN routing \subseteq Routers
      /\ "nginx" \in DOMAIN routing =>
                /\ IsFunction(routing["nginx"])
                /\ "stableIngress" \in DOMAIN routing["nginx"]
                /\ DOMAIN routing["nginx"] \subseteq {"stableIngress", "annotationPrefix"}
  BY RoutingIs
<1>13. \A x \in DOMAIN routing : IsFunction(routing[x])
  <2> DEFINE r == Given(p, "trafficRouting", Nothing)
  <2>1. \A x \in DOMAIN r : IsFunction(r[x])
    BY NothingIs DEF HasSettings, Given
  <2> HIDE DEF r
  <2>2. \A x \in DOMAIN Routing(r) : IsFunction(Routing(r)[x])
    BY <2>1, RoutingIs
  <2> QED
    BY <2>2 DEF r
<1> HIDE DEF raw, routing
<1>5. CanaryFields \subseteq CanaryFields \cup {"steps"} /\ "trafficRouting" \in CanaryFields
      /\ {"maxSurge", "maxUnavailable"} \cap {"steps", "trafficRouting"} = {}
  BY DEF CanaryFields
<1>6. DOMAIN c \subseteq CanaryFields \cup {"steps"}
  BY <1>1, <1>5
<1>7. Zeros(c) = {}
  <2> SUFFICES ASSUME NEW x \in DOMAIN c \cap {"maxSurge", "maxUnavailable"}, c[x] = 0
               PROVE  FALSE
    BY DEF Zeros
  <2>1. x \in DOMAIN p /\ x \notin Zeros(p) /\ c[x] = p[x]
    BY <1>1, <1>5
  <2> QED
    BY <2>1 DEF Zeros
<1>8. "steps" \in DOMAIN c => raw # <<>> /\ c["steps"] = raw
  <2>1. "steps" \in DOMAIN c => DOMAIN raw # {}
    BY <1>1 DEF CanaryFields
  <2> QED
    BY <1>1, <2>1
<1>9. "trafficRouting" \in DOMAIN c => DOMAIN routing # {} /\ c["trafficRouting"] = routing
  BY <1>1
<1>14. HasSettings(c)
  <2>1. "steps" \notin Settings /\ "trafficRouting" \notin Settings
    BY DEF Settings
  <2>2. \A x \in DOMAIN c \cap Settings : x \in DOMAIN p /\ c[x] = p[x]
    BY <1>1, <2>1
  <2>3. \A x \in DOMAIN c \cap Settings : IsFunction(c[x])
    BY <2>2 DEF HasSettings
  <2> QED
    BY <1>4, <1>9, <1>13, <2>3 DEF HasSettings
<1>10. DocCanary(c)
  BY <1>1, <1>3, <1>8, <1>14 DEF DocCanary
<1>11. DOMAIN routing # {} => SayableRouting(routing)
  BY <1>4, NothingIs DEF SayableRouting
<1>12. SayableCanary(c)
  BY <1>3, <1>6, <1>7, <1>8, <1>9, <1>11 DEF SayableCanary
<1> QED
  BY <1>2, <1>10, <1>12

(* and the strategy of a Rollout, whichever it is.                         *)
LEMMA WrittenRolloutStrategy ==
    ASSUME NEW f, "rolloutStrategy" \in DOMAIN f => FormField("rolloutStrategy", f["rolloutStrategy"])
    PROVE  LET s == buildRolloutStrategy(f)
           IN DocStrategy(s) /\ SayableStrategy("Rollout", s)
<1> DEFINE s == buildRolloutStrategy(f)
           r == f["rolloutStrategy"]
<1>1. ASSUME NEW b, DocCanary(b), SayableCanary(b)
      PROVE  DocStrategy([canary |-> b]) /\ SayableStrategy("Rollout", [canary |-> b])
  <2> DEFINE t == [canary |-> b]
  <2>1. IsFunction(t) /\ DOMAIN t = {"canary"} /\ t["canary"] = b
    BY DEF IsFunction
  <2> HIDE DEF t
  <2> QED
    BY <1>1, <2>1 DEF DocStrategy, SayableStrategy, t
<1>2. ASSUME NEW g, IsFunction(g), HasSettings(g), "activeService" \in DOMAIN g,
             DOMAIN g \subseteq BlueGreenFields
      PROVE  DocStrategy([blueGreen |-> g]) /\ SayableStrategy("Rollout", [blueGreen |-> g])
  <2> DEFINE t == [blueGreen |-> g]
  <2>1. IsFunction(t) /\ DOMAIN t = {"blueGreen"} /\ t["blueGreen"] = g
    BY DEF IsFunction
  <2> HIDE DEF t
  <2> QED
    BY <1>2, <2>1 DEF DocStrategy, SayableStrategy, t
<1>3. DocStrategy(DefaultCanary) /\ SayableStrategy("Rollout", DefaultCanary)
  <2> DEFINE b == [steps |-> DefaultSteps]
  <2>1. IsFunction(b) /\ DOMAIN b = {"steps"} /\ b["steps"] = DefaultSteps
    BY DEF IsFunction
  <2> HIDE DEF b
  <2>2. Zeros(b) = {}
    BY <2>1 DEF Zeros
  <2>3. DocCanary(b) /\ SayableCanary(b)
    BY <2>1, <2>2, DefaultStepsAreSayable
       DEF DocCanary, HasSettings, Settings, SayableCanary
  <2> QED
    BY <2>3, <1>1 DEF DefaultCanary, b
<1>4. DocStrategy(DefaultBlueGreen) /\ SayableStrategy("Rollout", DefaultBlueGreen)
  <2> DEFINE g == [activeService |-> "my-app-active", previewService |-> "my-app-preview",
                   autoPromotionEnabled |-> FALSE]
  <2>1. IsFunction(g) /\ DOMAIN g = {"activeService", "previewService", "autoPromotionEnabled"}
    BY DEF IsFunction
  <2>2. DefaultBlueGreen = [blueGreen |-> g]
    BY DEF DefaultBlueGreen
  <2> HIDE DEF g
  <2>3. HasSettings(g)
    BY <2>1 DEF HasSettings, Settings
  <2> QED
    BY <1>2, <2>1, <2>2, <2>3 DEF BlueGreenFields
<1>5. \/ s = DefaultCanary \/ s = DefaultBlueGreen
      \/ "rolloutStrategy" \in DOMAIN f /\ "blueGreen" \in DOMAIN r
           /\ s = buildBlueGreenStrategy(r["blueGreen"])
      \/ "rolloutStrategy" \in DOMAIN f /\ "canary" \in DOMAIN r
           /\ s = buildCanaryStrategy(r["canary"])
  BY DEF buildRolloutStrategy
<1>6. ASSUME NEW g
      PROVE  \/ buildBlueGreenStrategy(g) = DefaultBlueGreen
             \/ /\ "activeService" \in DOMAIN g
                /\ buildBlueGreenStrategy(g) = [blueGreen |-> Pick(g, BlueGreenFields)]
  <2>1. CASE "activeService" \in DOMAIN g
    BY <2>1 DEF buildBlueGreenStrategy
  <2>2. CASE "activeService" \notin DOMAIN g
    <3>1. buildBlueGreenStrategy(g) = DefaultBlueGreen
      BY <2>2, Zenon DEF buildBlueGreenStrategy
    <3> QED
      BY <3>1, Zenon
  <2> QED
    BY <2>1, <2>2, Zenon
<1>7. ASSUME NEW g, "activeService" \in DOMAIN g
      PROVE  /\ IsFunction(Pick(g, BlueGreenFields))
             /\ "activeService" \in DOMAIN Pick(g, BlueGreenFields)
             /\ DOMAIN Pick(g, BlueGreenFields) \subseteq BlueGreenFields
  <2>1. "activeService" \in BlueGreenFields
    BY DEF BlueGreenFields
  <2> DEFINE h == Pick(g, BlueGreenFields)
  <2>2. h = Pick(g, BlueGreenFields)
    OBVIOUS
  <2> HIDE DEF h
  <2>3. IsFunction(h) /\ DOMAIN h = DOMAIN g \cap BlueGreenFields
    BY <2>2, PickIsFunction
  <2> QED
    BY <1>7, <2>1, <2>2, <2>3
<1>8. ASSUME "rolloutStrategy" \in DOMAIN f, "canary" \in DOMAIN r,
             s = buildCanaryStrategy(r["canary"])
      PROVE  DocStrategy(s) /\ SayableStrategy("Rollout", s)
  <2>1. /\ IsList(Given(r["canary"], "steps", <<>>)) /\ HasSettings(r["canary"])
        /\ \A i \in DOMAIN Given(r["canary"], "steps", <<>>) :
              IsSpelled(Given(r["canary"], "steps", <<>>)[i])
    BY <1>8 DEF FormField
  <2>2. PICK b : buildCanaryStrategy(r["canary"]) = [canary |-> b]
    BY DEF buildCanaryStrategy
  <2>3. DocCanary(b) /\ SayableCanary(b)
    BY <2>1, <2>2, WrittenCanary
  <2> QED
    BY <1>1, <1>8, <2>2, <2>3
<1>10. "rolloutStrategy" \in DOMAIN f /\ "blueGreen" \in DOMAIN r
         => HasSettings(Pick(r["blueGreen"], BlueGreenFields))
  BY PickHasSettings DEF FormField
<1> HIDE DEF s, r
<1>9. "rolloutStrategy" \in DOMAIN f /\ "blueGreen" \in DOMAIN r
        /\ s = buildBlueGreenStrategy(r["blueGreen"])
      => DocStrategy(s) /\ SayableStrategy("Rollout", s)
  BY <1>2, <1>4, <1>6, <1>7, <1>10
<1> QED
  BY <1>3, <1>4, <1>5, <1>8, <1>9 DEF s

(* Of labels and annotations those with a value are kept,                  *)
LEMMA KeptIs ==
    ASSUME NEW pairs
    PROVE  /\ IsFunction(Kept(pairs)) /\ DOMAIN Kept(pairs) \subseteq DOMAIN pairs
           /\ \A k \in DOMAIN Kept(pairs) : Kept(pairs)[k] # ""
  BY DEF Kept, IsFunction

(* and if all have one, all are.                                           *)
LEMMA AllKept ==
    ASSUME NEW g, IsFunction(g), \A k \in DOMAIN g : g[k] # ""
    PROVE  Kept(g) = g
<1> DEFINE h == Kept(g)
<1>1. IsFunction(h) /\ DOMAIN h = DOMAIN g /\ \A k \in DOMAIN h : h[k] = g[k]
  BY DEF Kept, IsFunction
<1> HIDE DEF h
<1> QED
  BY <1>1, SameFunction DEF h

(* So the name, the labels and the annotations of a text have values.      *)
LEMMA WrittenMeta ==
    ASSUME NEW f
    PROVE  LET notes == Override(Kept(Pick(f, {"description"})),
                                 Kept(Given(f, "annotations", Nothing)))
           IN /\ GivenText(f, "name", "example") # ""
              /\ BuildLabels(f) # Nothing /\ Kept(BuildLabels(f)) = BuildLabels(f)
              /\ Kept(notes) = notes
<1>1. ASSUME NEW d, d # "" PROVE GivenText(f, "name", d) # ""
  BY <1>1 DEF GivenText, Given
<1>2. BuildLabels(f) # Nothing /\ Kept(BuildLabels(f)) = BuildLabels(f)
  <2> DEFINE labels == Kept(Given(f, "labels", Nothing))
             t == GivenText(f, "name", "app")
             app == [app |-> t]
  <2>1. IsFunction(labels) /\ \A k \in DOMAIN labels : labels[k] # ""
    BY KeptIs
  <2>2. t # ""
    BY <1>1
  <2> HIDE DEF labels, t
  <2>3. IsFunction(app) /\ DOMAIN app = {"app"} /\ app["app"] = t
    BY DEF IsFunction
  <2>4. BuildLabels(f) = IF labels = Nothing THEN app ELSE labels
    BY DEF BuildLabels, labels, t
  <2> HIDE DEF app
  <2>5. app # Nothing /\ Kept(app) = app
    BY <2>2, <2>3, AllKept, NothingIs
  <2>6. Kept(labels) = labels
    BY <2>1, AllKept
  <2> QED
    BY <2>4, <2>5, <2>6
<1>3. ASSUME NEW a, NEW b
      PROVE  Kept(Override(Kept(a), Kept(b))) = Override(Kept(a), Kept(b))
  <2> DEFINE p == Kept(a)
             q == Kept(b)
             o == Override(p, q)
  <2>1. /\ \A k \in DOMAIN p : p[k] # ""
        /\ \A k \in DOMAIN q : q[k] # ""
    BY KeptIs
  <2> HIDE DEF p, q
  <2>2. /\ IsFunction(o) /\ DOMAIN o = DOMAIN p \cup DOMAIN q
        /\ \A x \in DOMAIN q : o[x] = q[x]
        /\ \A x \in DOMAIN p \ DOMAIN q : o[x] = p[x]
    BY OverrideIs
  <2> HIDE DEF o
  <2>3. \A k \in DOMAIN o : o[k] # ""
    BY <2>1, <2>2
  <2>4. Kept(o) = o
    BY <2>2, <2>3, AllKept
  <2> QED
    BY <2>4 DEF o, p, q
<1> QED
  BY <1>1, <1>2, <1>3

(* The spec of a text is one the form can say, and so is                   *)
LEMMA WrittenSpec ==
    ASSUME NEW kind \in Kinds, NEW f, IsStore(f)
    PROVE  LET spec == Text(kind, f).spec
           IN /\ IsFunction(spec)
              /\ "strategy" \in DOMAIN spec => DocStrategy(spec["strategy"])
              /\ ~(kind = "StatefulSet" /\ spec["serviceName"] = "") => SayableSpec(kind, spec)
<1> DEFINE spec == Text(kind, f).spec
<1> HIDE DEF spec
<1>1. CASE kind = "Deployment"
  <2>1. /\ IsFunction(spec)
        /\ DOMAIN spec = {"replicas"} \cup (DOMAIN f \cap (Times \cup {"strategy"}))
        /\ "strategy" \in DOMAIN spec => spec["strategy"] = BuildStrategy(f["strategy"])
    BY <1>1, DeploymentText DEF spec
  <2>2. "strategy" \in DOMAIN spec => "strategy" \in DOMAIN f
    BY <2>1
  <2>3. "strategy" \in DOMAIN spec =>
           DocStrategy(spec["strategy"]) /\ SayableStrategy(kind, spec["strategy"])
    BY <1>1, <2>1, <2>2, WrittenStrategy DEF IsStore
  <2>4. DOMAIN spec \cap {"serviceName", "schedule"} = {}
    BY <2>1 DEF Times
  <2>5. SayableSpec(kind, spec)
    BY <1>1, <2>1, <2>3, <2>4 DEF SayableSpec
  <2> QED
    BY <2>1, <2>3, <2>5 DEF spec
<1>2. CASE kind = "Rollout"
  <2>1. /\ IsFunction(spec)
        /\ DOMAIN spec = {"replicas", "strategy"} \cup (DOMAIN f \cap Times)
        /\ spec["strategy"] = buildRolloutStrategy(Pick(f, Copied))
    BY <1>2, RolloutText DEF spec
  <2> DEFINE g == Pick(f, Copied)
  <2>2. "rolloutStrategy" \in Copied
    BY DEF Copied
  <2>3. "rolloutStrategy" \in DOMAIN g =>
           "rolloutStrategy" \in DOMAIN f /\ g["rolloutStrategy"] = f["rolloutStrategy"]
    BY <2>2, CopiedFields
  <2>4. "rolloutStrategy" \in DOMAIN g => FormField("rolloutStrategy", g["rolloutStrategy"])
    BY <2>3 DEF IsStore
  <2> HIDE DEF g
  <2>5. DocStrategy(buildRolloutStrategy(g)) /\ SayableStrategy("Rollout", buildRolloutStrategy(g))
    BY <2>4, WrittenRolloutStrategy
  <2>6. DocStrategy(spec["strategy"]) /\ SayableStrategy(kind, spec["strategy"])
    BY <1>2, <2>1, <2>5 DEF g
  <2>7. DOMAIN spec \cap {"serviceName", "schedule"} = {}
    BY <2>1 DEF Times
  <2>8. SayableSpec(kind, spec)
    BY <1>2, <2>1, <2>6, <2>7 DEF SayableSpec
  <2> QED
    BY <2>1, <2>6, <2>8 DEF spec
<1>3. CASE kind = "StatefulSet"
  <2>1. IsFunction(spec) /\ DOMAIN spec = {"replicas", "serviceName"}
    BY <1>3, StatefulSetText DEF spec
  <2>2. spec["serviceName"] # "" => SayableSpec(kind, spec)
    BY <1>3, <2>1 DEF SayableSpec
  <2> QED
    BY <1>3, <2>1, <2>2 DEF spec
<1>4. CASE kind = "Job"
  <2>1. IsFunction(spec) /\ DOMAIN spec \subseteq parseJobFields \ {"ttlSecondsAfterFinished"}
    BY <1>4, JobText DEF spec
  <2>2. DOMAIN spec \cap {"strategy", "serviceName", "schedule"} = {}
    BY <2>1 DEF parseJobFields
  <2>3. SayableSpec(kind, spec)
    BY <1>4, <2>1, <2>2 DEF SayableSpec
  <2> QED
    BY <2>1, <2>2, <2>3 DEF spec
<1>5. CASE kind = "CronJob"
  <2>0. /\ IsFunction(spec)
        /\ DOMAIN spec = {"schedule"} \cup (DOMAIN f \cap {"suspend", "concurrencyPolicy"})
        /\ spec["schedule"] = GivenText(f, "schedule", "0 0 * * *")
    BY <1>5, CronJobText DEF spec
  <2>1. /\ IsFunction(spec) /\ "schedule" \in DOMAIN spec
        /\ DOMAIN spec \subseteq {"schedule", "suspend", "concurrencyPolicy"}
        /\ spec["schedule"] = GivenText(f, "schedule", "0 0 * * *")
    BY <2>0
  <2>2. spec["schedule"] # ""
    BY <2>1 DEF GivenText, Given
  <2>3. SayableSpec(kind, spec)
    BY <1>5, <2>1, <2>2 DEF SayableSpec
  <2> QED
    BY <2>1, <2>3 DEF spec
<1>6. CASE kind = "DaemonSet"
  <2>1. IsFunction(spec) /\ DOMAIN spec = {}
    BY <1>6, DaemonSetText, NothingIs DEF spec
  <2>2. SayableSpec(kind, spec)
    BY <1>6, <2>1 DEF SayableSpec
  <2> QED
    BY <2>1, <2>2 DEF spec
<1> QED
  BY <1>1, <1>2, <1>3, <1>4, <1>5, <1>6 DEF Kinds

(* its Pod, but for what the form cannot say of it.                        *)
LEMMA WrittenPod ==
    ASSUME NEW kind \in Kinds, NEW f, IsStore(f)
    PROVE  LET pod == Text(kind, f).pod
           IN /\ IsFunction(pod) /\ \A x \in DOMAIN pod : DocPodField(x, pod[x])
              /\ (\A x \in DOMAIN pod : ~Unsaid(x, pod[x])) => SayablePod(kind, pod)
<1> DEFINE pod == Text(kind, f).pod
<1>1. /\ IsFunction(pod)
      /\ DOMAIN pod = (DOMAIN f \cap PodFields)
                              \cup {x \in {"affinity"} : WrittenRules(f) # Nothing}
                              \cup {x \in {"restartPolicy"} : kind \in Jobs}
      /\ \A x \in DOMAIN f \cap PodFields : pod[x] = WrittenAs(x, f[x])
      /\ "affinity" \in DOMAIN pod => pod["affinity"] = WrittenRules(f)
      /\ "restartPolicy" \in DOMAIN pod => pod["restartPolicy"] = "Never"
  BY TextPod
<1> HIDE DEF pod
<1>2. PodFields \cap {"affinity", "restartPolicy"} = {}
  BY DEF PodFields, PlainPodFields
<1>3. ASSUME NEW x \in DOMAIN f \cap PodFields
      PROVE  DocPodField(x, pod[x]) /\ (~Unsaid(x, pod[x]) => SayablePodField(x, pod[x]))
  <2>1. FormField(x, f[x])
    BY DEF IsStore
  <2>2. pod[x] = WrittenAs(x, f[x])
    BY <1>1
  <2> QED
    BY <2>1, <2>2, WrittenField
<1>4. DocAffinity(WrittenRules(f)) /\ (WrittenRules(f) # Nothing => SayableAffinity(WrittenRules(f)))
  <2>1. DOMAIN Given(f, "scheduling", Nothing) \subseteq Rules
    <3>1. CASE "scheduling" \in DOMAIN f
      BY <3>1 DEF IsStore, FormField, Given
    <3>2. CASE "scheduling" \notin DOMAIN f
      BY <3>2, NothingIs DEF Given
    <3> QED
      BY <3>1, <3>2
  <2> QED
    BY <2>1, WrittenAffinity DEF WrittenRules
<1>5. "affinity" \in DOMAIN pod =>
         DocPodField("affinity", pod["affinity"]) /\ SayablePodField("affinity", pod["affinity"])
  <2>1. "affinity" \in DOMAIN pod => WrittenRules(f) # Nothing
    BY <1>1, <1>2
  <2> QED
    BY <1>1, <1>4, <2>1 DEF DocPodField, SayablePodField
<1>6. "restartPolicy" \in DOMAIN pod =>
         DocPodField("restartPolicy", pod["restartPolicy"])
           /\ SayablePodField("restartPolicy", pod["restartPolicy"])
  BY <1>1 DEF DocPodField, SayablePodField
<1>7. "restartPolicy" \in DOMAIN pod <=> kind \in Jobs
  BY <1>1, <1>2
<1>8. \A x \in DOMAIN pod : x \in DOMAIN f \cap PodFields \/ x = "affinity" \/ x = "restartPolicy"
  BY <1>1
<1>9. \A x \in DOMAIN pod : DocPodField(x, pod[x])
  BY <1>3, <1>5, <1>6, <1>8
<1>10. ASSUME \A x \in DOMAIN pod : ~Unsaid(x, pod[x])
       PROVE  SayablePod(kind, pod)
  <2>1. \A x \in DOMAIN pod : SayablePodField(x, pod[x])
    BY <1>3, <1>5, <1>6, <1>8, <1>10
  <2> QED
    BY <1>7, <2>1 DEF SayablePod
<1> QED
  BY <1>1, <1>9, <1>10 DEF pod

(* A text that the page writes is a document.                              *)
LEMMA TextIsDocument ==
    ASSUME NEW kind \in Kinds, NEW f, IsStore(f)
    PROVE  IsDocument(Text(kind, f)) /\ Text(kind, f).kind = kind
<1> DEFINE d == Text(kind, f)
<1>1. d = [kind |-> kind, name |-> GivenText(f, "name", "example"),
           labels |-> BuildLabels(f),
           annotations |-> Override(Kept(Pick(f, {"description"})),
                                    Kept(Given(f, "annotations", Nothing))),
           selector |-> IF kind \in Jobs THEN Nothing ELSE BuildLabels(f),
           templateLabels |-> BuildLabels(f), templateAnnotations |-> Nothing,
           spec |-> d.spec, pod |-> d.pod]
  BY TextMeta
<1>2. /\ IsFunction(d.spec)
      /\ "strategy" \in DOMAIN d.spec => DocStrategy(d.spec["strategy"])
  BY WrittenSpec
<1>3. IsFunction(d.pod) /\ \A x \in DOMAIN d.pod : DocPodField(x, d.pod[x])
  BY WrittenPod
<1> HIDE DEF d
<1>4. d = [kind |-> d.kind, name |-> d.name, labels |-> d.labels,
           annotations |-> d.annotations, selector |-> d.selector,
           templateLabels |-> d.templateLabels,
           templateAnnotations |-> d.templateAnnotations,
           spec |-> d.spec, pod |-> d.pod]
      /\ d.kind = kind
  BY <1>1
<1>5. IsDocument(d)
  BY <1>2, <1>3, <1>4 DEF IsDocument
<1> QED
  BY <1>4, <1>5 DEF d

(* And one that the form can say, but for what Unsettled names and name    *)
(* servers.                                                                *)
LEMMA TextIsSayable ==
    ASSUME NEW kind \in Kinds, NEW f, IsStore(f), ~Unsettled(Text(kind, f)),
           "dnsConfig" \in DOMAIN Text(kind, f).pod => Text(kind, f).pod["dnsConfig"] = Nothing
    PROVE  SayableDoc(kind, Text(kind, f))
<1> DEFINE d == Text(kind, f)
           notes == Override(Kept(Pick(f, {"description"})),
                             Kept(Given(f, "annotations", Nothing)))
<1>1. d = [kind |-> kind, name |-> GivenText(f, "name", "example"),
           labels |-> BuildLabels(f), annotations |-> notes,
           selector |-> IF kind \in Jobs THEN Nothing ELSE BuildLabels(f),
           templateLabels |-> BuildLabels(f), templateAnnotations |-> Nothing,
           spec |-> d.spec, pod |-> d.pod]
  BY TextMeta
<1>2. /\ GivenText(f, "name", "example") # ""
      /\ BuildLabels(f) # Nothing /\ Kept(BuildLabels(f)) = BuildLabels(f)
      /\ Kept(notes) = notes
  BY WrittenMeta
<1>3. ~(kind = "StatefulSet" /\ d.spec["serviceName"] = "") => SayableSpec(kind, d.spec)
  BY WrittenSpec
<1>4. (\A x \in DOMAIN d.pod : ~Unsaid(x, d.pod[x])) => SayablePod(kind, d.pod)
  BY WrittenPod
<1> HIDE DEF d, notes
<1>5. /\ d.kind = kind /\ d.name = GivenText(f, "name", "example")
      /\ d.labels = BuildLabels(f) /\ d.annotations = notes
      /\ d.selector = IF kind \in Jobs THEN Nothing ELSE BuildLabels(f)
      /\ d.templateLabels = BuildLabels(f) /\ d.templateAnnotations = Nothing
  BY <1>1
<1>6. /\ ~(kind = "StatefulSet" /\ d.spec["serviceName"] = "")
      /\ \A x \in DOMAIN d.pod : ~Unsaid(x, d.pod[x])
  <2>1. ~Unsettled(d) /\ ("dnsConfig" \in DOMAIN d.pod => d.pod["dnsConfig"] = Nothing)
    BY DEF d
  <2> QED
    BY <1>5, <2>1 DEF Unsettled, Unsaid, Given
<1> QED
  BY <1>2, <1>3, <1>4, <1>5, <1>6 DEF SayableDoc, d

-----------------------------------------------------------------------------
(* What is in the form.                                                    *)

(* The form's store.  What is read from a document is one: of a probe the  *)
(* command is a text,                                                      *)
LEMMA ParsedProbe ==
    ASSUME NEW p, DocProbe(p)
    PROVE  IsText(parseProbe(p).command)
<1>1. CASE p.type = "exec"
  <2>1. p = [type |-> p.type, command |-> p.command, settings |-> p.settings, times |-> p.times]
        /\ IsCommand(p.command)
    BY DEF DocProbe
  <2>2. parseProbe(p).command = commandArrayToString(p.command)
    BY <1>1, <2>1 DEF parseProbe
  <2> QED
    BY <2>1, <2>2, JoinedIsText
<1>2. CASE p.type # "exec"
  <2>1. p.command = <<>> /\ parseProbe(p) = p
    BY <1>2 DEF DocProbe, parseProbe
  <2> QED
    BY <2>1, NoSteps DEF IsText
<1> QED
  BY <1>1, <1>2

(* so it is of hooks,                                                      *)
LEMMA ParsedHooks ==
    ASSUME NEW hooks, DocHooks(hooks)
    PROVE  \A h \in DOMAIN ParseLifecycle(hooks) : IsText(ParseLifecycle(hooks)[h])
<1>1. IsText(<<>>)
  BY NoSteps DEF IsText
<1>2. \A h \in DOMAIN hooks : IsText(commandArrayToString(hooks[h].command))
  BY JoinedIsText DEF DocHooks
<1> QED
  BY <1>1, <1>2 DEF ParseLifecycle

(* a container has the fields of its inputs,                               *)
LEMMA ParsedContainer ==
    ASSUME NEW c, DocContainer(c), NEW fields \in {ContainerFields, InitContainerFields}
    PROVE  FormContainer(ParseContainer(c, fields), fields)
<1> DEFINE q == ParseContainer(c, fields)
<1>0. Commands \cap Probes = {} /\ "lifecycle" \notin Commands \cup Probes
      /\ {"ports", "volumeMounts"} \cap (Commands \cup Probes \cup {"lifecycle"}) = {}
  BY DEF Commands, Probes
<1>1. "name" \in DOMAIN c /\ "name" \in fields
  BY DEF DocContainer, ContainerFields, InitContainerFields
<1>2. DOMAIN q = DOMAIN c \cap fields
  BY DEF ParseContainer
<1>3. ASSUME NEW f \in DOMAIN q
      PROVE  CASE f \in Commands -> IsText(q[f])
               [] f \in Probes -> IsText(q[f].command)
               [] f = "lifecycle" -> \A h \in DOMAIN q[f] : IsText(q[f][h])
               [] f \in {"ports", "volumeMounts"} -> IsList(q[f])
               [] OTHER -> TRUE
  <2>0. f \in DOMAIN c /\ f \in fields
    BY <1>2
  <2>1. CASE f \in Commands
    <3>1. IsCommand(c[f])
      <4>1. f \notin Probes /\ f \notin {"lifecycle", "resources", "ports", "volumeMounts"}
        BY <2>1 DEF Commands, Probes
      <4> QED
        BY <2>0, <2>1, <4>1 DEF DocContainer
    <3>2. q[f] = commandArrayToString(c[f])
      BY <1>0, <1>2, <2>1 DEF ParseContainer
    <3>3. IsText(q[f])
      BY <3>1, <3>2, JoinedIsText
    <3> QED
      BY <1>0, <2>1, <3>3
  <2>2. CASE f \in Probes
    <3>0. f \notin Commands /\ f # "lifecycle"
      BY <1>0, <2>2
    <3>1. DocProbe(c[f])
      <4>1. f \notin {"resources", "ports", "volumeMounts"}
        BY <2>2 DEF Probes
      <4> QED
        BY <2>0, <2>2, <3>0, <4>1 DEF DocContainer
    <3>2. q[f] = parseProbe(c[f])
      BY <1>2, <2>2, <3>0 DEF ParseContainer
    <3>3. IsText(q[f].command)
      BY <3>1, <3>2, ParsedProbe
    <3> QED
      BY <1>0, <2>2, <3>0, <3>3
  <2>3. CASE f = "lifecycle"
    <3>0. f \notin Commands /\ f \notin Probes
      BY <1>0, <2>3
    <3>1. DocHooks(c[f])
      BY <1>2, <2>3, <3>0 DEF DocContainer
    <3>2. q[f] = ParseLifecycle(c[f])
      BY <1>2, <2>3, <3>0 DEF ParseContainer
    <3>3. \A h \in DOMAIN q[f] : IsText(q[f][h])
      BY <3>1, <3>2, ParsedHooks
    <3> QED
      BY <2>3, <3>0, <3>3
  <2>4. CASE f \in {"ports", "volumeMounts"}
    <3>0. f \notin Commands /\ f \notin Probes /\ f # "lifecycle" /\ f # "resources"
      BY <1>0, <2>4
    <3>1. IsList(c[f])
      BY <1>2, <2>4, <3>0 DEF DocContainer
    <3>2. q[f] = c[f]
      BY <1>2, <3>0 DEF ParseContainer
    <3> QED
      BY <2>4, <3>0, <3>1, <3>2
  <2>5. CASE f \notin Commands \cup Probes \cup {"lifecycle", "ports", "volumeMounts"}
    BY <2>5
  <2> QED
    BY <2>1, <2>2, <2>3, <2>4, <2>5
<1> HIDE DEF q
<1> QED
  BY <1>1, <1>2, <1>3 DEF FormContainer, q

(* a volume,                                                               *)
LEMMA ParsedVolume ==
    ASSUME NEW v, IsVolume(v)
    PROVE  IsVolume(ParseVolume(v)) /\ ParseVolume(v).type \in VolumeTypes
<1>1. v = [name |-> v.name, type |-> v.type, config |-> v.config] /\ IsFunction(v.config)
  BY DEF IsVolume
<1>2. CASE v.type \in VolumeTypes
  BY <1>2 DEF ParseVolume
<1>3. CASE v.type \notin VolumeTypes
  <2> DEFINE w == [name |-> v.name, type |-> "emptyDir", config |-> Nothing]
  <2>1. ParseVolume(v) = w
    BY <1>1, <1>3 DEF ParseVolume
  <2>2. w = [name |-> w.name, type |-> w.type, config |-> w.config]
        /\ w.type = "emptyDir" /\ w.config = Nothing
    OBVIOUS
  <2>3. "emptyDir" \in VolumeTypes
    BY DEF VolumeTypes
  <2> HIDE DEF w
  <2> QED
    BY <2>1, <2>2, <2>3, NothingIs DEF IsVolume
<1> QED
  BY <1>2, <1>3

(* a field of the Pod,                                                     *)
LEMMA ParsedField ==
    ASSUME NEW x \in PodFields, NEW v, DocPodField(x, v)
    PROVE  FormField(x, ReadAs(x, v))
<1> DEFINE r == ReadAs(x, v)
<1>1. CASE x = "containers"
  <2>1. IsList(v) /\ \A i \in DOMAIN v : DocContainer(v[i])
    BY <1>1 DEF DocPodField
  <2>2. r = [i \in DOMAIN v |-> ParseContainer(v[i], ContainerFields)]
    BY <1>1 DEF ReadAs
  <2> HIDE DEF r
  <2>3. r = [i \in DOMAIN v |-> r[i]]
    BY <2>2
  <2>4. IsList(r) /\ DOMAIN r = DOMAIN v
    BY <2>1, <2>3, WrittenList
  <2>5. \A i \in DOMAIN r : FormContainer(r[i], ContainerFields)
    BY <2>1, <2>2, <2>4, ParsedContainer
  <2> QED
    BY <1>1, <2>4, <2>5 DEF FormField, r
<1>2. CASE x = "initContainers"
  <2>1. IsList(v) /\ \A i \in DOMAIN v : DocContainer(v[i])
    BY <1>2 DEF DocPodField
  <2>2. r = [i \in DOMAIN v |-> ParseContainer(v[i], InitContainerFields)]
    BY <1>2 DEF ReadAs
  <2> HIDE DEF r
  <2>3. r = [i \in DOMAIN v |-> r[i]]
    BY <2>2
  <2>4. IsList(r) /\ DOMAIN r = DOMAIN v
    BY <2>1, <2>3, WrittenList
  <2>5. \A i \in DOMAIN r : FormContainer(r[i], InitContainerFields)
    BY <2>1, <2>2, <2>4, ParsedContainer
  <2> QED
    BY <1>2, <2>4, <2>5 DEF FormField, r
<1>3. CASE x = "volumes"
  <2>1. IsList(v) /\ \A i \in DOMAIN v : IsVolume(v[i])
    BY <1>3 DEF DocPodField
  <2>2. r = [i \in DOMAIN v |-> ParseVolume(v[i])]
    BY <1>3 DEF ReadAs
  <2> HIDE DEF r
  <2>3. r = [i \in DOMAIN v |-> r[i]]
    BY <2>2
  <2>4. IsList(r) /\ DOMAIN r = DOMAIN v
    BY <2>1, <2>3, WrittenList
  <2>5. \A i \in DOMAIN r : IsVolume(r[i]) /\ r[i].type \in VolumeTypes
    BY <2>1, <2>2, <2>4, ParsedVolume
  <2> QED
    BY <1>3, <2>4, <2>5 DEF FormField, r
<1>4. CASE x = "tolerations"
  <2>1. IsList(v)
    BY <1>4 DEF DocPodField
  <2>2. r = [i \in DOMAIN v |-> ParseToleration(v[i])]
    BY <1>4 DEF ReadAs
  <2> HIDE DEF r
  <2>3. r = [i \in DOMAIN v |-> r[i]]
    BY <2>2
  <2>4. IsList(r)
    BY <2>1, <2>3, WrittenList
  <2> QED
    BY <1>4, <2>4 DEF FormField, r
<1>5. CASE x \notin {"containers", "initContainers", "volumes", "tolerations"}
  <2>1. x \notin {"scheduling", "strategy", "rolloutStrategy"}
    BY DEF PodFields, PlainPodFields
  <2> QED
    BY <1>5, <2>1 DEF FormField
<1> QED
  BY <1>1, <1>2, <1>3, <1>4, <1>5

(* a strategy,                                                             *)
LEMMA ParsedStrategy ==
    ASSUME NEW s, DocStrategy(s)
    PROVE  /\ FormField("strategy", s)
           /\ DOMAIN s \cap Strategies # {} => FormField("rolloutStrategy", RolloutStrategy(s))
<1>1. FormField("strategy", s)
  BY DEF DocStrategy, FormField
<1> DEFINE q == RolloutStrategy(s)
<1>2. CASE "canary" \in DOMAIN s
  <2> DEFINE c == s["canary"]
             raw == Given(c, "steps", <<>>)
             d == FormCanary(c)
  <2>1. HasSettings(c) /\ IsList(raw)
    BY <1>2, NoSteps DEF DocStrategy, DocCanary, Given
  <2>2. q = [type |-> "Canary", canary |-> d]
    BY <1>2 DEF RolloutStrategy, FormCanary
  <2>3. /\ DOMAIN d = (DOMAIN c \cap CanaryFields) \cup {"steps"}
        /\ d["steps"] = FormSteps(Spelled(raw))
        /\ \A x \in DOMAIN c \cap CanaryFields : d[x] = c[x]
    BY FormCanaryIs
  <2>4. IsList(Spelled(raw)) /\ \A i \in DOMAIN Spelled(raw) : IsSpelled(Spelled(raw)[i])
    BY <2>1, SpelledIs
  <2> DEFINE steps == FormSteps(Spelled(raw))
  <2>5. IsList(steps) /\ \A i \in DOMAIN steps : IsSpelled(steps[i])
    BY <2>4, FormStepsAreSpelled
  <2> HIDE DEF c, d, q, raw, steps
  <2>6. HasSettings(d)
    <3>1. "steps" \notin Settings \cup {"trafficRouting"} /\ "steps" \notin CanaryFields
      BY DEF Settings, CanaryFields
    <3>2. \A x \in DOMAIN d \cap (Settings \cup {"trafficRouting"}) :
             x \in DOMAIN c /\ d[x] = c[x]
      BY <2>3, <3>1
    <3>3. \A x \in DOMAIN d \cap Settings : IsFunction(d[x])
      BY <2>1, <3>2 DEF HasSettings
    <3>4. "trafficRouting" \in DOMAIN d =>
             /\ IsFunction(d["trafficRouting"])
             /\ \A r \in DOMAIN d["trafficRouting"] : IsFunction(d["trafficRouting"][r])
      BY <2>1, <3>2 DEF HasSettings
    <3> QED
      BY <3>3, <3>4 DEF HasSettings
  <2>7. DOMAIN q \cap {"canary", "blueGreen"} = {"canary"} /\ q["canary"] = d
    BY <2>2
  <2>8. Given(d, "steps", <<>>) = steps
    BY <2>3 DEF Given, steps
  <2>9. FormField("rolloutStrategy", q)
    BY <2>5, <2>6, <2>7, <2>8 DEF FormField
  <2> QED
    BY <1>1, <2>9 DEF q
<1>3. CASE "canary" \notin DOMAIN s /\ "blueGreen" \in DOMAIN s
  <2> DEFINE d == Pick(s["blueGreen"], BlueGreenFields)
  <2>1. q = [type |-> "BlueGreen", blueGreen |-> d]
    BY <1>3 DEF RolloutStrategy
  <2>2. HasSettings(s["blueGreen"])
    BY <1>3 DEF DocStrategy
  <2>3. HasSettings(d)
    BY <2>2, PickHasSettings
  <2> HIDE DEF q, d
  <2>4. DOMAIN q \cap {"canary", "blueGreen"} = {"blueGreen"} /\ q["blueGreen"] = d
    BY <2>1
  <2>5. FormField("rolloutStrategy", q)
    BY <2>3, <2>4 DEF FormField
  <2> QED
    BY <1>1, <2>5 DEF q
<1> QED
  BY <1>1, <1>2, <1>3 DEF Strategies

(* all of it.                                                              *)
LEMMA ParsedIsStore ==
    ASSUME NEW doc, IsDocument(doc)
    PROVE  IsStore(yamlToFormData(doc))
<1> DEFINE F == yamlToFormData(doc)
<1>0. /\ "strategy" \in DOMAIN doc.spec => DocStrategy(doc.spec["strategy"])
      /\ \A x \in DOMAIN doc.pod : DocPodField(x, doc.pod[x])
  BY DEF IsDocument
<1>1. /\ DOMAIN F = {"name", "labels", "annotations"}
                            \cup ({"description"} \cap DOMAIN doc.annotations)
                            \cup (DOMAIN doc.pod \cap PodFields)
                            \cup {g \in {"scheduling"} : ReadRules(doc) # Nothing}
                            \cup DOMAIN ReadSpec(doc)
      /\ \A x \in DOMAIN doc.pod \cap PodFields : F[x] = ReadAs(x, doc.pod[x])
      /\ "scheduling" \in DOMAIN F => F["scheduling"] = ReadRules(doc)
      /\ \A x \in DOMAIN ReadSpec(doc) : F[x] = ReadSpec(doc)[x]
  BY ParsedForm
<1> HIDE DEF F
<1>2. ASSUME NEW x \in DOMAIN doc.pod \cap PodFields PROVE FormField(x, F[x])
  BY <1>0, <1>1, ParsedField
<1>3. "scheduling" \in DOMAIN F => FormField("scheduling", F["scheduling"])
  <2> DEFINE a == Given(doc.pod, "affinity", Nothing)
  <2>1. DOMAIN a \subseteq Rules
    <3>1. CASE "affinity" \in DOMAIN doc.pod
      <4>1. DocAffinity(doc.pod["affinity"])
        BY <1>0, <3>1 DEF DocPodField
      <4> QED
        BY <3>1, <4>1 DEF DocAffinity, Given
    <3>2. CASE "affinity" \notin DOMAIN doc.pod
      BY <3>2, NothingIs DEF Given
    <3> QED
      BY <3>1, <3>2
  <2> HIDE DEF a
  <2>2. DOMAIN parseAffinityToScheduling(a) \subseteq DOMAIN a
    BY DEF parseAffinityToScheduling, NonEmpty
  <2> QED
    BY <1>1, <2>1, <2>2 DEF FormField, ReadRules, a
<1>4. ASSUME NEW x \in DOMAIN ReadSpec(doc) PROVE FormField(x, F[x])
  <2>1. F[x] = ReadSpec(doc)[x] /\ x \in ResourceFields(doc) /\ x \notin CommonFields
    BY <1>1, ReadSpecIs, ResourceFieldsApart
  <2>2. CASE x = "rolloutStrategy"
    <3>1. IsRollout(doc) /\ HasStrategy(doc)
      <4>1. x \notin DOMAIN doc.spec \cap ({"replicas"} \cup Times)
        BY <2>2 DEF Times
      <4>2. IsRollout(doc)
        <5> SUFFICES ASSUME ~IsRollout(doc) PROVE FALSE
          OBVIOUS
        <5>1. ResourceFields(doc) \in {parseDeploymentFields, parseStatefulSetFields,
                                       parseJobFields, parseCronJobFields}
          BY DEF ResourceFields
        <5>2. "rolloutStrategy" \notin ResourceFields(doc)
          BY <5>1 DEF parseDeploymentFields, parseStatefulSetFields, parseJobFields,
                      parseCronJobFields, Times
        <5> QED
          BY <2>1, <2>2, <5>2
      <4> QED
        BY <4>1, <4>2, ReadSpecIs
    <3>2. /\ "strategy" \in DOMAIN doc.spec
          /\ DOMAIN doc.spec["strategy"] \cap Strategies # {}
      BY <3>1, NothingIs DEF HasStrategy, Given, Strategies
    <3>3. F[x] = RolloutStrategy(doc.spec["strategy"])
      BY <2>1, <2>2, <3>1, ReadSpecIs
    <3> QED
      BY <1>0, <2>2, <3>2, <3>3, ParsedStrategy
  <2>3. CASE x = "strategy"
    <3>1. x \in DOMAIN doc.spec
      <4>1. \/ x \in (DOMAIN doc.spec \cap ({"replicas"} \cup Times))
                      \cup {g \in {"rolloutStrategy"} : HasStrategy(doc)}
            \/ x \in DOMAIN doc.spec \cap ResourceFields(doc)
        BY ReadSpecIs
      <4> QED
        BY <2>3, <4>1
    <3>2. F[x] = doc.spec[x]
      BY <2>1, <2>3, ReadSpecIs
    <3> QED
      BY <1>0, <2>3, <3>1, <3>2, ParsedStrategy
  <2>4. CASE x \notin {"strategy", "rolloutStrategy"}
    BY <2>1, <2>4 DEF FormField, CommonFields, PodFields
  <2> QED
    BY <2>2, <2>3, <2>4
<1>5. \A x \in {"name", "labels", "annotations", "description"} : FormField(x, F[x])
  BY DEF FormField
<1>6. \A x \in DOMAIN F : FormField(x, F[x])
  BY <1>1, <1>2, <1>3, <1>4, <1>5
<1> QED
  BY <1>6 DEF IsStore, F

(* What setFieldsValue makes of an object that the form had.               *)
LEMMA MergeIs ==
    ASSUME NEW o, NEW n
    PROVE  LET m == Merge(o, n)
               both == DOMAIN o \cap DOMAIN n \cap ({"rollingUpdate"} \cup Strategies)
           IN /\ IsFunction(m)
              /\ \A x : x \in DOMAIN m <=> x \in DOMAIN o \/ x \in DOMAIN n
              /\ \A x \in DOMAIN n \ both : m[x] = n[x]
              /\ \A x \in DOMAIN o \ DOMAIN n : m[x] = o[x]
              /\ "rollingUpdate" \in both =>
                    m["rollingUpdate"] = Override(o["rollingUpdate"], n["rollingUpdate"])
              /\ \A x \in both \cap Strategies : m[x] = MergeFilled(o[x], n[x])
<1> DEFINE both == DOMAIN o \cap DOMAIN n \cap ({"rollingUpdate"} \cup Strategies)
           p == Override(o, n)
           q == [x \in both |-> IF x \in Strategies THEN MergeFilled(o[x], n[x])
                                ELSE Override(o[x], n[x])]
           m == Override(p, q)
<1>1. m = Merge(o, n)
  BY DEF Merge
<1>2. /\ DOMAIN p = DOMAIN o \cup DOMAIN n
      /\ \A x \in DOMAIN n : p[x] = n[x]
      /\ \A x \in DOMAIN o \ DOMAIN n : p[x] = o[x]
  BY OverrideIs
<1>3. /\ DOMAIN q = both
      /\ \A x \in both \cap Strategies : q[x] = MergeFilled(o[x], n[x])
      /\ "rollingUpdate" \in both =>
            q["rollingUpdate"] = Override(o["rollingUpdate"], n["rollingUpdate"])
  BY DEF Strategies
<1> HIDE DEF p, q
<1>4. /\ IsFunction(m) /\ DOMAIN m = DOMAIN p \cup DOMAIN q
      /\ \A x \in DOMAIN q : m[x] = q[x]
      /\ \A x \in DOMAIN p \ DOMAIN q : m[x] = p[x]
  BY OverrideIs
<1> HIDE DEF m
<1>5. \A x : x \in DOMAIN m <=> x \in DOMAIN o \/ x \in DOMAIN n
  BY <1>2, <1>3, <1>4
<1>6. \A x \in DOMAIN n \ both : m[x] = n[x]
  BY <1>2, <1>3, <1>4
<1>7. \A x \in DOMAIN o \ DOMAIN n : m[x] = o[x]
  BY <1>2, <1>3, <1>4
<1>8. /\ \A x \in both \cap Strategies : m[x] = MergeFilled(o[x], n[x])
      /\ "rollingUpdate" \in both =>
            m["rollingUpdate"] = Override(o["rollingUpdate"], n["rollingUpdate"])
  BY <1>3, <1>4
<1> QED
  BY <1>1, <1>4, <1>5, <1>6, <1>7, <1>8

(* And of its canary or blueGreen, which has all its fields: of the        *)
(* objects in it what the form held stays,                                 *)
LEMMA MergeFilledIs ==
    ASSUME NEW o, NEW n
    PROVE  LET m == MergeFilled(o, n)
               both == DOMAIN o \cap DOMAIN n \cap (Settings \cup {"trafficRouting"})
           IN /\ IsFunction(m) /\ \A x : x \in DOMAIN m <=> x \in DOMAIN n
              /\ \A x \in DOMAIN n \ both : m[x] = n[x]
              /\ \A x \in both \cap Settings : m[x] = Override(o[x], n[x])
              /\ "trafficRouting" \in both =>
                    m["trafficRouting"] = MergeRouting(o["trafficRouting"], n["trafficRouting"])
<1> DEFINE both == DOMAIN o \cap DOMAIN n \cap (Settings \cup {"trafficRouting"})
           q == [x \in both |-> IF x = "trafficRouting" THEN MergeRouting(o[x], n[x])
                                ELSE Override(o[x], n[x])]
           m == Override(n, q)
<1>1. m = MergeFilled(o, n)
  BY DEF MergeFilled
<1>2. /\ DOMAIN q = both
      /\ \A x \in both \cap Settings : q[x] = Override(o[x], n[x])
      /\ "trafficRouting" \in both =>
            q["trafficRouting"] = MergeRouting(o["trafficRouting"], n["trafficRouting"])
  BY DEF Settings
<1> HIDE DEF q
<1>3. /\ IsFunction(m) /\ DOMAIN m = DOMAIN n \cup DOMAIN q
      /\ \A x \in DOMAIN q : m[x] = q[x]
      /\ \A x \in DOMAIN n \ DOMAIN q : m[x] = n[x]
  BY OverrideIs
<1> HIDE DEF m
<1> QED
  BY <1>1, <1>2, <1>3

(* of the routing also that of each router.                                *)
LEMMA MergeRoutingIs ==
    ASSUME NEW o, NEW n
    PROVE  LET m == MergeRouting(o, n)
           IN /\ IsFunction(m)
              /\ \A r : r \in DOMAIN m <=> r \in DOMAIN o \/ r \in DOMAIN n
              /\ \A r \in DOMAIN o \cap DOMAIN n : m[r] = Override(o[r], n[r])
              /\ \A r \in DOMAIN n \ DOMAIN o : m[r] = n[r]
              /\ \A r \in DOMAIN o \ DOMAIN n : m[r] = o[r]
<1> DEFINE p == Override(o, n)
           q == [r \in DOMAIN o \cap DOMAIN n |-> Override(o[r], n[r])]
           m == Override(p, q)
<1>1. m = MergeRouting(o, n)
  BY DEF MergeRouting
<1>2. /\ DOMAIN p = DOMAIN o \cup DOMAIN n
      /\ \A r \in DOMAIN n : p[r] = n[r]
      /\ \A r \in DOMAIN o \ DOMAIN n : p[r] = o[r]
  BY OverrideIs
<1>3. /\ DOMAIN q = DOMAIN o \cap DOMAIN n
      /\ \A r \in DOMAIN o \cap DOMAIN n : q[r] = Override(o[r], n[r])
  OBVIOUS
<1> HIDE DEF p, q
<1>4. /\ IsFunction(m) /\ DOMAIN m = DOMAIN p \cup DOMAIN q
      /\ \A r \in DOMAIN q : m[r] = q[r]
      /\ \A r \in DOMAIN p \ DOMAIN q : m[r] = p[r]
  BY OverrideIs
<1> HIDE DEF m
<1> QED
  BY <1>1, <1>2, <1>3, <1>4

(* Objects in a strategy stay objects.                                     *)
LEMMA MergedSettings ==
    ASSUME NEW o, NEW n, HasSettings(o), HasSettings(n)
    PROVE  HasSettings(MergeFilled(o, n))
<1> DEFINE m == MergeFilled(o, n)
           both == DOMAIN o \cap DOMAIN n \cap (Settings \cup {"trafficRouting"})
           before == o["trafficRouting"]
           now == n["trafficRouting"]
           t == MergeRouting(before, now)
<1>1. /\ \A x : x \in DOMAIN m <=> x \in DOMAIN n
      /\ \A x \in DOMAIN n \ both : m[x] = n[x]
      /\ \A x \in both \cap Settings : m[x] = Override(o[x], n[x])
      /\ "trafficRouting" \in both => m["trafficRouting"] = t
  BY MergeFilledIs
<1>2. /\ IsFunction(t)
      /\ \A r : r \in DOMAIN t <=> r \in DOMAIN before \/ r \in DOMAIN now
      /\ \A r \in DOMAIN before \cap DOMAIN now : t[r] = Override(before[r], now[r])
      /\ \A r \in DOMAIN now \ DOMAIN before : t[r] = now[r]
      /\ \A r \in DOMAIN before \ DOMAIN now : t[r] = before[r]
  BY MergeRoutingIs
<1>3. \A f, g : IsFunction(Override(f, g))
  BY OverrideIs
<1> HIDE DEF m, t
<1>4. \A x \in DOMAIN m \cap Settings : IsFunction(m[x])
  <2> SUFFICES ASSUME NEW x \in DOMAIN m \cap Settings PROVE IsFunction(m[x])
    OBVIOUS
  <2>1. CASE x \in both
    BY <1>1, <1>3, <2>1
  <2>2. CASE x \notin both
    BY <1>1, <2>2 DEF HasSettings
  <2> QED
    BY <2>1, <2>2
<1>5. ASSUME "trafficRouting" \in DOMAIN m
      PROVE  /\ IsFunction(m["trafficRouting"])
             /\ \A r \in DOMAIN m["trafficRouting"] : IsFunction(m["trafficRouting"][r])
  <2>1. /\ "trafficRouting" \in DOMAIN n /\ IsFunction(now)
        /\ \A r \in DOMAIN now : IsFunction(now[r])
    BY <1>1, <1>5 DEF HasSettings
  <2>2. CASE "trafficRouting" \in both
    <3>1. \A r \in DOMAIN before : IsFunction(before[r])
      BY <2>2 DEF HasSettings
    <3> HIDE DEF before, now
    <3>2. \A r \in DOMAIN t : IsFunction(t[r])
      BY <1>2, <1>3, <2>1, <3>1
    <3> QED
      BY <1>1, <1>2, <2>2, <3>2
  <2>3. CASE "trafficRouting" \notin both
    BY <1>1, <2>1, <2>3
  <2> QED
    BY <2>2, <2>3
<1>6. HasSettings(m)
  BY <1>4, <1>5 DEF HasSettings
<1> QED
  BY <1>6 DEF m

(* A store stays one when it is filled from another,                       *)
LEMMA MergedField ==
    ASSUME NEW x \in Objects, NEW o, NEW n, FormField(x, o), FormField(x, n)
    PROVE  FormField(x, Merge(o, n))
<1> DEFINE m == Merge(o, n)
           both == DOMAIN o \cap DOMAIN n \cap ({"rollingUpdate"} \cup Strategies)
<1>1. /\ \A y : y \in DOMAIN m <=> y \in DOMAIN o \/ y \in DOMAIN n
      /\ \A y \in DOMAIN n \ both : m[y] = n[y]
      /\ \A y \in DOMAIN o \ DOMAIN n : m[y] = o[y]
      /\ "rollingUpdate" \in both =>
            m["rollingUpdate"] = Override(o["rollingUpdate"], n["rollingUpdate"])
      /\ \A y \in both \cap Strategies : m[y] = MergeFilled(o[y], n[y])
  BY MergeIs
<1> HIDE DEF m
<1>2. CASE x = "scheduling"
  BY <1>1, <1>2 DEF FormField, m
<1>3. CASE x = "dnsConfig"
  BY <1>3 DEF FormField
<1>4. CASE x = "strategy"
  <2>1. /\ "rollingUpdate" \in DOMAIN o => IsFunction(o["rollingUpdate"])
        /\ "rollingUpdate" \in DOMAIN n => IsFunction(n["rollingUpdate"])
    BY <1>4 DEF FormField
  <2>2. IsFunction(Override(o["rollingUpdate"], n["rollingUpdate"]))
    BY OverrideIs
  <2>3. "rollingUpdate" \in DOMAIN m => IsFunction(m["rollingUpdate"])
    BY <1>1, <2>1, <2>2
  <2> QED
    BY <1>4, <2>3 DEF FormField, m
<1>5. CASE x = "rolloutStrategy"
  <2> DEFINE steps(c) == Given(c, "steps", <<>>)
             good(c) == IsList(steps(c)) /\ \A i \in DOMAIN steps(c) : IsSpelled(steps(c)[i])
  <2>1. /\ \A y \in DOMAIN o \cap Strategies : HasSettings(o[y])
        /\ \A y \in DOMAIN n \cap Strategies : HasSettings(n[y])
        /\ "canary" \in DOMAIN o => good(o["canary"])
        /\ "canary" \in DOMAIN n => good(n["canary"])
    BY <1>5 DEF FormField, Strategies
  <2>2. good(n["canary"]) => good(MergeFilled(o["canary"], n["canary"]))
    <3> DEFINE a == o["canary"]
               b == n["canary"]
               c == MergeFilled(a, b)
    <3>1. "steps" \notin Settings \cup {"trafficRouting"}
      BY DEF Settings
    <3>2. /\ "steps" \in DOMAIN c <=> "steps" \in DOMAIN b
          /\ "steps" \in DOMAIN b => c["steps"] = b["steps"]
      BY <3>1, MergeFilledIs
    <3> HIDE DEF a, b, c
    <3>3. steps(c) = steps(b)
      BY <3>2 DEF Given
    <3> QED
      BY <3>3 DEF a, b, c
  <2>3. \A y \in DOMAIN m \cap Strategies : HasSettings(m[y])
    <3> SUFFICES ASSUME NEW y \in DOMAIN m \cap Strategies PROVE HasSettings(m[y])
      OBVIOUS
    <3>1. CASE y \in both
      BY <1>1, <2>1, <3>1, MergedSettings
    <3>2. CASE y \notin both
      BY <1>1, <2>1, <3>2
    <3> QED
      BY <3>1, <3>2
  <2> HIDE DEF steps, good
  <2>4. "canary" \in DOMAIN m => good(m["canary"])
    BY <1>1, <2>1, <2>2 DEF Strategies
  <2> QED
    BY <1>5, <2>3, <2>4 DEF FormField, Strategies, m, good, steps
<1> QED
  BY <1>2, <1>3, <1>4, <1>5 DEF Objects

(* A store filled from another is one,                                     *)
LEMMA FilledIsStore ==
    ASSUME NEW store, IsStore(store), NEW fields, NEW values, IsStore(values)
    PROVE  IsStore(setFieldsValue(store, fields, values))
<1> DEFINE g == setFieldsValue(store, fields, values)
<1>1. /\ \A x : x \in DOMAIN g <=>
                            (x \in DOMAIN store /\ x \notin fields) \/ x \in DOMAIN values
      /\ \A x \in DOMAIN values :
                    /\ x \in Objects \cap DOMAIN store => g[x] = Merge(store[x], values[x])
                    /\ x \notin Objects \cap DOMAIN store => g[x] = values[x]
      /\ \A x \in DOMAIN store \ (fields \cup DOMAIN values) : g[x] = store[x]
  BY FilledStore
<1> HIDE DEF g
<1>2. ASSUME NEW x \in DOMAIN g PROVE FormField(x, g[x])
  <2>1. CASE x \in DOMAIN values /\ x \in Objects \cap DOMAIN store
    BY <1>1, <2>1, MergedField DEF IsStore
  <2>2. CASE x \in DOMAIN values /\ x \notin Objects \cap DOMAIN store
    BY <1>1, <2>2 DEF IsStore
  <2>3. CASE x \notin DOMAIN values
    BY <1>1, <2>3 DEF IsStore
  <2> QED
    BY <2>1, <2>2, <2>3
<1> QED
  BY <1>2 DEF IsStore, g

(* and when the user enters something.                                     *)
LEMMA EnteredIsStore ==
    ASSUME NEW f, IsStore(f), NEW input \in Inputs
    PROVE  IsStore(SetAt(f, input.path, input.value))
<1> DEFINE path == input.path
           value == input.value
           x == path[1]
           part == Override(Given(f, x, Nothing), [y \in {path[2]} |-> value])
           new == IF Len(path) = 1 THEN value ELSE part
           one == [y \in {x} |-> new]
           g == Override(f, one)
<1>0. path \in InputPaths /\ (Len(path) = 1 => FormField(x, value))
  BY KnownInputs
<1> HIDE DEF path, value
<1>1. SetAt(f, path, value) = g
  BY DEF SetAt
<1>2. DOMAIN one = {x} /\ one[x] = new
  OBVIOUS
<1> HIDE DEF x, part, new, one
<1>3. /\ DOMAIN g = DOMAIN f \cup {x} /\ g[x] = new
      /\ \A y \in DOMAIN f \ {x} : g[y] = f[y]
  <2>1. /\ DOMAIN g = DOMAIN f \cup DOMAIN one
        /\ \A y \in DOMAIN one : g[y] = one[y]
        /\ \A y \in DOMAIN f \ DOMAIN one : g[y] = f[y]
    BY OverrideIs
  <2> HIDE DEF g
  <2> QED
    BY <1>2, <2>1
<1> HIDE DEF g
<1>4. CASE Len(path) = 1
  <2>1. FormField(x, g[x])
    BY <1>0, <1>3, <1>4 DEF new
  <2> QED
    BY <1>1, <1>3, <2>1 DEF IsStore, path, value
<1>5. CASE Len(path) # 1
  <2> DEFINE old == Given(f, x, Nothing)
             p == [y \in {path[2]} |-> value]
             o == Override(old, p)
  <2>1. g[x] = o /\ x \in Objects
    BY <1>0, <1>3, <1>5, PathShape DEF new, part, x
  <2>2. DOMAIN p = {path[2]}
    OBVIOUS
  <2> HIDE DEF p, old
  <2>3. /\ DOMAIN o = DOMAIN old \cup {path[2]}
        /\ \A y \in DOMAIN old \ {path[2]} : o[y] = old[y]
    <3>1. /\ DOMAIN o = DOMAIN old \cup DOMAIN p
          /\ \A y \in DOMAIN old \ DOMAIN p : o[y] = old[y]
      BY OverrideIs
    <3> HIDE DEF o
    <3> QED
      BY <2>2, <3>1
  <2> HIDE DEF o
  <2>4. x \in DOMAIN f => FormField(x, old) /\ old = f[x]
    BY DEF IsStore, old, Given
  <2>5. x \notin DOMAIN f => DOMAIN old = {}
    BY NothingIs DEF old, Given
  <2>6. /\ x = "scheduling" => path[2] \in Rules
        /\ x \in {"strategy", "rolloutStrategy"} => path[2] = "type"
    <3>1. x # "name" /\ Len(<<x>>) = 1
      BY <2>1 DEF Objects
    <3>2. \A f1 : path # <<f1>>
      BY <1>5
    <3>3. \/ path \in {<<"strategy", "type">>, <<"rolloutStrategy", "type">>}
          \/ path \in {<<"dnsConfig", y>> : y \in DnsFields}
          \/ path \in {<<"scheduling", rule>> : rule \in Rules}
      BY <1>0, <3>2 DEF InputPaths
    <3> QED
      BY <3>3 DEF x
  <2>7. FormField(x, o)
    <3>1. CASE x = "scheduling"
      <4>1. DOMAIN old \subseteq Rules
        BY <2>4, <2>5, <3>1 DEF FormField
      <4> QED
        BY <2>3, <2>6, <3>1, <4>1 DEF FormField
    <3>2. CASE x = "dnsConfig"
      BY <3>2 DEF FormField
    <3>3. CASE x = "strategy"
      <4>1. "rollingUpdate" \in DOMAIN old => IsFunction(old["rollingUpdate"])
        BY <2>4, <2>5, <3>3 DEF FormField
      <4>2. "rollingUpdate" \in DOMAIN o => IsFunction(o["rollingUpdate"])
        BY <2>3, <2>6, <3>3, <4>1
      <4> QED
        BY <3>3, <4>2 DEF FormField
    <3>4. CASE x = "rolloutStrategy"
      <4>1. \A y \in DOMAIN o \cap {"canary", "blueGreen"} : y \in DOMAIN old /\ o[y] = old[y]
        BY <2>3, <2>6, <3>4
      <4>2. x \in DOMAIN f => FormField("rolloutStrategy", old)
        BY <2>4, <3>4
      <4>3. x \notin DOMAIN f => DOMAIN o \cap {"canary", "blueGreen"} = {}
        BY <2>5, <4>1
      <4> HIDE DEF x
      <4>4. FormField("rolloutStrategy", o)
        BY <4>1, <4>2, <4>3 DEF FormField
      <4> QED
        BY <3>4, <4>4
    <3> QED
      BY <2>1, <3>1, <3>2, <3>3, <3>4 DEF Objects
  <2>8. \A y \in DOMAIN g : FormField(y, g[y])
    BY <1>3, <2>1, <2>7 DEF IsStore
  <2> QED
    BY <1>1, <2>8 DEF IsStore, path, value
<1> QED
  BY <1>4, <1>5

(* The form starts as a store,                                             *)
LEMMA DefaultIsStore == IsStore(DefaultValues) /\ IsStore(Nothing)
<1>1. IsStore(Nothing)
  BY NothingIs DEF IsStore
<1> DEFINE r == [type |-> "Canary", canary |-> [steps |-> FormSteps(DefaultSteps)]]
           all == [replicas |-> 1, containers |-> <<DefaultContainer>>, rolloutStrategy |-> r]
           S == {"containers"} \cup (IF Page = "DaemonSet" THEN {} ELSE {"replicas"})
                 \cup (IF Page = "Rollout" THEN {"rolloutStrategy"} ELSE {})
           f == Pick(all, S)
<1>2. DefaultValues = f
  BY DEF DefaultValues
<1>3. /\ DOMAIN all = {"replicas", "containers", "rolloutStrategy"}
      /\ all["containers"] = <<DefaultContainer>> /\ all["rolloutStrategy"] = r
  OBVIOUS
<1> DEFINE steps == FormSteps(DefaultSteps)
<1>4. IsList(steps) /\ \A i \in DOMAIN steps : IsSpelled(steps[i])
  BY DefaultStepsAreSayable, FormStepsAreSpelled
<1> HIDE DEF steps
<1>5. FormField("rolloutStrategy", r)
  <2> DEFINE c == [steps |-> steps]
  <2>1. DOMAIN r \cap {"canary", "blueGreen"} = {"canary"} /\ r["canary"] = c
    BY DEF steps
  <2>2. DOMAIN c = {"steps"} /\ c["steps"] = steps
    OBVIOUS
  <2> HIDE DEF r, c
  <2>3. HasSettings(c)
    BY <2>2 DEF HasSettings, Settings
  <2>4. Given(c, "steps", <<>>) = steps
    BY <2>2 DEF Given
  <2>5. FormField("rolloutStrategy", r)
    BY <1>4, <2>1, <2>3, <2>4 DEF FormField
  <2> QED
    BY <2>5
<1>6. FormField("containers", <<DefaultContainer>>)
  <2> DEFINE c == DefaultContainer
             s == <<c>>
  <2>1. DOMAIN c = {"name", "image", "imagePullPolicy", "resources"}
    BY DEF DefaultContainer
  <2> HIDE DEF c
  <2>2. FormContainer(c, ContainerFields)
    BY <2>1 DEF FormContainer, ContainerFields, InitContainerFields, Commands, Probes
  <2>3. IsList(s) /\ DOMAIN s = {1} /\ s[1] = c
    BY DEF IsList
  <2> HIDE DEF s
  <2>4. \A i \in DOMAIN s : FormContainer(s[i], ContainerFields)
    BY <2>2, <2>3
  <2> QED
    BY <2>3, <2>4 DEF FormField, s, c
<1> HIDE DEF all, S, r
<1>7. /\ DOMAIN f \subseteq DOMAIN all
      /\ \A x \in DOMAIN f : f[x] = all[x]
  BY DEF Pick
<1> HIDE DEF f
<1>8. \A x \in DOMAIN f : x = "replicas" \/ FormField(x, f[x])
  BY <1>3, <1>5, <1>6, <1>7
<1>9. \A v : FormField("replicas", v)
  BY DEF FormField
<1>10. IsStore(f)
  BY <1>8, <1>9 DEF IsStore
<1> QED
  BY <1>1, <1>2, <1>10

(* and the template is a text that is written from one.                    *)
LEMMA TemplateIsDocument ==
    ASSUME Page \in Kinds
    PROVE  IsDocument(getDefaultYaml)
<1> DEFINE f == Pick(DefaultValues, {"replicas", "containers"})
<1>1. f = Pick(DefaultValues, {"replicas", "containers"})
  OBVIOUS
<1>2. getDefaultYaml = formDataToYAML(Page, f)
  BY DEF getDefaultYaml
<1> HIDE DEF f
<1>3. /\ IsFunction(f) /\ DOMAIN f = DOMAIN DefaultValues \cap {"replicas", "containers"}
      /\ \A x \in DOMAIN DefaultValues \cap {"replicas", "containers"} : f[x] = DefaultValues[x]
  BY <1>1, PickIsFunction
<1>4. IsStore(f)
  BY <1>3, DefaultIsStore DEF IsStore
<1>5. DOMAIN f \subseteq Copied
  BY <1>3 DEF Copied, CommonFields, PodFields
<1>6. Pick(f, Copied) = f
  BY <1>3, <1>5, PickAll
<1>7. getDefaultYaml = Text(Page, f)
  BY <1>2, <1>6 DEF Text
<1> QED
  BY <1>4, <1>7, TextIsDocument

-----------------------------------------------------------------------------
(* A text of the page, read into the form it was written from.             *)

(* A text that the page wrote, read into the form it was written from: the *)
(* objects are merged with what they were written from, and the same is    *)
(* written again.  The rules:                                              *)
LEMMA RulesStay ==
    ASSUME NEW o, NEW n, DOMAIN o \subseteq Rules, DOMAIN n \subseteq Rules,
           buildScheduling(o) = buildScheduling(n)
    PROVE  buildScheduling(Merge(o, n)) = buildScheduling(n)
<1> DEFINE m == Merge(o, n)
<1>1. Rules \cap ({"rollingUpdate"} \cup Strategies) = {}
  BY DEF Rules, NodeRules, PodRules, Strategies
<1>2. /\ \A x : x \in DOMAIN m <=> x \in DOMAIN o \/ x \in DOMAIN n
      /\ \A x \in DOMAIN n : m[x] = n[x]
      /\ \A x \in DOMAIN o \ DOMAIN n : m[x] = o[x]
  BY <1>1, MergeIs
<1> HIDE DEF m
<1>3. \A s : DOMAIN buildScheduling(s) = NonEmpty(s)
  BY DEF buildScheduling
<1>4. NonEmpty(o) = NonEmpty(n)
  BY <1>3
<1>5. NonEmpty(m) = NonEmpty(n)
  BY <1>2, <1>4 DEF NonEmpty
<1>6. \A rule \in NonEmpty(n) : m[rule] = n[rule]
  BY <1>2 DEF NonEmpty
<1>7. buildScheduling(m) = buildScheduling(n)
  BY <1>5, <1>6 DEF buildScheduling
<1> QED
  BY <1>7 DEF m

(* the strategy of a Deployment, where overriding a function with itself   *)
(* changes nothing:                                                        *)
LEMMA OverrideSame ==
    ASSUME NEW r, IsFunction(r), NEW r2, IsFunction(r2), DOMAIN r2 \subseteq DOMAIN r,
           \A x \in DOMAIN r2 : r2[x] = r[x]
    PROVE  Override(r, r2) = r
<1> DEFINE q == Override(r, r2)
<1>1. IsFunction(q) /\ DOMAIN q = DOMAIN r \cup DOMAIN r2
  BY ZenonT(30), OverrideIs
<1>2. \A x \in DOMAIN r2 : q[x] = r2[x]
  BY ZenonT(30), OverrideIs
<1>3. \A x \in DOMAIN r \ DOMAIN r2 : q[x] = r[x]
  BY ZenonT(30), OverrideIs
<1> HIDE DEF q
<1>4. DOMAIN q = DOMAIN r /\ \A x \in DOMAIN r : q[x] = r[x]
  BY <1>1, <1>2, <1>3
<1> QED
  BY <1>1, <1>4, SameFunction DEF q

LEMMA StrategyStays ==
    ASSUME NEW s, FormField("strategy", s)
    PROVE  BuildStrategy(Merge(s, BuildStrategy(s))) = BuildStrategy(s)
<1> DEFINE b == BuildStrategy(s)
           m == Merge(s, b)
           both == DOMAIN s \cap DOMAIN b \cap ({"rollingUpdate"} \cup Strategies)
<1>0. "rollingUpdate" \in DOMAIN s => IsFunction(s["rollingUpdate"])
  BY DEF FormField
<1>1. /\ DOMAIN b \subseteq DOMAIN s \cap {"type", "rollingUpdate"}
      /\ \A x \in DOMAIN b : b[x] = s[x]
  <2>1. CASE Given(s, "type", "") = "RollingUpdate"
    <3>1. b = Pick(s, {"type", "rollingUpdate"})
      BY <2>1 DEF BuildStrategy
    <3> HIDE DEF b
    <3> QED
      BY <3>1, PickIsFunction
  <2>2. CASE Given(s, "type", "") # "RollingUpdate"
    <3>1. b = Pick(s, {"type"})
      BY <2>2 DEF BuildStrategy
    <3> HIDE DEF b
    <3>2. DOMAIN b = DOMAIN s \cap {"type"} /\ \A x \in DOMAIN s \cap {"type"} : b[x] = s[x]
      BY <3>1, PickIsFunction
    <3> QED
      BY <3>2
  <2> QED
    BY <2>1, <2>2
<1> HIDE DEF b
<1>2. /\ IsFunction(m)
      /\ \A x : x \in DOMAIN m <=> x \in DOMAIN s \/ x \in DOMAIN b
      /\ \A x \in DOMAIN b \ both : m[x] = b[x]
      /\ \A x \in DOMAIN s \ DOMAIN b : m[x] = s[x]
      /\ "rollingUpdate" \in both =>
            m["rollingUpdate"] = Override(s["rollingUpdate"], b["rollingUpdate"])
  BY MergeIs
<1> HIDE DEF m
<1>4. \A x : x \in DOMAIN m <=> x \in DOMAIN s
  BY <1>1, <1>2
<1>5. \A x \in DOMAIN s \cap {"type", "rollingUpdate"} : m[x] = s[x]
  <2>1. "type" \in DOMAIN s => m["type"] = s["type"]
    BY <1>1, <1>2 DEF Strategies
  <2>2. "rollingUpdate" \in DOMAIN s => m["rollingUpdate"] = s["rollingUpdate"]
    <3>1. CASE "rollingUpdate" \in DOMAIN b
      <4>1. m["rollingUpdate"] = Override(s["rollingUpdate"], s["rollingUpdate"])
        BY <1>1, <1>2, <3>1
      <4> QED
        BY <1>0, <1>1, <3>1, <4>1, OverrideSame
    <3>2. CASE "rollingUpdate" \notin DOMAIN b
      BY <1>2, <3>2
    <3> QED
      BY <3>1, <3>2
  <2> QED
    BY <2>1, <2>2
<1>6. ASSUME NEW S \in SUBSET {"type", "rollingUpdate"} PROVE Pick(m, S) = Pick(s, S)
  BY <1>4, <1>5 DEF Pick
<1>7. Given(m, "type", "") = Given(s, "type", "")
  BY <1>4, <1>5 DEF Given
<1>8. BuildStrategy(m) = BuildStrategy(s)
  <2>1. Pick(m, {"type", "rollingUpdate"}) = Pick(s, {"type", "rollingUpdate"})
        /\ Pick(m, {"type"}) = Pick(s, {"type"})
    BY <1>6
  <2> QED
    BY <1>7, <2>1 DEF BuildStrategy
<1> QED
  BY <1>8 DEF m, b

(* traffic routing:                                                        *)
LEMMA RoutingStays ==
    ASSUME NEW t, IsFunction(t), \A r \in DOMAIN t : IsFunction(t[r])
    PROVE  MergeRouting(t, Routing(t)) = t
<1> DEFINE q == Routing(t)
           m == MergeRouting(t, q)
<1>1. /\ DOMAIN q \subseteq DOMAIN t
      /\ \A r \in DOMAIN q : q[r] = IF r = "nginx" THEN Nginx(t[r]) ELSE t[r]
  BY DEF Routing
<1> HIDE DEF q
<1>2. /\ IsFunction(m)
      /\ \A r : r \in DOMAIN m <=> r \in DOMAIN t \/ r \in DOMAIN q
      /\ \A r \in DOMAIN t \cap DOMAIN q : m[r] = Override(t[r], q[r])
      /\ \A r \in DOMAIN t \ DOMAIN q : m[r] = t[r]
  BY MergeRoutingIs
<1> HIDE DEF m
<1>3. ASSUME NEW r \in DOMAIN q PROVE Override(t[r], q[r]) = t[r]
  <2> DEFINE a == t[r]
             b == Nginx(a)
  <2>1. IsFunction(a)
    BY <1>1
  <2>2. b = Pick(a, {"stableIngress", "annotationPrefix"})
    BY DEF Nginx
  <2>3. q[r] = b \/ q[r] = a
    BY <1>1
  <2> HIDE DEF a, b
  <2>5. IsFunction(b) /\ DOMAIN b \subseteq DOMAIN a /\ \A x \in DOMAIN b : b[x] = a[x]
    BY <2>2, PickIsFunction
  <2>4. Override(a, b) = a /\ Override(a, a) = a
    BY <2>1, <2>5, OverrideSame
  <2> QED
    BY <2>3, <2>4 DEF a
<1>4. DOMAIN m = DOMAIN t /\ \A r \in DOMAIN t : m[r] = t[r]
  BY <1>1, <1>2, <1>3
<1>5. m = t
  BY <1>2, <1>4, SameFunction
<1> QED
  BY <1>5 DEF m, q

(* a canary or blueGreen whose objects are those it is merged with.        *)
LEMMA MergeFilledStays ==
    ASSUME NEW o, NEW n, IsFunction(n),
           \A x \in DOMAIN o \cap DOMAIN n \cap Settings : IsFunction(o[x]) /\ o[x] = n[x]
    PROVE  LET m == MergeFilled(o, n)
           IN /\ DOMAIN m = DOMAIN n
              /\ \A x \in DOMAIN n : x # "trafficRouting" => m[x] = n[x]
              /\ "trafficRouting" \notin DOMAIN n => m = n
<1> DEFINE m == MergeFilled(o, n)
           both == DOMAIN o \cap DOMAIN n \cap (Settings \cup {"trafficRouting"})
<1>1. /\ IsFunction(m) /\ \A x : x \in DOMAIN m <=> x \in DOMAIN n
      /\ \A x \in DOMAIN n \ both : m[x] = n[x]
      /\ \A x \in both \cap Settings : m[x] = Override(o[x], n[x])
  BY MergeFilledIs
<1> HIDE DEF m
<1>2. \A x \in both \cap Settings : m[x] = n[x]
  BY <1>1, OverrideSame
<1>3. DOMAIN m = DOMAIN n /\ \A x \in DOMAIN n : x # "trafficRouting" => m[x] = n[x]
  BY <1>1, <1>2
<1>4. "trafficRouting" \notin DOMAIN n => m = n
  BY <1>1, <1>3, SameFunction
<1> QED
  BY <1>3, <1>4 DEF m

(* Canaries that differ in routing that is not written.                    *)
LEMMA SameCanary ==
    ASSUME NEW p, NEW q, \A x : x \in DOMAIN p <=> x \in DOMAIN q,
           \A x \in DOMAIN q : x # "trafficRouting" => p[x] = q[x],
           "trafficRouting" \in DOMAIN q => Routing(p["trafficRouting"]) = Routing(q["trafficRouting"])
    PROVE  buildCanaryStrategy(p) = buildCanaryStrategy(q)
<1>1. Zeros(p) = Zeros(q)
  BY DEF Zeros
<1>2. Given(p, "steps", <<>>) = Given(q, "steps", <<>>)
  BY DEF Given
<1>3. Routing(Given(p, "trafficRouting", Nothing)) = Routing(Given(q, "trafficRouting", Nothing))
  BY DEF Given
<1>4. ASSUME NEW S PROVE Pick(p, S \ (Zeros(p) \cup {"trafficRouting"}))
                          = Pick(q, S \ (Zeros(q) \cup {"trafficRouting"}))
  BY <1>1 DEF Pick
<1> QED
  BY <1>2, <1>3, <1>4 DEF buildCanaryStrategy

(* The strategy of a Rollout.                                              *)
LEMMA RolloutStrategyStays ==
    ASSUME NEW o, FormField("rolloutStrategy", o),
           NEW f, "rolloutStrategy" \in DOMAIN f, f["rolloutStrategy"] = o,
           NEW s, s = buildRolloutStrategy(f),
           DocStrategy(s), SayableStrategy("Rollout", s),
           NEW g, "rolloutStrategy" \in DOMAIN g,
           g["rolloutStrategy"] = Merge(o, RolloutStrategy(s))
    PROVE  buildRolloutStrategy(g) = s
<1> DEFINE n == RolloutStrategy(s)
           m == Merge(o, n)
           h == [rolloutStrategy |-> n]
           both == DOMAIN o \cap DOMAIN n \cap ({"rollingUpdate"} \cup Strategies)
<1>0. "rolloutStrategy" \in DOMAIN h /\ h["rolloutStrategy"] = n
  OBVIOUS
<1>1. buildRolloutStrategy(h) = s
  <2> HIDE DEF h
  <2> QED
    BY <1>0, RolloutStrategyComesBack
<1> HIDE DEF h
<1>2. /\ \A y : y \in DOMAIN m <=> y \in DOMAIN o \/ y \in DOMAIN n
      /\ \A y \in DOMAIN n \ both : m[y] = n[y]
      /\ \A y \in DOMAIN o \ DOMAIN n : m[y] = o[y]
      /\ \A y \in both \cap Strategies : m[y] = MergeFilled(o[y], n[y])
  BY MergeIs
<1>3. g["rolloutStrategy"] = m
  OBVIOUS
<1> HIDE DEF m
<1>4. CASE "canary" \in DOMAIN s
  <2> DEFINE c == s["canary"]
  <2>1. n = [type |-> "Canary", canary |-> FormCanary(c)]
    BY <1>4 DEF RolloutStrategy, FormCanary
  <2>2. DOMAIN n = {"type", "canary"} /\ n["type"] = "Canary" /\ n["canary"] = FormCanary(c)
    BY <2>1
  <2>3. DOMAIN s = {"canary"} /\ SayableCanary(c) /\ DocCanary(c)
    BY <1>4 DEF SayableStrategy, DocStrategy
  <2> HIDE DEF n, c
  <2>4. m["type"] = "Canary" /\ "type" \in DOMAIN m /\ "canary" \in DOMAIN m
    BY <1>2, <2>2 DEF Strategies
  <2>5. buildRolloutStrategy(g) = buildCanaryStrategy(m["canary"])
    BY <1>3, <2>4 DEF buildRolloutStrategy, Given
  <2>6. buildRolloutStrategy(h) = buildCanaryStrategy(FormCanary(c))
    BY <1>0, <2>2 DEF buildRolloutStrategy, Given
  <2>7. buildCanaryStrategy(m["canary"]) = buildCanaryStrategy(FormCanary(c))
    <3>1. CASE "canary" \notin DOMAIN o
      BY <1>2, <2>2, <3>1
    <3>2. CASE "canary" \in DOMAIN o
      <4> DEFINE a == o["canary"]
                 b == FormCanary(c)
                 p == MergeFilled(a, b)
                 part == DOMAIN a \cap DOMAIN b \cap (Settings \cup {"trafficRouting"})
      <4>1. m["canary"] = p
        BY <1>2, <2>2, <3>2 DEF Strategies
      <4>2. /\ \A x : x \in DOMAIN p <=> x \in DOMAIN b
            /\ \A x \in DOMAIN b \ part : p[x] = b[x]
            /\ "trafficRouting" \in part =>
                  p["trafficRouting"] = MergeRouting(a["trafficRouting"], b["trafficRouting"])
        BY MergeFilledIs
      <4>3. /\ DOMAIN b = (DOMAIN c \cap CanaryFields) \cup {"steps"} /\ IsFunction(b)
            /\ \A x \in DOMAIN c \cap CanaryFields : b[x] = c[x]
        BY FormCanaryIs
      <4>7. HasSettings(a)
        BY <3>2 DEF FormField
      <4> HIDE DEF a, b
      <4>4. s = buildCanaryStrategy(a)
        <5>1. Given(o, "type", "") # "BlueGreen"
          <6> SUFFICES ASSUME Given(o, "type", "") = "BlueGreen" PROVE FALSE
            OBVIOUS
          <6>1. \/ s = DefaultBlueGreen
                \/ s = buildBlueGreenStrategy(o["blueGreen"])
            BY DEF buildRolloutStrategy
          <6>2. "canary" \notin DOMAIN DefaultBlueGreen
            BY DEF DefaultBlueGreen
          <6>3. \A e : "canary" \notin DOMAIN buildBlueGreenStrategy(e)
            <7> SUFFICES ASSUME NEW e PROVE "canary" \notin DOMAIN buildBlueGreenStrategy(e)
              OBVIOUS
            <7> DEFINE r == [blueGreen |-> Pick(e, BlueGreenFields)]
            <7>1. "canary" \notin DOMAIN r
              OBVIOUS
            <7>2. buildBlueGreenStrategy(e) = DefaultBlueGreen \/ buildBlueGreenStrategy(e) = r
              BY Zenon DEF buildBlueGreenStrategy
            <7> HIDE DEF r
            <7> QED
              BY <6>2, <7>1, <7>2
          <6> QED
            BY <1>4, <6>1, <6>2, <6>3
        <5> QED
          BY <3>2, <5>1 DEF buildRolloutStrategy, a
      <4>8. /\ "trafficRouting" \in DOMAIN c =>
                  c["trafficRouting"] = Routing(Given(a, "trafficRouting", Nothing))
            /\ \A x \in DOMAIN c \ {"steps", "trafficRouting"} : x \in DOMAIN a /\ c[x] = a[x]
        <5>1. PICK e : /\ buildCanaryStrategy(a) = [canary |-> e]
                       /\ DOMAIN e \ {"steps", "trafficRouting"} \subseteq DOMAIN a
                       /\ "trafficRouting" \in DOMAIN e =>
                             e["trafficRouting"] = Routing(Given(a, "trafficRouting", Nothing))
                       /\ \A x \in DOMAIN e \ {"steps", "trafficRouting"} : e[x] = a[x]
          BY BuiltCanaryIs
        <5>2. e = c
          BY <4>4, <5>1 DEF c
        <5> QED
          BY <5>1, <5>2
      <4>5. ASSUME "trafficRouting" \in DOMAIN b
            PROVE  Routing(p["trafficRouting"]) = Routing(b["trafficRouting"])
        <5>1. "trafficRouting" \in DOMAIN c /\ b["trafficRouting"] = c["trafficRouting"]
          BY <4>3, <4>5
        <5>2. CASE "trafficRouting" \notin DOMAIN a
          BY <4>2, <4>5, <5>2
        <5>3. CASE "trafficRouting" \in DOMAIN a
          <6> DEFINE t == a["trafficRouting"]
          <6>1. Given(a, "trafficRouting", Nothing) = t
            BY <5>3 DEF Given
          <6>3. c["trafficRouting"] = Routing(t)
            BY <4>8, <5>1, <6>1
          <6>4. p["trafficRouting"] = MergeRouting(t, Routing(t))
            BY <4>2, <4>5, <5>1, <5>3, <6>3
          <6>2. MergeRouting(t, Routing(t)) = t
            BY <4>7, <5>3, RoutingStays DEF HasSettings
          <6>5. c["trafficRouting"] = Routing(c["trafficRouting"])
            <7> DEFINE r == c["trafficRouting"]
            <7>1. IsFunction(r) /\ ("nginx" \in DOMAIN r => IsFunction(r["nginx"])) /\ SayableRouting(r)
              BY <2>3, <5>1 DEF DocCanary, HasSettings, SayableCanary
            <7> HIDE DEF r
            <7>2. Routing(r) = r
              BY <7>1, RoutingComesBack
            <7> QED
              BY <7>2 DEF r
          <6> QED
            BY <5>1, <6>2, <6>3, <6>4, <6>5
        <5> QED
          BY <5>2, <5>3
      <4>6. \A x \in DOMAIN b : x # "trafficRouting" => p[x] = b[x]
        <5>1. "steps" \notin Settings /\ "trafficRouting" \notin Settings
          BY DEF Settings
        <5>2. \A x \in DOMAIN a \cap DOMAIN b \cap Settings : IsFunction(a[x]) /\ a[x] = b[x]
          BY <4>3, <4>7, <4>8, <5>1 DEF HasSettings
        <5> QED
          BY <4>3, <5>2, MergeFilledStays
      <4> HIDE DEF p
      <4> QED
        BY <4>1, <4>2, <4>5, <4>6, SameCanary DEF b
    <3> QED
      BY <3>1, <3>2
  <2> QED
    BY <1>1, <2>5, <2>6, <2>7
<1>5. CASE "canary" \notin DOMAIN s
  <2> DEFINE c == s["blueGreen"]
             b == Pick(c, BlueGreenFields)
  <2>1. n = [type |-> "BlueGreen", blueGreen |-> b]
    BY <1>5 DEF RolloutStrategy
  <2>2. DOMAIN n = {"type", "blueGreen"} /\ n["type"] = "BlueGreen" /\ n["blueGreen"] = b
    BY <2>1
  <2>3. IsFunction(b) /\ DOMAIN b \subseteq BlueGreenFields
        /\ \A x \in DOMAIN b : x \in DOMAIN c /\ b[x] = c[x]
    <3> HIDE DEF c
    <3>1. DOMAIN b = DOMAIN c \cap BlueGreenFields /\ \A x \in DOMAIN b : b[x] = c[x]
      BY DEF Pick
    <3>2. IsFunction(b)
      BY DEF Pick, IsFunction
    <3> HIDE DEF b
    <3> QED
      BY <3>1, <3>2
  <2> HIDE DEF n, b
  <2>4. /\ m["type"] = "BlueGreen" /\ "type" \in DOMAIN m /\ "blueGreen" \in DOMAIN m
    BY <1>2, <2>2 DEF Strategies
  <2>5. m["blueGreen"] = b
    <3>1. CASE "blueGreen" \notin DOMAIN o
      BY <1>2, <2>2, <3>1
    <3>2. CASE "blueGreen" \in DOMAIN o
      <4> DEFINE a == o["blueGreen"]
      <4>1. m["blueGreen"] = MergeFilled(a, b)
        BY <1>2, <2>2, <3>2 DEF Strategies
      <4>2. HasSettings(a)
        BY <3>2 DEF FormField
      <4>3. s = DefaultBlueGreen \/ s = [blueGreen |-> Pick(a, BlueGreenFields)]
        <5>1. \A e : "canary" \in DOMAIN buildCanaryStrategy(e)
          BY DEF buildCanaryStrategy
        <5>2. "canary" \in DOMAIN DefaultCanary
          BY DEF DefaultCanary
        <5>3. s = DefaultBlueGreen \/ s = buildBlueGreenStrategy(a)
          BY <1>5, <5>1, <5>2 DEF buildRolloutStrategy
        <5>4. \/ buildBlueGreenStrategy(a) = DefaultBlueGreen
              \/ buildBlueGreenStrategy(a) = [blueGreen |-> Pick(a, BlueGreenFields)]
          BY Zenon DEF buildBlueGreenStrategy
        <5> QED
          BY <5>3, <5>4
      <4> HIDE DEF a
      <4>4. CASE s = DefaultBlueGreen
        <5>1. DOMAIN c = {"activeService", "previewService", "autoPromotionEnabled"}
          BY <4>4 DEF DefaultBlueGreen
        <5>2. DOMAIN b \cap Settings = {}
          BY <2>3, <5>1 DEF Settings
        <5>3. "trafficRouting" \notin DOMAIN b
          BY <2>3 DEF BlueGreenFields
        <5> QED
          BY <2>3, <4>1, <5>2, <5>3, MergeFilledStays
      <4>5. CASE s = [blueGreen |-> Pick(a, BlueGreenFields)]
        <5>1. c = Pick(a, BlueGreenFields)
          BY <4>5
        <5>2. \A x \in DOMAIN c : x \in DOMAIN a /\ c[x] = a[x]
          <6> DEFINE e == Pick(a, BlueGreenFields)
          <6>1. \A x \in DOMAIN e : x \in DOMAIN a /\ e[x] = a[x]
            BY DEF Pick
          <6> HIDE DEF e
          <6>2. c = e
            BY <5>1 DEF e
          <6> QED
            BY <6>1, <6>2
        <5>3. \A x \in DOMAIN a \cap DOMAIN b \cap Settings : IsFunction(a[x]) /\ a[x] = b[x]
          BY <2>3, <4>2, <5>2 DEF HasSettings
        <5>4. "trafficRouting" \notin DOMAIN b
          BY <2>3 DEF BlueGreenFields
        <5> QED
          BY <2>3, <4>1, <5>3, <5>4, MergeFilledStays
      <4> QED
        BY <4>3, <4>4, <4>5
    <3> QED
      BY <3>1, <3>2
  <2>6. buildRolloutStrategy(g) = buildBlueGreenStrategy(b)
    BY <1>3, <2>4, <2>5 DEF buildRolloutStrategy, Given
  <2>7. buildRolloutStrategy(h) = buildBlueGreenStrategy(b)
    BY <1>0, <2>2 DEF buildRolloutStrategy, Given
  <2> QED
    BY <1>1, <2>6, <2>7
<1> QED
  BY <1>4, <1>5

(* A text that the page wrote and the form can say, read into the form it  *)
(* was written from, leaves a form that agrees with it.                    *)
LEMMA RewrittenIsFilled ==
    ASSUME NEW kind \in Kinds, NEW f, IsStore(f), NEW doc, doc = Text(kind, f),
           SayableDoc(kind, doc)
    PROVE  Filled(setFieldsValue(f, FieldsOf(doc), yamlToFormData(doc)), doc)
<1> DEFINE F == yamlToFormData(doc)
           g == setFieldsValue(f, FieldsOf(doc), F)
           pod == doc.pod
           spec == doc.spec
<1>0. IsDocument(doc) /\ doc.kind = kind
  BY TextIsDocument
<1>1. /\ \A x \in FieldsOf(doc) \ Objects : Same(g, F, x)
      /\ \A x \in FieldsOf(doc) : x \in DOMAIN g <=> x \in DOMAIN F
  BY FilledValues
<1>2. /\ \A x \in DOMAIN F :
                    /\ x \in Objects \cap DOMAIN f => g[x] = Merge(f[x], F[x])
                    /\ x \notin Objects \cap DOMAIN f => g[x] = F[x]
  BY FilledStore
<1>3. /\ DOMAIN F = {"name", "labels", "annotations"}
                            \cup ({"description"} \cap DOMAIN doc.annotations)
                            \cup (DOMAIN pod \cap PodFields)
                            \cup {x \in {"scheduling"} : ReadRules(doc) # Nothing}
                            \cup DOMAIN ReadSpec(doc)
      /\ \A x \in DOMAIN pod \cap PodFields : F[x] = ReadAs(x, pod[x])
      /\ "scheduling" \in DOMAIN F => F["scheduling"] = ReadRules(doc)
      /\ \A x \in DOMAIN ReadSpec(doc) : F[x] = ReadSpec(doc)[x]
  BY ParsedForm
<1>4. DOMAIN ReadSpec(doc) \cap CommonFields = {}
  BY ReadSpecIs, ResourceFieldsApart
<1>5. /\ DOMAIN pod = (DOMAIN f \cap PodFields)
                      \cup {x \in {"affinity"} : WrittenRules(f) # Nothing}
                      \cup {x \in {"restartPolicy"} : kind \in Jobs}
      /\ \A x \in DOMAIN f \cap PodFields : pod[x] = WrittenAs(x, f[x])
      /\ "affinity" \in DOMAIN pod => pod["affinity"] = WrittenRules(f)
  BY TextPod
<1> HIDE DEF F, g, pod, spec
<1>6. {"scheduling", "dnsConfig"} \subseteq FieldsOf(doc) \cap CommonFields \cap Objects
      /\ "dnsConfig" \in PodFields /\ "scheduling" \notin PodFields /\ "affinity" \notin PodFields
  BY DEF FieldsOf, CommonFields, Objects, PodFields, PlainPodFields
<1>7. WrittenRules(g) = Given(pod, "affinity", Nothing)
  <2>1. /\ buildScheduling(ReadRules(doc)) = Given(pod, "affinity", Nothing)
        /\ ReadRules(doc) # Nothing <=> "affinity" \in DOMAIN pod
    BY <1>0, SayableRules DEF pod
  <2>2. "scheduling" \in DOMAIN g <=> "affinity" \in DOMAIN pod
    BY <1>1, <1>3, <1>4, <1>6, <2>1
  <2>3. CASE "affinity" \notin DOMAIN pod
    BY <2>2, <2>3, NoRules DEF WrittenRules, Given
  <2>4. CASE "affinity" \in DOMAIN pod
    <3> DEFINE n == ReadRules(doc)
               o == f["scheduling"]
    <3>1. WrittenRules(f) # Nothing /\ pod["affinity"] = WrittenRules(f)
      BY <1>5, <1>6, <2>4
    <3>2. "scheduling" \in DOMAIN f
      BY <3>1, NoRules DEF WrittenRules, Given
    <3>3. "scheduling" \in DOMAIN F /\ F["scheduling"] = n
      BY <1>1, <1>3, <1>6, <2>2, <2>4
    <3>4. g["scheduling"] = Merge(o, n)
      BY <1>2, <1>6, <3>2, <3>3
    <3>5. DOMAIN o \subseteq Rules
      BY <3>2 DEF IsStore, FormField
    <3>6. DOMAIN n \subseteq Rules
      <4>1. IsStore(F)
        BY <1>0, ParsedIsStore DEF F
      <4>2. FormField("scheduling", n)
        BY <3>3, <4>1 DEF IsStore
      <4> QED
        BY <4>2 DEF FormField
    <3>7. buildScheduling(n) = pod["affinity"] /\ buildScheduling(o) = pod["affinity"]
      BY <2>1, <2>4, <3>1, <3>2 DEF Given, WrittenRules
    <3> HIDE DEF n, o
    <3>8. buildScheduling(Merge(o, n)) = pod["affinity"]
      BY <3>5, <3>6, <3>7, RulesStay
    <3> QED
      BY <2>2, <2>4, <3>4, <3>8 DEF WrittenRules, Given
  <2> QED
    BY <2>3, <2>4
<1>8. /\ "dnsConfig" \in DOMAIN g <=> "dnsConfig" \in DOMAIN pod
      /\ "dnsConfig" \in DOMAIN g => BuildDns(g["dnsConfig"]) = pod["dnsConfig"]
  <2>1. "dnsConfig" \in DOMAIN g <=> "dnsConfig" \in DOMAIN pod
    BY <1>1, <1>3, <1>4, <1>6
  <2>2. ASSUME "dnsConfig" \in DOMAIN pod PROVE BuildDns(g["dnsConfig"]) = pod["dnsConfig"]
    <3> DEFINE o == f["dnsConfig"]
               n == F["dnsConfig"]
               m == Merge(o, n)
               b == BuildDns(m)
    <3>1. pod["dnsConfig"] = Nothing
      BY <2>2 DEF SayableDoc, SayablePod, SayablePodField, pod
    <3>2. "dnsConfig" \in DOMAIN f /\ pod["dnsConfig"] = BuildDns(o)
      BY <1>5, <1>6, <2>2 DEF WrittenAs
    <3>3. DOMAIN o \cap DnsFields = {}
      BY <3>1, <3>2, NothingIs DEF BuildDns
    <3>4. "dnsConfig" \in DOMAIN F /\ n = ParseDns(Nothing)
      BY <1>3, <1>6, <2>2, <3>1 DEF ReadAs
    <3>5. DOMAIN n = {}
      BY <3>4, NothingIs DEF ParseDns
    <3>6. g["dnsConfig"] = m
      BY <1>2, <1>6, <3>2, <3>4
    <3>7. \A x : x \in DOMAIN m <=> x \in DOMAIN o \/ x \in DOMAIN n
      BY MergeIs
    <3> HIDE DEF m
    <3>8. IsFunction(b) /\ DOMAIN b = {}
      BY <3>3, <3>5, <3>7 DEF BuildDns, IsFunction
    <3> HIDE DEF b
    <3>9. b = Nothing
      BY <3>8, NothingIs
    <3> QED
      BY <3>1, <3>6, <3>9 DEF b
  <2> QED
    BY <2>1, <2>2
<1>9. ASSUME kind = "Deployment"
      PROVE  /\ "strategy" \in DOMAIN g <=> "strategy" \in DOMAIN spec
             /\ "strategy" \in DOMAIN g => BuildStrategy(g["strategy"]) = spec["strategy"]
  <2>1. ~IsRollout(doc) /\ ResourceFields(doc) = parseDeploymentFields
    BY <1>0, <1>9, SayableKind
  <2>2. "strategy" \in ResourceFields(doc) /\ "strategy" \in FieldsOf(doc) /\ "strategy" \in Objects
    BY <2>1 DEF parseDeploymentFields, FieldsOf, Objects
  <2>3. "strategy" \notin CommonFields
    BY <2>2, ResourceFieldsApart
  <2>4. "strategy" \in DOMAIN ReadSpec(doc) <=> "strategy" \in DOMAIN spec
    BY <2>1, <2>2, ReadSpecIs DEF spec
  <2>5. "strategy" \in DOMAIN F <=> "strategy" \in DOMAIN spec
    BY <1>3, <2>3, <2>4 DEF CommonFields
  <2>6. "strategy" \in DOMAIN g <=> "strategy" \in DOMAIN spec
    BY <1>1, <2>2, <2>5
  <2>7. ASSUME "strategy" \in DOMAIN spec PROVE BuildStrategy(g["strategy"]) = spec["strategy"]
    <3>1. F["strategy"] = spec["strategy"]
      BY <1>3, <2>4, <2>7, ReadSpecIs DEF spec
    <3>2. /\ DOMAIN spec = {"replicas"} \cup (DOMAIN f \cap (Times \cup {"strategy"}))
          /\ spec["strategy"] = BuildStrategy(f["strategy"])
      BY <1>9, <2>7, DeploymentText DEF spec
    <3>3. "strategy" \in DOMAIN f
      BY <2>7, <3>2
    <3>4. g["strategy"] = Merge(f["strategy"], BuildStrategy(f["strategy"]))
      BY <1>2, <2>2, <2>5, <2>7, <3>1, <3>2, <3>3
    <3>5. FormField("strategy", f["strategy"])
      BY <3>3 DEF IsStore
    <3> QED
      BY <3>2, <3>4, <3>5, StrategyStays
  <2> QED
    BY <2>6, <2>7
<1>10. ASSUME kind = "Rollout" PROVE buildRolloutStrategy(Pick(g, Copied)) = spec["strategy"]
  <2> DEFINE s == spec["strategy"]
             p == Pick(f, Copied)
             q == Pick(g, Copied)
  <2>1. IsRollout(doc) /\ HasStrategy(doc) /\ ResourceFields(doc) = parseRolloutFields
    BY <1>0, <1>10, SayableKind
  <2>2. "rolloutStrategy" \in ResourceFields(doc) /\ "rolloutStrategy" \in FieldsOf(doc)
        /\ "rolloutStrategy" \in Objects /\ "rolloutStrategy" \in Copied
    BY <2>1 DEF parseRolloutFields, FieldsOf, Objects, Copied
  <2>3. "rolloutStrategy" \in DOMAIN ReadSpec(doc)
        /\ ReadSpec(doc)["rolloutStrategy"] = RolloutStrategy(s)
    BY <2>1, ReadSpecIs DEF spec
  <2>4. "rolloutStrategy" \in DOMAIN F /\ F["rolloutStrategy"] = RolloutStrategy(s)
    BY <1>3, <2>3
  <2>5. "rolloutStrategy" \in DOMAIN g
    BY <1>1, <2>2, <2>4
  <2>6. s = buildRolloutStrategy(p)
    BY <1>10, RolloutText DEF spec
  <2>7. DocStrategy(s) /\ SayableStrategy("Rollout", s)
    <3>1. "rolloutStrategy" \in DOMAIN p => FormField("rolloutStrategy", p["rolloutStrategy"])
      BY <2>2, CopiedFields DEF IsStore
    <3> HIDE DEF p, s
    <3> QED
      BY <2>6, <3>1, WrittenRolloutStrategy
  <2>8. "rolloutStrategy" \in DOMAIN q /\ q["rolloutStrategy"] = g["rolloutStrategy"]
    BY <2>2, <2>5, CopiedFields
  <2> HIDE DEF s, q
  <2>9. CASE "rolloutStrategy" \in DOMAIN f
    <3>1. "rolloutStrategy" \in DOMAIN p /\ p["rolloutStrategy"] = f["rolloutStrategy"]
      BY <2>2, <2>9, CopiedFields
    <3>2. q["rolloutStrategy"] = Merge(f["rolloutStrategy"], RolloutStrategy(s))
      BY <1>2, <2>2, <2>4, <2>8, <2>9
    <3>4. FormField("rolloutStrategy", f["rolloutStrategy"])
      BY <2>9 DEF IsStore
    <3> HIDE DEF p
    <3>3. buildRolloutStrategy(q) = s
      BY <2>6, <2>7, <2>8, <3>1, <3>2, <3>4, RolloutStrategyStays
    <3> QED
      BY <3>3 DEF s, q
  <2>10. CASE "rolloutStrategy" \notin DOMAIN f
    <3>1. q["rolloutStrategy"] = RolloutStrategy(s)
      BY <1>2, <2>4, <2>8, <2>10
    <3>2. buildRolloutStrategy(q) = s
      BY <2>7, <2>8, <3>1, RolloutStrategyComesBack
    <3> QED
      BY <3>2 DEF s, q
  <2> QED
    BY <2>9, <2>10
<1>11. Filled(g, doc)
  BY <1>0, <1>1, <1>7, <1>8, <1>9, <1>10 DEF Filled, F, pod, spec
<1> QED
  BY <1>11 DEF g, F

-----------------------------------------------------------------------------
(* The way there and back.  The texts of the page are documents and its    *)
(* form is a store; what the page was opened with is still to be loaded    *)
(* while it is loading.                                                    *)
DocInv ==
    /\ page = "loading" => /\ mode = "yaml" /\ cluster = visit.stored
                           /\ loaded = None /\ written = None
    /\ yaml = Broken \/ IsDocument(yaml)
    /\ loaded = None \/ IsDocument(loaded)
    /\ IsStore(form)

(* DocInv holds when the page opens.                                       *)
LEMMA DocInit == Init => DocInv
<1> SUFFICES ASSUME Init PROVE DocInv
  OBVIOUS
<1>1. Page \in Kinds
  BY ProperVisits DEF Init, Page
<1> QED
  BY <1>1, DefaultIsStore, TemplateIsDocument DEF Init, DocInv

(* Every step of the page keeps DocInv.                                    *)
LEMMA DocNext == TypeOK /\ DocInv /\ [Next]_vars => DocInv'
<1> SUFFICES ASSUME TypeOK, DocInv, [Next]_vars
             PROVE  DocInv'
  OBVIOUS
<1>0. Page \in Kinds /\ (visit.stored = None \/ IsDocument(visit.stored))
  BY ProperVisits DEF TypeOK, Page
<1>1. ASSUME NEW doc, IsDocument(doc)
      PROVE  IsStore(setFieldsValue(form, FieldsOf(doc), yamlToFormData(doc)))
  BY <1>1, FilledIsStore, ParsedIsStore DEF DocInv
<1>2. CASE loadWorkload
  <2>1. page' = "open" /\ loaded' = loaded
    BY <1>2 DEF loadWorkload, history
  <2>2. CASE UNCHANGED <<yaml, form>>
    BY <2>1, <2>2 DEF DocInv
  <2>3. CASE ~UNCHANGED <<yaml, form>>
    <3>1. /\ cluster # None /\ yaml' = cluster
          /\ form' = setFieldsValue(form, FieldsOf(cluster), yamlToFormData(cluster))
      BY <1>2, <2>3 DEF loadWorkload
    <3>2. IsDocument(cluster)
      BY <1>0, <1>2, <3>1 DEF loadWorkload, DocInv
    <3> QED
      BY <1>1, <2>1, <3>1, <3>2 DEF DocInv
  <2> QED
    BY <2>2, <2>3
<1>3. CASE TypeYaml
  <2>1. yaml' \in Texts[Page]
    BY <1>3 DEF TypeYaml
  <2>2. yaml' = Broken \/ IsDocument(yaml')
    BY <1>0, <2>1, ProperTexts
  <2> QED
    BY <1>3, <2>2 DEF TypeYaml, Ready, DocInv
<1>4. CASE EnterInput
  <2>1. IsStore(form')
    BY <1>4, EnteredIsStore DEF EnterInput, DocInv
  <2> QED
    BY <1>4, <2>1 DEF EnterInput, Ready, DocInv
<1>5. CASE ToYaml
  <2>1. yaml' = yaml \/ yaml' = Text(Page, form)
    BY <1>5 DEF ToYaml, formToYaml, Text
  <2>2. yaml' = Broken \/ IsDocument(yaml')
    BY <1>0, <2>1, TextIsDocument DEF DocInv
  <2> QED
    BY <1>5, <2>2 DEF ToYaml, Ready, DocInv
<1>6. CASE ToForm
  <2>1. IsDocument(yaml)
    BY <1>6 DEF ToForm, DocInv
  <2> QED
    BY <1>1, <1>6, <2>1 DEF ToForm, Ready, DocInv
<1>7. ASSUME UNCHANGED <<visit, yaml, form, loaded, written, mode>>,
             (page' = page /\ cluster' = cluster) \/ page' = "left"
      PROVE  DocInv'
  BY <1>7 DEF DocInv
<1>8. CASE handleDryRun \/ DryRunAnswer \/ handleSubmit
  BY <1>7, <1>8 DEF handleDryRun, DryRunAnswer, handleSubmit, history
<1>9. CASE CancelDialog \/ ConfirmDialog \/ Applied \/ ApplyFailed
  BY <1>7, <1>9 DEF CancelDialog, ConfirmDialog, Applied, ApplyFailed, history
<1>10. CASE UNCHANGED vars
  BY <1>7, <1>10 DEF vars
<1> QED
  BY <1>2, <1>3, <1>4, <1>5, <1>6, <1>8, <1>9, <1>10 DEF Next

(* As long as nothing was entered, the form has what was read from the     *)
(* text it was filled from, but for what an earlier text left in objects.  *)
AgreesWith(f, doc) ==
    /\ \A x \in FieldsOf(doc) \ Objects : Same(f, yamlToFormData(doc), x)
    /\ \A x \in FieldsOf(doc) : x \in DOMAIN f <=> x \in DOMAIN yamlToFormData(doc)
FillInv ==
    mode = "form" /\ loaded # None =>
        yaml = loaded /\ (entered = Nothing => AgreesWith(form, loaded))

(* An input is something entered.                                          *)
LEMMA EnteredIsSomething ==
    ASSUME EnterInput
    PROVE  entered' # Nothing
<1>1. PICK input \in Inputs :
          entered' = Override(entered, [x \in {input.path} |-> input.value])
  BY DEF EnterInput
<1>2. input.path \in DOMAIN entered'
  BY <1>1 DEF Override
<1> QED
  BY <1>2, NothingIs

(* Every step of the page keeps FillInv.                                   *)
LEMMA FillNext == DocInv /\ FillInv /\ [Next]_vars => FillInv'
<1> SUFFICES ASSUME DocInv, FillInv, [Next]_vars
             PROVE  FillInv'
  OBVIOUS
<1>1. CASE loadWorkload
  BY <1>1 DEF loadWorkload, history, DocInv, FillInv
<1>2. CASE TypeYaml
  BY <1>2 DEF TypeYaml, FillInv
<1>3. CASE EnterInput
  <2>1. /\ entered' # Nothing
        /\ mode' = mode /\ yaml' = yaml /\ loaded' = loaded
    BY <1>3, EnteredIsSomething DEF EnterInput
  <2> QED
    BY <2>1 DEF FillInv
<1>4. CASE ToYaml
  BY <1>4 DEF ToYaml, FillInv
<1>5. CASE ToForm
  <2>1. /\ yaml' = yaml /\ loaded' = yaml
        /\ form' = setFieldsValue(form, FieldsOf(yaml), yamlToFormData(yaml))
    BY <1>5 DEF ToForm
  <2>2. AgreesWith(form', yaml)
    BY <2>1, FilledValues DEF AgreesWith
  <2> QED
    BY <2>1, <2>2 DEF FillInv
<1>6. ASSUME UNCHANGED <<mode, yaml, form, loaded, entered>>
      PROVE  FillInv'
  BY <1>6 DEF FillInv
<1>7. CASE handleDryRun \/ DryRunAnswer \/ handleSubmit
  BY <1>6, <1>7 DEF handleDryRun, DryRunAnswer, handleSubmit, history
<1>8. CASE CancelDialog \/ ConfirmDialog \/ Applied \/ ApplyFailed
  BY <1>6, <1>8 DEF CancelDialog, ConfirmDialog, Applied, ApplyFailed, history
<1>9. CASE UNCHANGED vars
  BY <1>6, <1>9 DEF vars
<1> QED
  BY <1>1, <1>2, <1>3, <1>4, <1>5, <1>7, <1>8, <1>9 DEF Next

(* FillInv is strong enough: with nothing left over, the form agrees with  *)
(* the text in all its fields.                                             *)
LEMMA FillInvSuffices == TypeOK /\ DocInv /\ FillInv => SayableComesBack
<1> SUFFICES ASSUME TypeOK, DocInv, FillInv, mode = "form", loaded # None,
                    entered = Nothing, NothingLeft, SayableDoc(Page, loaded)
             PROVE  Shown = loaded
  BY DEF SayableComesBack
<1> DEFINE F == yamlToFormData(loaded)
<1>1. Page \in Kinds /\ IsDocument(loaded)
  BY ProperVisits DEF TypeOK, Page, DocInv
<1>2. yaml = loaded /\ AgreesWith(form, loaded)
  BY DEF FillInv
<1>3. ASSUME NEW x \in FieldsOf(loaded)
      PROVE  Same(form, F, x)
  <2>1. CASE x \in Objects
    BY <1>2, <2>1 DEF AgreesWith, NothingLeft, Same
  <2>2. CASE x \notin Objects
    BY <1>2, <2>2 DEF AgreesWith
  <2> QED
    BY <2>1, <2>2
<1>4. Filled(form, loaded)
  BY <1>1, <1>3, AgreeingIsFilled
<1>5. Text(Page, form) = loaded
  BY <1>1, <1>4, SayableIsBuilt
<1> QED
  BY <1>2, <1>5 DEF Shown, formToYaml, Text

(* A document that the form can say comes back from the form as it was,    *)
(* for every kind and whatever else was typed before                       *)
(* (workloadYamlService.ts: yamlToFormData and formDataToYAML are inverse  *)
(* on what the inputs of the form can hold).                               *)
THEOREM EditorKeepsSayable == Spec => []SayableComesBack
<1>1. Init => FillInv
  BY DEF Init, FillInv
<1> QED
  BY <1>1, DocInit, DocNext, FillNext, FillInvSuffices, EditorTypeCorrect, PTL DEF Spec

(* A text that the page wrote is what its form says until one of them      *)
(* changes, and still after the form was filled from it.                   *)
StableInv ==
    /\ mode = "yaml" /\ written # None =>
          yaml = written /\ ~Throws(form) /\ written = Text(Page, form)
    /\ mode = "form" /\ loaded # None /\ entered = Nothing /\ loaded = written =>
          Unsettled(loaded) \/ Throws(form) \/ Text(Page, form) = loaded

(* Name servers that were written are lists once they are read again.      *)
LEMMA ServersThrow ==
    ASSUME NEW kind, NEW f, NEW doc, doc = Text(kind, f),
           "dnsConfig" \in DOMAIN doc.pod, doc.pod["dnsConfig"] # Nothing
    PROVE  Throws(setFieldsValue(f, FieldsOf(doc), yamlToFormData(doc)))
<1> DEFINE F == yamlToFormData(doc)
           g == setFieldsValue(f, FieldsOf(doc), F)
           dns == doc.pod["dnsConfig"]
<1>0. "dnsConfig" \in PodFields /\ "dnsConfig" \in Objects
      /\ "affinity" # "dnsConfig" /\ "restartPolicy" # "dnsConfig"
  BY DEF PodFields, Objects
<1>1. "dnsConfig" \in DOMAIN f /\ dns = BuildDns(f["dnsConfig"])
  <2> DEFINE pod == doc.pod
  <2>1. /\ DOMAIN pod = (DOMAIN f \cap PodFields)
                        \cup {x \in {"affinity"} : WrittenRules(f) # Nothing}
                        \cup {x \in {"restartPolicy"} : kind \in Jobs}
        /\ \A x \in DOMAIN f \cap PodFields : pod[x] = WrittenAs(x, f[x])
    BY TextPod
  <2>2. "dnsConfig" \in DOMAIN pod
    OBVIOUS
  <2> HIDE DEF pod
  <2>3. "dnsConfig" \in DOMAIN f /\ pod["dnsConfig"] = WrittenAs("dnsConfig", f["dnsConfig"])
    BY <1>0, <2>1, <2>2
  <2> QED
    BY <2>3 DEF WrittenAs, pod
<1>2. IsFunction(dns) /\ DOMAIN dns \subseteq DnsFields
  BY <1>1 DEF BuildDns, IsFunction
<1>3. DOMAIN dns # {}
  BY <1>2, NothingIs
<1>4. "dnsConfig" \in DOMAIN F /\ F["dnsConfig"] = ParseDns(dns)
  BY <1>0, ParsedForm DEF ReadAs
<1>5. g["dnsConfig"] = Merge(f["dnsConfig"], ParseDns(dns)) /\ "dnsConfig" \in DOMAIN g
  BY <1>0, <1>1, <1>4, FilledStore
<1> HIDE DEF dns, F, g
<1>6. PICK y : y \in DOMAIN dns /\ y \in DnsFields
  BY <1>2, <1>3
<1>7. y \in DOMAIN ParseDns(dns) /\ ParseDns(dns)[y].list = TRUE
  BY <1>6 DEF ParseDns
<1>8. y \notin {"rollingUpdate"} \cup Strategies
  BY <1>6 DEF DnsFields, Strategies
<1>9. y \in DOMAIN g["dnsConfig"] /\ g["dnsConfig"][y].list = TRUE
  <2> DEFINE n == ParseDns(dns)
             m == Merge(f["dnsConfig"], n)
  <2>1. y \in DOMAIN m /\ m[y] = n[y]
    BY <1>7, <1>8, MergeIs
  <2> HIDE DEF m
  <2> QED
    BY <1>5, <1>7, <2>1 DEF m
<1>10. Throws(g)
  BY <1>5, <1>6, <1>9 DEF Throws
<1> QED
  BY <1>10 DEF g, F

(* Reading a text that the page wrote and writing it again.                *)
LEMMA SecondConversion ==
    ASSUME NEW kind \in Kinds, NEW f, IsStore(f), NEW doc, doc = Text(kind, f), ~Unsettled(doc)
    PROVE  LET g == setFieldsValue(f, FieldsOf(doc), yamlToFormData(doc))
           IN Throws(g) \/ Text(kind, g) = doc
<1> DEFINE g == setFieldsValue(f, FieldsOf(doc), yamlToFormData(doc))
<1>1. CASE "dnsConfig" \in DOMAIN doc.pod /\ doc.pod["dnsConfig"] # Nothing
  BY <1>1, ServersThrow
<1>2. CASE "dnsConfig" \in DOMAIN doc.pod => doc.pod["dnsConfig"] = Nothing
  <2>1. IsDocument(doc) /\ SayableDoc(kind, doc)
    BY <1>2, TextIsDocument, TextIsSayable
  <2>2. Filled(g, doc)
    BY <2>1, RewrittenIsFilled
  <2> HIDE DEF g
  <2>3. Text(kind, g) = doc
    BY <2>1, <2>2, SayableIsBuilt
  <2> QED
    BY <2>3 DEF g
<1> QED
  BY <1>1, <1>2

(* Every step of the page keeps StableInv.                                 *)
LEMMA StableNext == TypeOK /\ DocInv /\ StableInv /\ [Next]_vars => StableInv'
<1> SUFFICES ASSUME TypeOK, DocInv, StableInv, [Next]_vars
             PROVE  StableInv'
  OBVIOUS
<1>0. Page \in Kinds
  BY ProperVisits DEF TypeOK, Page
<1>1. CASE loadWorkload
  BY <1>1 DEF loadWorkload, history, DocInv, StableInv
<1>2. CASE TypeYaml
  BY <1>2 DEF TypeYaml, StableInv
<1>3. CASE EnterInput
  <2>1. entered' # Nothing /\ mode' = "form"
    BY <1>3, EnteredIsSomething DEF EnterInput
  <2> QED
    BY <2>1 DEF StableInv
<1>4. CASE ToYaml
  <2>1. mode' = "yaml" /\ form' = form /\ Page' = Page
    BY <1>4 DEF ToYaml, Page
  <2>2. CASE Throws(form)
    BY <1>4, <2>1, <2>2 DEF ToYaml, StableInv
  <2>3. CASE ~Throws(form)
    <3>1. yaml' = Text(Page, form) /\ written' = Text(Page, form)
      BY <1>4, <2>3 DEF ToYaml, formToYaml, Text
    <3> QED
      BY <2>1, <2>3, <3>1 DEF StableInv
  <2> QED
    BY <2>2, <2>3
<1>5. CASE ToForm
  <2>1. /\ mode = "yaml" /\ mode' = "form" /\ loaded' = yaml /\ written' = written
        /\ form' = setFieldsValue(form, FieldsOf(yaml), yamlToFormData(yaml))
        /\ Page' = Page
    BY <1>5 DEF ToForm, Ready, Page
  <2>2. ASSUME yaml # None, yaml = written, ~Unsettled(yaml)
        PROVE  Throws(form') \/ Text(Page, form') = yaml
    <3>1. yaml = Text(Page, form)
      BY <2>1, <2>2 DEF StableInv
    <3> QED
      BY <1>0, <2>1, <2>2, <3>1, SecondConversion DEF DocInv
  <2> QED
    BY <2>1, <2>2 DEF StableInv
<1>6. ASSUME UNCHANGED <<visit, mode, yaml, form, loaded, entered, written>>
      PROVE  StableInv'
  <2>1. Page' = Page
    BY <1>6 DEF Page
  <2> QED
    BY <1>6, <2>1 DEF StableInv
<1>7. CASE handleDryRun \/ DryRunAnswer \/ handleSubmit
  BY <1>6, <1>7 DEF handleDryRun, DryRunAnswer, handleSubmit, history
<1>8. CASE CancelDialog \/ ConfirmDialog \/ Applied \/ ApplyFailed
  BY <1>6, <1>8 DEF CancelDialog, ConfirmDialog, Applied, ApplyFailed, history
<1>9. CASE UNCHANGED vars
  BY <1>6, <1>9 DEF vars
<1> QED
  BY <1>1, <1>2, <1>3, <1>4, <1>5, <1>7, <1>8, <1>9 DEF Next

(* A text that the page wrote, filled into the form and written again, is  *)
(* the same text: whatever the first conversion lost, the second loses     *)
(* nothing (handleModeChange, DeploymentCreate.tsx).                       *)
THEOREM EditorRoundTrips == Spec => []RoundTripIsStable
<1>1. Init => FillInv /\ StableInv
  BY DEF Init, FillInv, StableInv
<1>2. FillInv /\ StableInv => RoundTripIsStable
  BY DEF FillInv, StableInv, RoundTripIsStable, Shown, formToYaml, Text
<1> QED
  BY <1>1, <1>2, DocInit, DocNext, FillNext, StableNext, EditorTypeCorrect, PTL DEF Spec
=============================================================================
