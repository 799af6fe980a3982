--------------------------- MODULE WorkloadEditor ---------------------------
(***************************************************************************)
(* The page that creates or edits a workload                               *)
(* (ui/src/pages/workload/DeploymentCreate.tsx, components/workload/*.tsx, *)
(* services/workloadService.ts applyYAML, internal/handlers/deployment.go  *)
(* applyYAML, which the other five kinds repeat).                          *)
(*                                                                         *)
(* The page has two faces, the form and the YAML text.  A text is a        *)
(* document of WorkloadYaml or Broken (no YAML).  Each handler is an       *)
(* action; an answer of the server is an action of its own, so that the    *)
(* user can do other things in between.  A loading button takes no click,  *)
(* and an open dialog covers the page.                                     *)
(***************************************************************************)
EXTENDS WorkloadYaml

CONSTANTS Visits,     \* ways to open the page: a kind, whether an existing
                      \* workload is edited, and what the cluster has
          Texts,      \* what the user may type as YAML, by the page's kind
          Inputs,     \* what the user may enter in the form: [path, value]
          Objs,       \* nodes and Pods, as functions from label keys to values
          Topologies, \* topology keys
          Broken,     \* a text that is not YAML
          None,       \* nothing
          MaxEdits    \* bound: texts typed and inputs made

ASSUME ProperVisits ==
    \A v \in Visits : /\ v.kind \in Kinds /\ v.editing \in BOOLEAN
                      /\ v.stored = None \/ IsDocument(v.stored)
ASSUME ProperTexts == \A k \in Kinds : \A t \in Texts[k] : t = Broken \/ IsDocument(t)
FormFields ==
    CommonFields \cup parseDeploymentFields \cup parseRolloutFields
        \cup parseStatefulSetFields \cup parseJobFields \cup parseCronJobFields

(* The inputs of the form, as far as they are modelled; a list is one      *)
(* input.  Not modelled are those inside a strategy but its type.          *)
SpecInputs ==
    {"replicas", "serviceName", "schedule", "suspend", "concurrencyPolicy"} \cup Times
        \cup (parseJobFields \ {"ttlSecondsAfterFinished"})
InputPaths ==
    {<<f>> : f \in {"name", "description", "labels", "annotations", "containers",
                    "initContainers", "volumes", "tolerations"}
                     \cup (PlainPodFields \ {"nodeSelector"}) \cup SpecInputs}
        \cup {<<"strategy", "type">>, <<"rolloutStrategy", "type">>}
        \cup {<<"dnsConfig", f>> : f \in DnsFields}
        \cup {<<"scheduling", rule>> : rule \in Rules}

ASSUME BoundedEdits == MaxEdits \in Nat
ASSUME KnownInputs ==
    \A input \in Inputs :
        /\ input.path \in InputPaths
        /\ Len(input.path) = 1 => FormField(input.path[1], input.value)
ASSUME NoneIsNoText == None # Broken /\ \A k \in Kinds : None \notin Texts[k]

VARIABLES visit,      \* the address the page was opened with
          mode,       \* "form" or "yaml"
          yaml,       \* yamlContent
          form,       \* the store of the antd form
          original,   \* originalYaml
          check,      \* the text a running dry run was started with, or None
          result,     \* dryRunResult: None, or [passed, text]; text is history
          dialog,     \* the text a confirmation is open for, or None
          diff,       \* whether the confirmation shows a diff (diffModalVisible)
          sending,    \* the text that is being submitted, or None
          cluster,    \* the workload in the cluster, or None
          page,       \* "loading", "open", "left"
          edits       \* bound

(* History: what the properties speak of.                                  *)
VARIABLES loaded,     \* the document the form was last filled from, or None
          entered,    \* inputs since then, by field
          written,    \* the last text that formToYaml produced, or None
          moved       \* whether the page changed while the dry run went on

vars == <<visit, mode, yaml, form, original, check, result, dialog, diff, sending, cluster,
          page, edits, loaded, entered, written, moved>>
history == <<loaded, entered, written, moved>>

Page == visit.kind
Editing == visit.editing

-----------------------------------------------------------------------------
(* The form's store.                                                       *)

DefaultContainer ==
    [name |-> "main", image |-> "", imagePullPolicy |-> "IfNotPresent",
     resources |-> [requests |-> [cpu |-> "100m", memory |-> "128Mi"],
                    limits |-> [cpu |-> "500m", memory |-> "512Mi"]]]
DefaultValues ==
    LET all == [replicas |-> 1, containers |-> <<DefaultContainer>>,
                rolloutStrategy |->
                    [type |-> "Canary", canary |-> [steps |-> FormSteps(DefaultSteps)]]]
    IN Pick(all, {"containers"} \cup (IF Page = "DaemonSet" THEN {} ELSE {"replicas"})
                 \cup (IF Page = "Rollout" THEN {"rolloutStrategy"} ELSE {}))
getDefaultYaml ==
    formDataToYAML(Page, Pick(DefaultValues, {"replicas", "containers"}))

(* setFieldsValue replaces lists and scalars and merges objects, to any    *)
(* depth, with what the form held before.  `fields` are those its argument *)
(* has, undefined ones included; a parsed canary or blueGreen has all its  *)
(* fields.                                                                 *)
Objects == {"scheduling", "dnsConfig", "strategy", "rolloutStrategy"}
Strategies == {"canary", "blueGreen"}
MergeRouting(old, new) ==
    Override(Override(old, new),
             [r \in DOMAIN old \cap DOMAIN new |-> Override(old[r], new[r])])
MergeFilled(old, new) ==
    Override(new, [x \in DOMAIN old \cap DOMAIN new \cap (Settings \cup {"trafficRouting"}) |->
                      IF x = "trafficRouting" THEN MergeRouting(old[x], new[x])
                      ELSE Override(old[x], new[x])])
Merge(old, new) ==
    Override(Override(old, new),
             [x \in DOMAIN old \cap DOMAIN new \cap ({"rollingUpdate"} \cup Strategies) |->
                 IF x \in Strategies THEN MergeFilled(old[x], new[x])
                 ELSE Override(old[x], new[x])])
setFieldsValue(store, fields, values) ==
    Override(Pick(store, DOMAIN store \ fields),
             [f \in DOMAIN values |->
                 IF f \in Objects \cap DOMAIN store
                 THEN Merge(store[f], values[f]) ELSE values[f]])
(* An input writes at its place in the store.                              *)
SetAt(f, path, value) ==
    Override(f, [x \in {path[1]} |->
        IF Len(path) = 1 THEN value
        ELSE Override(Given(f, x, Nothing), [y \in {path[2]} |-> value])])
FieldsOf(doc) == CommonFields \cup ResourceFields(doc)

(* formToYaml copies these from the store; whatever throws on the way      *)
(* leaves the text the page had.                                           *)
(* Fault: the scheduling rules are not copied.                             *)
CopiedWithoutRules ==
    (CommonFields \ {"scheduling"}) \cup {"replicas", "strategy", "serviceName"}
Copied ==
    CommonFields \cup {"replicas", "strategy", "serviceName", "schedule",
                       "suspend", "concurrencyPolicy", "completions",
                       "parallelism", "backoffLimit", "activeDeadlineSeconds",
                       "rolloutStrategy"} \cup Times
formToYaml ==
    IF Throws(form) THEN yaml ELSE formDataToYAML(Page, Pick(form, Copied))

Shown == IF mode = "form" THEN formToYaml ELSE yaml

-----------------------------------------------------------------------------
Init ==
    /\ visit \in Visits
    /\ mode = IF Editing THEN "yaml" ELSE "form"
    /\ yaml = getDefaultYaml
    /\ form = IF Editing THEN Nothing ELSE DefaultValues
    /\ original = None /\ check = None /\ result = None
    /\ dialog = None /\ diff = FALSE /\ sending = None
    /\ cluster = visit.stored
    /\ page = IF Editing THEN "loading" ELSE "open"
    /\ edits = 0
    /\ loaded = None /\ entered = Nothing /\ written = None
    /\ moved = FALSE

(* Editing: the workload is fetched once; a failure leaves the template.   *)
loadWorkload ==
    /\ page = "loading"
    /\ page' = "open"
    /\ \/ /\ cluster # None
          /\ original' = cluster /\ yaml' = cluster
          /\ form' = setFieldsValue(form, FieldsOf(cluster),
                                    yamlToFormData(cluster))
       \/ UNCHANGED <<original, yaml, form>>
    /\ UNCHANGED <<visit, mode, check, result, dialog, diff, sending, cluster, edits, history>>

Ready == page = "open" /\ dialog = None

(* The user types in the YAML editor.                                      *)
TypeYaml ==
    /\ Ready /\ mode = "yaml" /\ edits < MaxEdits
    /\ \E text \in Texts[Page] \ {yaml} : yaml' = text
    /\ result' = None /\ written' = None
    /\ moved' = (check # None)
    /\ edits' = edits + 1
    /\ UNCHANGED <<visit, mode, form, original, check, dialog, diff, sending, cluster, page,
                   loaded, entered>>

(* Inputs that are there for some kinds only.                              *)
Offered(path) ==
    CASE path[1] = "replicas" -> Page \notin Jobs \cup {"DaemonSet"}
      [] path[1] = "serviceName" -> Page = "StatefulSet"
      [] path[1] \in {"schedule", "suspend", "concurrencyPolicy"} -> Page = "CronJob"
      [] path[1] \in parseJobFields -> Page = "Job"
      [] path[1] = "strategy" -> Page = "Deployment"
      [] path[1] = "rolloutStrategy" -> Page = "Rollout"
      [] path[1] \in Times -> Page \in {"Deployment", "Rollout"}
      [] OTHER -> TRUE

(* The user changes an input of the form (handleFormValuesChange).         *)
EnterInput ==
    /\ Ready /\ mode = "form" /\ edits < MaxEdits
    /\ \E input \in Inputs :
        /\ Offered(input.path)
        /\ form' = SetAt(form, input.path, input.value)
        /\ form' # form
        /\ entered' = Override(entered, [x \in {input.path} |-> input.value])
    /\ result' = None
    /\ moved' = (check # None)
    /\ edits' = edits + 1
    /\ UNCHANGED <<visit, mode, yaml, original, check, dialog, diff, sending, cluster, page,
                   loaded, written>>

(* handleModeChange; the switch is shown when creating only.               *)
ToYaml ==
    /\ Ready /\ ~Editing /\ mode = "form"
    /\ mode' = "yaml" /\ yaml' = formToYaml
    /\ result' = None
    /\ written' = IF Throws(form) THEN None ELSE formToYaml
    /\ moved' = (check # None)
    /\ UNCHANGED <<visit, form, original, check, dialog, diff, sending, cluster, page, edits,
                   loaded, entered>>

ToForm ==
    /\ Ready /\ ~Editing /\ mode = "yaml" /\ yaml # Broken
    /\ mode' = "form"
    /\ form' = setFieldsValue(form, FieldsOf(yaml), yamlToFormData(yaml))
    /\ result' = None
    /\ loaded' = yaml /\ entered' = Nothing
    /\ moved' = (check # None)
    /\ UNCHANGED <<visit, yaml, original, check, dialog, diff, sending, cluster, page, edits,
                   written>>

(* handleDryRun and its answer.                                            *)
(* Fault: the text is checked also when the form is shown.                 *)
handleDryRunOfText ==
    /\ Ready /\ check = None
    /\ IF yaml = Broken
       THEN /\ result' = [passed |-> FALSE, text |-> Broken]
            /\ UNCHANGED <<check, moved>>
       ELSE check' = yaml /\ result' = None /\ moved' = FALSE
    /\ UNCHANGED <<visit, mode, yaml, form, original, dialog, diff, sending, cluster,
                   page, edits, loaded, entered, written>>
handleDryRun ==
    /\ Ready /\ check = None
    /\ IF Shown = Broken
       THEN /\ result' = [passed |-> FALSE, text |-> Broken]
            /\ UNCHANGED <<check, moved>>
       ELSE check' = Shown /\ result' = None /\ moved' = FALSE
    /\ UNCHANGED <<visit, mode, yaml, form, original, dialog, diff, sending, cluster, page,
                   edits, loaded, entered, written>>

DryRunAnswer ==
    /\ page # "left" /\ check # None
    /\ \E passed \in BOOLEAN : result' = [passed |-> passed, text |-> check]
    /\ check' = None
    /\ UNCHANGED <<visit, mode, yaml, form, original, dialog, diff, sending, cluster, page,
                   edits, history>>

(* Fault: the format is not checked before the question.                   *)
handleSubmitUnparsed ==
    /\ Ready /\ sending = None
    /\ dialog' = Shown
    /\ diff' = (Editing /\ original # None)
    /\ UNCHANGED <<visit, mode, yaml, form, original, check, result, sending,
                   cluster, page, edits, loaded, entered, written, moved>>
(* handleSubmit: a diff when there is an original, else a question.        *)
handleSubmit ==
    /\ Ready /\ sending = None /\ Shown # Broken
    /\ dialog' = Shown
    /\ diff' = (Editing /\ original # None)
    /\ UNCHANGED <<visit, mode, yaml, form, original, check, result, sending, cluster,
                   page, edits, loaded, entered, written, moved>>

CancelDialog ==
    /\ dialog # None
    /\ dialog' = None
    /\ UNCHANGED <<visit, mode, yaml, form, original, diff, check, result, sending, cluster,
                   page, edits, history>>

(* The diff is closed at once; the question stays until the answer.        *)
ConfirmDialog ==
    /\ dialog # None /\ sending = None
    /\ sending' = dialog
    /\ dialog' = IF diff THEN None ELSE dialog
    /\ UNCHANGED <<visit, mode, yaml, form, original, diff, check, result, cluster, page,
                   edits, history>>

(* submitYaml and applyYAML of the server: the stored object is looked up, *)
(* its resource version taken over, and the object replaced or made.       *)
Applied ==
    /\ sending # None /\ page # "left"
    /\ cluster' = sending
    /\ sending' = None /\ dialog' = None /\ page' = "left"
    /\ UNCHANGED <<visit, mode, yaml, form, original, diff, check, result, edits, history>>

ApplyFailed ==
    /\ sending # None /\ page # "left"
    /\ sending' = None /\ dialog' = None
    /\ UNCHANGED <<visit, mode, yaml, form, original, diff, check, result, cluster, page,
                   edits, history>>

Next == \/ loadWorkload \/ TypeYaml \/ EnterInput \/ ToYaml \/ ToForm
        \/ handleDryRun \/ DryRunAnswer \/ handleSubmit \/ CancelDialog
        \/ ConfirmDialog \/ Applied \/ ApplyFailed

Spec == Init /\ [][Next]_vars
-----------------------------------------------------------------------------
TypeOK ==
    /\ visit \in Visits /\ mode \in {"form", "yaml"}
    /\ page \in {"loading", "open", "left"} /\ edits \in 0..MaxEdits
    /\ result = None \/ result.passed \in BOOLEAN
    /\ moved \in BOOLEAN /\ diff \in BOOLEAN
    /\ check # Broken /\ dialog # Broken /\ sending # Broken
    /\ DOMAIN form \subseteq FormFields

(* Whether a document has what an input entered.  An input that was        *)
(* emptied leaves the field to its default.                                *)
Has(f, field, value) == field \in DOMAIN f /\ f[field] = value
Says(doc, path, value) ==
    CASE path = <<"name">> -> value # "" => doc.name = value
      [] path = <<"description">> ->
             value # "" => Has(doc.annotations, "description", value)
      [] path = <<"labels">> ->
             Kept(value) # Nothing =>
                 doc.labels = Kept(value) /\ doc.templateLabels = Kept(value)
      [] path = <<"annotations">> ->
             \A key \in DOMAIN Kept(value) : Has(doc.annotations, key, value[key])
      [] path[1] \in {"containers", "initContainers"} ->
             Has(doc.pod, path[1], [i \in DOMAIN value |-> buildContainerSpec(value[i])])
      [] path = <<"volumes">> ->
             Has(doc.pod, "volumes", [i \in DOMAIN value |-> buildVolumeSpec(value[i])])
      [] path = <<"tolerations">> ->
             Has(doc.pod, "tolerations", [i \in DOMAIN value |-> BuildToleration(value[i])])
      [] path[1] = "dnsConfig" ->
             Has(Given(doc.pod, "dnsConfig", Nothing), path[2], value.of)
      [] path[1] = "scheduling" ->
             value # {} => Has(Given(doc.pod, "affinity", Nothing), path[2],
                               TermsOf(path[2], value))
      [] path[1] = "strategy" -> Has(Given(doc.spec, "strategy", Nothing), "type", value)
      [] path[1] = "rolloutStrategy" ->
             DOMAIN Given(doc.spec, "strategy", Nothing)
                 = {IF value = "BlueGreen" THEN "blueGreen" ELSE "canary"}
      [] path[1] \in PlainPodFields -> Has(doc.pod, path[1], value)
      [] path[1] \in {"serviceName", "schedule"} ->
             value # "" => Has(doc.spec, path[1], value)
      [] OTHER -> Has(doc.spec, path[1], value)

(* As long as the conversion of the form does not fail, what the user      *)
(* enters in it is in the text that the page shows next and in the one it  *)
(* asks to confirm, also after the form was filled from a text.  The       *)
(* failure that is excused is the one over name servers that came from     *)
(* YAML, after which the page shows an old text (formToYaml's catch); so   *)
(* is a description for which the form has an annotation.                  *)
Excused(path) ==
    \/ Throws(form)
    \/ path = <<"description">> /\ "description" \in DOMAIN Given(form, "annotations", Nothing)
InputsAreWritten ==
    mode = "form" =>
        \A path \in DOMAIN entered :
            \/ Excused(path)
            \/ /\ Says(Shown, path, entered[path])
               /\ dialog # None => Says(dialog, path, entered[path])

(* A text that the page wrote itself and that went to the form and back    *)
(* untouched is the same text: the first conversion may lose something,    *)
(* the second never does.  Excused: what the form writes without being     *)
(* able to say it (Unsettled).                                             *)
RoundTripIsStable ==
    mode = "form" /\ loaded # None /\ loaded = written /\ entered = Nothing
        => Unsettled(loaded) \/ Shown = loaded

(* A document that the form can say comes back from the form as it was.    *)
(* Excused: objects in the form that still hold parts of an earlier text.  *)
NothingLeft ==
    LET parsed == yamlToFormData(loaded)
    IN \A f \in Objects \cap DOMAIN form :
           f \in DOMAIN parsed /\ form[f] = parsed[f]
SayableComesBack ==
    mode = "form" /\ loaded # None /\ entered = Nothing /\ NothingLeft
        => (SayableDoc(Page, loaded) => Shown = loaded)

(* Going through the form never weakens the required rules of a text: the  *)
(* workload's Pods get onto no node, next to no Pod and away from no Pod   *)
(* that the text's rules ruled out, even with rules left over from an      *)
(* earlier text.  This is about texts without a nodeSelector, which the    *)
(* form drops (parseCommonFields), and about rules without fields, blank   *)
(* values or other namespaces, those of Pod affinity with one expression   *)
(* per term: the form makes a term of each.                                *)
Rule(doc) == Given(doc.pod, "affinity", Nothing)
Selector(doc) == Given(doc.pod, "nodeSelector", Nothing)
NotWeaker(shown, text) ==
    /\ Selector(text) = Nothing /\ PlainNodeRules(Rule(text)) =>
          \A node \in Objs : NodeAllowed(node, Selector(shown), Rule(shown))
                                => NodeAllowed(node, Selector(text), Rule(text))
    /\ \A pod \in Objs : \A keys \in SUBSET Topologies :
          LET pods == [t \in Topologies |-> IF t \in keys THEN {pod} ELSE {}]
          IN /\ PlainAntiRules(Rule(text)) =>
                   (AntiAllowed(pods, Rule(shown)) => AntiAllowed(pods, Rule(text)))
             /\ PlainNearRules(Rule(text)) =>
                   (NearAllowed(pods, Rule(shown)) => NearAllowed(pods, Rule(text)))
RulesAreNotWeaker ==
    mode = "form" /\ loaded # None
      /\ (\A path \in DOMAIN entered : path[1] # "scheduling")
        => LET shown == Shown IN NotWeaker(shown, loaded)

(* A passed pre-check that the page shows is about what the page shows,    *)
(* unless the page was changed while the check was under way.              *)
PassedCheckIsCurrent ==
    result # None /\ ~moved => (result.passed => result.text = Shown)
=============================================================================
