---------------------------- MODULE WorkloadYaml ----------------------------
(***************************************************************************)
(* A workload's YAML and the form of the create page, and the conversions  *)
(* between them (ui/src/services/workloadYamlService.ts, yaml*Service.ts). *)
(*                                                                         *)
(* A document (what YAML.parse gives) is a record: kind, name, metadata,   *)
(* the labels of selector and template, and two functions whose domains    *)
(* are the fields that are written: spec and pod.  The values of the form  *)
(* are one function whose domain are the fields that are not undefined.    *)
(* Scalars are values that are carried over; only those the code looks at  *)
(* (zero, an empty text, a type) are spelled out.  Where the code does not *)
(* tell an empty value (FALSE, an empty list) from a field that is not     *)
(* there, the field is not there.                                          *)
(***************************************************************************)
EXTENDS Affinity, SequencesExt

Pick(f, fields) == [x \in DOMAIN f \cap fields |-> f[x]]
Override(f, g) == [x \in DOMAIN f \cup DOMAIN g |->
                      IF x \in DOMAIN g THEN g[x] ELSE f[x]]
Given(f, field, default) == IF field \in DOMAIN f THEN f[field] ELSE default
(* formData.name || "example": an empty text counts as none.               *)
GivenText(f, field, default) ==
    IF Given(f, field, "") = "" THEN default ELSE f[field]
Nothing == [x \in {} |-> x]

-----------------------------------------------------------------------------
(* Commands.  An argument is a sequence of lines; a line has an indentation*)
(* and a text.  The form holds all lines of all arguments as one text; on  *)
(* the way back every line that is not blank becomes an argument.          *)

commandArrayToString(arguments) == FlattenSeq(arguments)
Trimmed(line) == [indented |-> FALSE, text |-> line.text]
EmptyTexts == {<<>>, <<[indented |-> FALSE, text |-> ""]>>}
parseCommandString(text) ==
    FlattenSeq([i \in DOMAIN text |->
                   IF text[i].text = "" THEN <<>> ELSE <<<<Trimmed(text[i])>>>>])

-----------------------------------------------------------------------------
(* Probes, hooks, containers.  A handler has a type (exec, httpGet,        *)
(* tcpSocket, grpc), a command if it is exec, and otherwise settings.      *)

ProbeTimes == {"initialDelaySeconds", "periodSeconds", "timeoutSeconds",
               "successThreshold", "failureThreshold"}
HandlerFields ==
    [httpGet |-> {"path", "port", "scheme"}, tcpSocket |-> {"port"}]
HandlerDefaults == [httpGet |-> [path |-> "/", port |-> 80], tcpSocket |-> Nothing]

parseProbe(probe) ==
    IF probe.type = "exec"
    THEN [probe EXCEPT !.command = commandArrayToString(@)]
    ELSE probe
(* A probe whose handler the form does not know keeps its times only.      *)
buildProbeConfig(probe) ==
    [type |-> IF \/ probe.type \in DOMAIN HandlerFields
                 \/ probe.type = "exec" /\ probe.command \notin EmptyTexts
              THEN probe.type ELSE "none",
     command |-> IF probe.type = "exec"
                 THEN parseCommandString(probe.command) ELSE <<>>,
     settings |-> IF probe.type \in DOMAIN HandlerFields
                  THEN Override(HandlerDefaults[probe.type],
                                Pick(probe.settings, HandlerFields[probe.type]))
                  ELSE Nothing,
     times |-> Pick(probe.times, ProbeTimes)]

(* Of the hooks only commands are read.                                    *)
ParseLifecycle(hooks) ==
    [h \in DOMAIN hooks |->
        IF hooks[h].type = "exec" THEN commandArrayToString(hooks[h].command)
        ELSE <<>>]
BuildLifecycle(hooks) ==
    [h \in {g \in DOMAIN hooks : parseCommandString(hooks[g]) # <<>>} |->
        [type |-> "exec", command |-> parseCommandString(hooks[h])]]

Probes == {"livenessProbe", "readinessProbe", "startupProbe"}
Commands == {"command", "args"}
InitContainerFields == Commands \cup
    {"name", "image", "imagePullPolicy", "workingDir", "env", "resources",
     "volumeMounts"}
ContainerFields ==
    InitContainerFields \cup Probes \cup {"ports", "lifecycle"}

ParseContainer(c, fields) ==
    [f \in DOMAIN c \cap fields |->
        CASE f \in Commands -> commandArrayToString(c[f])
          [] f \in Probes -> parseProbe(c[f])
          [] f = "lifecycle" -> ParseLifecycle(c[f])
          [] OTHER -> c[f]]

Requests == {"cpu", "memory", "ephemeral-storage"}
BuildResources(r) ==
    [requests |-> Pick(r.requests, Requests),
     limits |-> Pick(r.limits, Requests \cup {"nvidia.com/gpu"})]
(* TCP is the default and not written.                                     *)
BuildPort(port) ==
    Pick(port, {"name", "containerPort"} \cup
               (IF Given(port, "protocol", "TCP") = "TCP" THEN {} ELSE {"protocol"}))
BuildMount(m) == Pick(m, {"name", "mountPath", "subPath", "readOnly"})
Image(c) == IF "image" \in DOMAIN c /\ c["image"] # "" THEN c["image"]
            ELSE "nginx:latest"

(* Fields that come to nothing are not written.                            *)
WrittenFields(c) ==
    {f \in DOMAIN c :
        CASE f \in Commands -> parseCommandString(c[f]) # <<>>
          [] f = "lifecycle" -> BuildLifecycle(c[f]) # Nothing
          [] f \in Probes -> LET p == buildProbeConfig(c[f])
                            IN p.type # "none" \/ p.times # Nothing
          [] OTHER -> TRUE}
buildContainerSpec(c) ==
    [f \in WrittenFields(c) \cup {"image"} |->
        CASE f = "image" -> Image(c)
          [] f \in Commands -> parseCommandString(c[f])
          [] f \in Probes -> buildProbeConfig(c[f])
          [] f = "lifecycle" -> BuildLifecycle(c[f])
          [] f = "resources" -> BuildResources(c[f])
          [] f = "ports" -> [i \in DOMAIN c[f] |-> BuildPort(c[f][i])]
          [] f = "volumeMounts" -> [i \in DOMAIN c[f] |-> BuildMount(c[f][i])]
          [] OTHER -> c[f]]

-----------------------------------------------------------------------------
(* Volumes, tolerations, DNS.                                              *)

VolumeFields ==
    [hostPath |-> {"path", "type"}, configMap |-> {"name", "items", "defaultMode"},
     secret |-> {"secretName", "items", "defaultMode"},
     persistentVolumeClaim |-> {"claimName", "readOnly"}]
VolumeName == [hostPath |-> "path", configMap |-> "name", secret |-> "secretName",
               persistentVolumeClaim |-> "claimName"]
VolumeTypes == DOMAIN VolumeFields \cup {"emptyDir"}

(* A volume of any other type, or of none, becomes an empty directory.     *)
ParseVolume(v) ==
    IF v.type \in VolumeTypes THEN v
    ELSE [v EXCEPT !.type = "emptyDir", !.config = Nothing]
(* What a volume refers to is written even if it is not there.             *)
buildVolumeSpec(v) ==
    IF v.type = "emptyDir" THEN v
    ELSE [v EXCEPT !.config = Override([f \in {VolumeName[v.type]} |-> ""],
                                       Pick(@, VolumeFields[v.type]))]

(* A toleration that is read gets an operator (operator || 'Equal'); one   *)
(* that was added in the form has none until the user chooses it.          *)
TolerationFields == {"key", "operator", "value", "effect", "tolerationSeconds"}
ParseToleration(t) == Override([operator |-> "Equal"], Pick(t, TolerationFields))
BuildToleration(t) == Pick(t, TolerationFields)

(* The inputs of the form hold a text; what was parsed from YAML is a list,*)
(* on which the split of parseCommaString throws.                          *)
DnsFields == {"nameservers", "searches"}
ParseDns(dns) ==
    [f \in DOMAIN dns |-> IF f \in DnsFields THEN [list |-> TRUE, of |-> dns[f]]
                          ELSE dns[f]]
BuildDns(dns) == [f \in DOMAIN dns \cap DnsFields |-> dns[f].of]
Throws(form) ==
    /\ "dnsConfig" \in DOMAIN form
    /\ \E f \in DOMAIN form["dnsConfig"] \cap DnsFields :
           form["dnsConfig"][f].list

-----------------------------------------------------------------------------
(* Canary steps.  A form step is a function from some of StepParts; a      *)
(* weight and a pause with a duration right after it are one form step.    *)
(* A pause is Nothing (until it is resumed) or has a duration, which is a  *)
(* number in the text if it is not quoted.                                 *)

StepParts == {"setWeight", "pause", "setCanaryScale", "analysis"}
Pauses(step) == "pause" \in DOMAIN step /\ step["pause"] # Nothing

(* String(duration): the form, and what it writes, has texts only.         *)
normalizePauseDuration(pause) ==
    IF pause = Nothing THEN pause ELSE [duration |-> pause.duration, quoted |-> TRUE]
Spelled(raw) ==
    [i \in DOMAIN raw |->
        [x \in DOMAIN raw[i] |-> IF x = "pause" THEN normalizePauseDuration(raw[i][x])
                                 ELSE raw[i][x]]]
IsSpelled(step) ==
    "pause" \in DOMAIN step => step["pause"] = normalizePauseDuration(step["pause"])

(* Fault: the step after a weight is skipped whether or not it was taken.  *)
FormStepsSkipping(raw) ==
    LET from[i \in 1..Len(raw) + 2] ==
        IF i > Len(raw) THEN <<>>
        ELSE IF "setWeight" \in DOMAIN raw[i]
        THEN <<IF i < Len(raw) /\ Pauses(raw[i + 1])
               THEN Override(raw[i], raw[i + 1]) ELSE raw[i]>> \o from[i + 2]
        ELSE IF DOMAIN raw[i] \cap StepParts # {} THEN <<raw[i]>> \o from[i + 1]
        ELSE from[i + 1]
    IN from[1]

(* Steps of other kinds are passed over.                                   *)
FormSteps(raw) ==
    LET from[i \in 1..Len(raw) + 1] ==
        IF i > Len(raw) THEN <<>>
        ELSE IF "setWeight" \in DOMAIN raw[i] /\ i < Len(raw)
                /\ Pauses(raw[i + 1])
        THEN <<Override(raw[i], raw[i + 1])>> \o from[i + 2]
        ELSE IF DOMAIN raw[i] \cap StepParts # {} THEN <<raw[i]>> \o from[i + 1]
        ELSE from[i + 1]
    IN from[1]
Part(step, part) ==
    IF part \in DOMAIN step THEN <<[x \in {part} |-> step[x]]>> ELSE <<>>
RawStep(step) ==
    Part(step, "setWeight") \o Part(step, "pause") \o Part(step, "setCanaryScale")
        \o Part(step, "analysis")
RawSteps(steps) == FlattenSeq([i \in DOMAIN steps |-> RawStep(steps[i])])

CanaryFields == {"maxSurge", "maxUnavailable", "stableService", "canaryService",
                 "trafficRouting", "analysis", "canaryMetadata",
                 "stableMetadata"}
Routers == {"nginx", "istio", "alb"}
BlueGreenFields ==
    {"activeService", "previewService", "autoPromotionEnabled",
     "autoPromotionSeconds", "scaleDownDelaySeconds",
     "scaleDownDelayRevisionLimit", "previewReplicaCount", "previewMetadata",
     "activeMetadata", "prePromotionAnalysis", "postPromotionAnalysis"}

(* Fields of both that hold objects: functions from the paths of what they *)
(* hold to scalars and lists.  Routing is a function from routers to such  *)
(* objects.                                                                *)
Settings == {"analysis", "canaryMetadata", "stableMetadata", "previewMetadata",
             "activeMetadata", "prePromotionAnalysis", "postPromotionAnalysis"}

Pause(d) == [pause |-> [duration |-> d, quoted |-> TRUE]]
DefaultSteps == <<[setWeight |-> 20], Pause("10m"), [setWeight |-> 50],
                  Pause("10m"), [setWeight |-> 80], Pause("10m")>>
DefaultCanary == [canary |-> [steps |-> DefaultSteps]]
DefaultBlueGreen ==
    [blueGreen |-> [activeService |-> "my-app-active",
                    previewService |-> "my-app-preview",
                    autoPromotionEnabled |-> FALSE]]

(* A number 0 is taken for "not set" (if (canary.maxUnavailable)).         *)
Zeros(canary) == {f \in DOMAIN canary \cap {"maxSurge", "maxUnavailable"} :
                     canary[f] = 0}
(* Of the routing, what the form knows; nginx without an ingress is none.  *)
Nginx(r) == Pick(r, {"stableIngress", "annotationPrefix"})
Routing(routing) ==
    [r \in {x \in DOMAIN routing \cap Routers :
                x = "nginx" => "stableIngress" \in DOMAIN routing[x]} |->
        IF r = "nginx" THEN Nginx(routing[r]) ELSE routing[r]]
buildCanaryStrategy(canary) ==
    LET computed ==
            [steps |-> RawSteps(Given(canary, "steps", <<>>)),
             trafficRouting |-> Routing(Given(canary, "trafficRouting", Nothing))]
    IN [canary |->
            Override(
                Pick(canary, CanaryFields \ (Zeros(canary) \cup {"trafficRouting"})),
                Pick(computed, {f \in DOMAIN computed : DOMAIN computed[f] # {}}))]
buildBlueGreenStrategy(blueGreen) ==
    IF "activeService" \notin DOMAIN blueGreen THEN DefaultBlueGreen
    ELSE [blueGreen |-> Pick(blueGreen, BlueGreenFields)]
buildRolloutStrategy(form) ==
    IF "rolloutStrategy" \notin DOMAIN form THEN DefaultCanary
    ELSE LET s == form["rolloutStrategy"]
         IN IF Given(s, "type", "") = "BlueGreen"
            THEN IF "blueGreen" \in DOMAIN s
                 THEN buildBlueGreenStrategy(s["blueGreen"])
                 ELSE DefaultBlueGreen
            ELSE IF "canary" \in DOMAIN s THEN buildCanaryStrategy(s["canary"])
                 ELSE DefaultCanary

HasStrategy(doc) ==
    DOMAIN Given(doc.spec, "strategy", Nothing) \cap {"canary", "blueGreen"} # {}
IsRollout(doc) == doc.kind = "Rollout" \/ HasStrategy(doc)
RolloutStrategy(strategy) ==
    IF "canary" \in DOMAIN strategy
    THEN LET canary == strategy["canary"]
             steps == IF "steps" \in DOMAIN canary THEN canary["steps"] ELSE <<>>
         IN [type |-> "Canary",
             canary |-> Override(Pick(canary, CanaryFields),
                                 [steps |-> FormSteps(Spelled(steps))])]
    ELSE [type |-> "BlueGreen",
          blueGreen |-> Pick(strategy["blueGreen"], BlueGreenFields)]

-----------------------------------------------------------------------------
(* The fields of spec, per kind: which are read and which are written.     *)

Kinds == {"Deployment", "StatefulSet", "DaemonSet", "Rollout", "Job", "CronJob"}
Times == {"minReadySeconds", "revisionHistoryLimit", "progressDeadlineSeconds"}
parseDeploymentFields == {"replicas", "strategy"} \cup Times
parseRolloutFields == {"replicas", "rolloutStrategy"} \cup Times
parseStatefulSetFields == {"replicas", "serviceName", "podManagementPolicy"}
parseJobFields == {"completions", "parallelism", "backoffLimit",
                   "activeDeadlineSeconds", "ttlSecondsAfterFinished"}
parseCronJobFields ==
    {"schedule", "suspend", "concurrencyPolicy", "successfulJobsHistoryLimit",
     "failedJobsHistoryLimit"}
ResourceFields(doc) ==
    IF IsRollout(doc) THEN parseRolloutFields
    ELSE CASE doc.kind = "StatefulSet" -> parseStatefulSetFields
           [] doc.kind = "Job" -> parseJobFields
           [] doc.kind = "CronJob" -> parseCronJobFields
           [] OTHER -> parseDeploymentFields

BuildStrategy(s) ==
    IF Given(s, "type", "") = "RollingUpdate" THEN Pick(s, {"type", "rollingUpdate"})
    ELSE Pick(s, {"type"})
buildDeploymentSpec(form) ==
    Override(Pick(form, Times),
             [x \in {"replicas"} \cup ({"strategy"} \cap DOMAIN form) |->
                 IF x = "replicas" THEN Given(form, "replicas", 1)
                 ELSE BuildStrategy(form["strategy"])])
buildRolloutSpec(form) ==
    Override(Pick(form, Times),
             [replicas |-> Given(form, "replicas", 1),
              strategy |-> buildRolloutStrategy(form)])
(* Fault: the service is always named after the workload.                  *)
buildStatefulSetSpecUnread(form) ==
    Override(Pick(form, {"podManagementPolicy"}),
             [replicas |-> Given(form, "replicas", 1),
              serviceName |-> Given(form, "name", "")])
buildStatefulSetSpec(form) ==
    Override(Pick(form, {"podManagementPolicy"}),
             [replicas |-> Given(form, "replicas", 1),
              serviceName |-> GivenText(form, "serviceName", Given(form, "name", ""))])
buildJobSpec(form) == Pick(form, parseJobFields)
buildCronJobSpec(form) ==
    Override(Pick(form, parseCronJobFields),
             [schedule |-> GivenText(form, "schedule", "0 0 * * *")])
BuildSpec(kind, form) ==
    CASE kind = "Deployment" -> buildDeploymentSpec(form)
      [] kind = "StatefulSet" -> buildStatefulSetSpec(form)
      [] kind = "DaemonSet" -> Nothing
      [] kind = "Job" -> buildJobSpec(form)
      [] kind = "CronJob" -> buildCronJobSpec(form)
      [] kind = "Rollout" -> buildRolloutSpec(form)

-----------------------------------------------------------------------------
(* The whole document.                                                     *)

(* Fields of a Pod that go through the form as they are.                   *)
PlainPodFields == {"dnsPolicy", "terminationGracePeriodSeconds", "hostNetwork",
                   "imagePullSecrets", "nodeSelector"}
PodFields == {"containers", "initContainers", "volumes", "tolerations", "dnsConfig"}
                 \cup (PlainPodFields \ {"nodeSelector"})
CommonFields ==
    {"name", "description", "labels", "annotations", "scheduling"} \cup PodFields

ReadPod(pod) ==
    [f \in DOMAIN pod \cap PodFields |->
        CASE f = "containers" ->
                [i \in DOMAIN pod[f] |-> ParseContainer(pod[f][i], ContainerFields)]
          [] f = "initContainers" ->
                [i \in DOMAIN pod[f] |-> ParseContainer(pod[f][i], InitContainerFields)]
          [] f = "volumes" -> [i \in DOMAIN pod[f] |-> ParseVolume(pod[f][i])]
          [] f = "tolerations" -> [i \in DOMAIN pod[f] |-> ParseToleration(pod[f][i])]
          [] f = "dnsConfig" -> ParseDns(pod[f])
          [] OTHER -> pod[f]]
ParsePod(pod) ==
    LET scheduling == parseAffinityToScheduling(Given(pod, "affinity", Nothing))
    IN Override(ReadPod(pod),
                [f \in {g \in {"scheduling"} : scheduling # Nothing} |-> scheduling])

(* The description is read twice: as such and as an annotation.            *)
parseCommonFields(doc) ==
    LET meta == [name |-> doc.name, labels |-> doc.labels,
                 annotations |-> doc.annotations]
    IN Override(Override(meta, ParsePod(doc.pod)),
                [f \in {"description"} \cap DOMAIN doc.annotations |->
                    doc.annotations[f]])

yamlToFormData(doc) ==
    LET spec == IF IsRollout(doc)
                THEN Override(Pick(doc.spec, {"replicas"} \cup Times),
                              [f \in {g \in {"rolloutStrategy"} : HasStrategy(doc)} |->
                                  RolloutStrategy(doc.spec["strategy"])])
                ELSE Pick(doc.spec, ResourceFields(doc))
    IN Override(parseCommonFields(doc), spec)

(* Labels and annotations without a value are left out; an annotation      *)
(* called description overrides the description.                           *)
Kept(pairs) == [k \in {x \in DOMAIN pairs : pairs[x] # ""} |-> pairs[k]]
BuildAnnotations(form) ==
    Override(Kept(Pick(form, {"description"})), Kept(Given(form, "annotations", Nothing)))
BuildLabels(form) ==
    LET labels == Kept(Given(form, "labels", Nothing))
    IN IF labels = Nothing THEN [app |-> GivenText(form, "name", "app")] ELSE labels

Jobs == {"Job", "CronJob"}
BuildPod(kind, form) ==
    LET affinity == buildScheduling(Given(form, "scheduling", Nothing))
        written == Pick(form, {"containers", "initContainers", "volumes",
                               "tolerations", "dnsConfig"} \cup PlainPodFields)
    IN Override(
        [f \in DOMAIN written |->
            CASE f \in {"containers", "initContainers"} ->
                    [i \in DOMAIN form[f] |-> buildContainerSpec(form[f][i])]
              [] f = "volumes" ->
                    [i \in DOMAIN form[f] |-> buildVolumeSpec(form[f][i])]
              [] f = "tolerations" ->
                    [i \in DOMAIN form[f] |-> BuildToleration(form[f][i])]
              [] f = "dnsConfig" -> BuildDns(form[f])
              [] OTHER -> form[f]],
        [f \in {g \in {"affinity", "restartPolicy"} :
                    IF g = "affinity" THEN affinity # Nothing
                    ELSE kind \in Jobs} |->
            IF f = "affinity" THEN affinity ELSE "Never"])

formDataToYAML(kind, form) ==
    [kind |-> kind, name |-> GivenText(form, "name", "example"),
     labels |-> BuildLabels(form), annotations |-> BuildAnnotations(form),
     selector |-> IF kind \in Jobs THEN Nothing ELSE BuildLabels(form),
     templateLabels |-> BuildLabels(form), templateAnnotations |-> Nothing,
     spec |-> BuildSpec(kind, form), pod |-> BuildPod(kind, form)]
-----------------------------------------------------------------------------
(* Shapes: what YAML.parse of a manifest and the form's store look like.   *)

IsFunction(f) == f = [x \in DOMAIN f |-> f[x]]
IsList(s) == Len(s) \in Nat /\ s = [i \in 1..Len(s) |-> s[i]]
IsLine(l) == l = [indented |-> l.indented, text |-> l.text] /\ l.indented \in BOOLEAN
IsText(t) == IsList(t) /\ \A i \in DOMAIN t : IsLine(t[i])
IsCommand(c) == IsList(c) /\ \A i \in DOMAIN c : IsText(c[i])

DocProbe(p) ==
    /\ p = [type |-> p.type, command |-> p.command, settings |-> p.settings,
            times |-> p.times]
    /\ IsCommand(p.command) /\ IsFunction(p.settings) /\ IsFunction(p.times)
    /\ IF p.type = "exec" THEN p.settings = Nothing ELSE p.command = <<>>
DocHooks(hooks) ==
    IsFunction(hooks) /\ \A h \in DOMAIN hooks :
        /\ hooks[h] = [type |-> hooks[h].type, command |-> hooks[h].command]
        /\ IsCommand(hooks[h].command)
DocContainer(c) ==
    /\ IsFunction(c) /\ {"name", "image"} \subseteq DOMAIN c
    /\ \A f \in DOMAIN c :
          CASE f \in Commands -> IsCommand(c[f])
            [] f \in Probes -> DocProbe(c[f])
            [] f = "lifecycle" -> DocHooks(c[f])
            [] f = "resources" ->
                  /\ c[f] = [requests |-> c[f].requests, limits |-> c[f].limits]
                  /\ IsFunction(c[f].requests) /\ IsFunction(c[f].limits)
            [] f \in {"ports", "volumeMounts"} ->
                  IsList(c[f]) /\ \A i \in DOMAIN c[f] : IsFunction(c[f][i])
            [] OTHER -> TRUE
IsVolume(v) ==
    v = [name |-> v.name, type |-> v.type, config |-> v.config] /\ IsFunction(v.config)

DocNodeTerm(t) ==
    /\ t = [expressions |-> t.expressions, fields |-> t.fields]
    /\ \A e \in t.expressions :
          e = [key |-> e.key, operator |-> e.operator, values |-> e.values]
DocPodTerm(t) ==
    /\ t = [topologyKey |-> t.topologyKey, expressions |-> t.expressions,
            labels |-> t.labels, namespaces |-> t.namespaces]
    /\ IsFunction(t.labels)
    /\ \A e \in t.expressions :
          e = [key |-> e.key, operator |-> e.operator, values |-> e.values]
DocTerm(rule, t) ==
    CASE rule = "nodeAffinityRequired" -> DocNodeTerm(t)
      [] rule = "nodeAffinityPreferred" ->
            t = [weight |-> t.weight, preference |-> t.preference]
              /\ DocNodeTerm(t.preference)
      [] rule \in PodRules \ Weighted -> DocPodTerm(t)
      [] rule \in PodRules \cap Weighted ->
            t = [weight |-> t.weight, term |-> t.term] /\ DocPodTerm(t.term)
DocAffinity(a) ==
    /\ IsFunction(a) /\ DOMAIN a \subseteq Rules
    /\ \A rule \in DOMAIN a : \A t \in a[rule] : DocTerm(rule, t)

HasSettings(c) ==
    /\ \A x \in DOMAIN c \cap Settings : IsFunction(c[x])
    /\ "trafficRouting" \in DOMAIN c =>
          /\ IsFunction(c["trafficRouting"])
          /\ \A r \in DOMAIN c["trafficRouting"] : IsFunction(c["trafficRouting"][r])
DocCanary(c) ==
    /\ IsFunction(c) /\ HasSettings(c)
    /\ "steps" \in DOMAIN c =>
          IsList(c["steps"]) /\ \A i \in DOMAIN c["steps"] : IsFunction(c["steps"][i])
DocStrategy(s) ==
    /\ IsFunction(s)
    /\ \A x \in DOMAIN s \cap {"rollingUpdate", "blueGreen"} : IsFunction(s[x])
    /\ "blueGreen" \in DOMAIN s => HasSettings(s["blueGreen"])
    /\ "canary" \in DOMAIN s => DocCanary(s["canary"])

DocPodField(f, value) ==
    CASE f \in {"containers", "initContainers"} ->
            IsList(value) /\ \A i \in DOMAIN value : DocContainer(value[i])
      [] f = "volumes" -> IsList(value) /\ \A i \in DOMAIN value : IsVolume(value[i])
      [] f = "tolerations" ->
            IsList(value) /\ \A i \in DOMAIN value : IsFunction(value[i])
      [] f = "dnsConfig" -> IsFunction(value)
      [] f = "affinity" -> DocAffinity(value)
      [] OTHER -> TRUE
IsDocument(doc) ==
    /\ doc = [kind |-> doc.kind, name |-> doc.name, labels |-> doc.labels,
              annotations |-> doc.annotations, selector |-> doc.selector,
              templateLabels |-> doc.templateLabels,
              templateAnnotations |-> doc.templateAnnotations,
              spec |-> doc.spec, pod |-> doc.pod]
    /\ IsFunction(doc.spec) /\ IsFunction(doc.pod)
    /\ "strategy" \in DOMAIN doc.spec => DocStrategy(doc.spec["strategy"])
    /\ \A f \in DOMAIN doc.pod : DocPodField(f, doc.pod[f])

FormContainer(c, fields) ==
    /\ DOMAIN c \subseteq fields /\ "name" \in DOMAIN c
    /\ \A f \in DOMAIN c :
          CASE f \in Commands -> IsText(c[f])
            [] f \in Probes -> IsText(c[f].command)
            [] f = "lifecycle" -> \A h \in DOMAIN c[f] : IsText(c[f][h])
            [] f \in {"ports", "volumeMounts"} -> IsList(c[f])
            [] OTHER -> TRUE
FormField(f, value) ==
    CASE f = "containers" ->
            IsList(value) /\ \A i \in DOMAIN value : FormContainer(value[i], ContainerFields)
      [] f = "initContainers" ->
            IsList(value) /\ \A i \in DOMAIN value :
                                FormContainer(value[i], InitContainerFields)
      [] f = "volumes" ->
            IsList(value) /\ \A i \in DOMAIN value :
                                IsVolume(value[i]) /\ value[i].type \in VolumeTypes
      [] f = "tolerations" -> IsList(value)
      [] f = "scheduling" -> DOMAIN value \subseteq Rules
      [] f = "strategy" ->
            "rollingUpdate" \in DOMAIN value => IsFunction(value["rollingUpdate"])
      [] f = "rolloutStrategy" ->
            /\ \A x \in DOMAIN value \cap {"canary", "blueGreen"} : HasSettings(value[x])
            /\ "canary" \in DOMAIN value =>
                  LET steps == Given(value["canary"], "steps", <<>>)
                  IN IsList(steps) /\ \A i \in DOMAIN steps : IsSpelled(steps[i])
      [] OTHER -> TRUE
IsStore(form) == \A f \in DOMAIN form : FormField(f, form[f])

-----------------------------------------------------------------------------
(* The documents the form can say, written from the inputs it has and not  *)
(* from the conversions: what is to come back from the form as it was.     *)

Sayable(argument) ==
    Len(argument) = 1 /\ argument[1].text # "" /\ ~argument[1].indented
SayableCommand(c) == c # <<>> /\ \A i \in DOMAIN c : Sayable(c[i])
SayableProbe(p) ==
    /\ DOMAIN p.times \subseteq ProbeTimes
    /\ CASE p.type = "exec" -> SayableCommand(p.command)
         [] p.type = "httpGet" -> /\ {"path", "port"} \subseteq DOMAIN p.settings
                                  /\ DOMAIN p.settings \subseteq {"path", "port", "scheme"}
         [] p.type = "tcpSocket" -> DOMAIN p.settings \subseteq {"port"}
         [] OTHER -> p.type = "none" /\ p.settings = Nothing /\ p.times # Nothing
SayableHooks(hooks) ==
    /\ hooks # Nothing
    /\ \A h \in DOMAIN hooks : hooks[h].type = "exec" /\ SayableCommand(hooks[h].command)
SayableResources(r) ==
    /\ DOMAIN r.requests \subseteq Requests
    /\ DOMAIN r.limits \subseteq Requests \cup {"nvidia.com/gpu"}
SayablePort(port) ==
    /\ DOMAIN port \subseteq {"name", "containerPort", "protocol"}
    /\ Given(port, "protocol", "UDP") # "TCP"
SayableContainer(c, fields) ==
    /\ DOMAIN c \subseteq fields /\ {"name", "image"} \subseteq DOMAIN c
    /\ c["image"] # ""
    /\ \A f \in DOMAIN c :
          CASE f \in Commands -> SayableCommand(c[f])
            [] f \in Probes -> SayableProbe(c[f])
            [] f = "lifecycle" -> SayableHooks(c[f])
            [] f = "resources" -> SayableResources(c[f])
            [] f = "ports" -> \A i \in DOMAIN c[f] : SayablePort(c[f][i])
            [] f = "volumeMounts" -> \A i \in DOMAIN c[f] :
                  DOMAIN c[f][i] \subseteq {"name", "mountPath", "subPath", "readOnly"}
            [] OTHER -> TRUE
SayableVolume(v) ==
    /\ v.type \in VolumeTypes
    /\ v.type # "emptyDir" => /\ VolumeName[v.type] \in DOMAIN v.config
                              /\ DOMAIN v.config \subseteq VolumeFields[v.type]
SayableToleration(t) ==
    "operator" \in DOMAIN t /\ DOMAIN t \subseteq TolerationFields

SayablePodTerm(t) ==
    /\ One(t.expressions) /\ NoBlanks(t.expressions)
    /\ DOMAIN t.labels = {} /\ t.namespaces = {}
SayableTerm(rule, t) ==
    CASE rule = "nodeAffinityRequired" ->
             t.fields = {} /\ t.expressions # {} /\ NoBlanks(t.expressions)
      [] rule = "nodeAffinityPreferred" ->
             /\ t.preference.fields = {} /\ One(t.preference.expressions)
             /\ NoBlanks(t.preference.expressions)
      [] rule \in PodRules \ Weighted -> SayablePodTerm(t)
      [] rule \in PodRules \cap Weighted -> SayablePodTerm(t.term)
SayableAffinity(affinity) ==
    /\ affinity # Nothing
    /\ \A rule \in DOMAIN affinity :
           affinity[rule] # {} /\ \A t \in affinity[rule] : SayableTerm(rule, t)
    /\ "nodeAffinityRequired" \in DOMAIN affinity => One(affinity["nodeAffinityRequired"])
SayablePodField(f, value) ==
    CASE f = "containers" ->
             \A i \in DOMAIN value : SayableContainer(value[i], ContainerFields)
      [] f = "initContainers" ->
             \A i \in DOMAIN value : SayableContainer(value[i], InitContainerFields)
      [] f = "volumes" -> \A i \in DOMAIN value : SayableVolume(value[i])
      [] f = "tolerations" -> \A i \in DOMAIN value : SayableToleration(value[i])
      [] f = "dnsConfig" -> value = Nothing
      [] f = "affinity" -> SayableAffinity(value)
      [] f = "restartPolicy" -> value = "Never"
      [] OTHER -> f \in PlainPodFields \ {"nodeSelector"}
SayablePod(kind, pod) ==
    /\ \A f \in DOMAIN pod : SayablePodField(f, pod[f])
    /\ "restartPolicy" \in DOMAIN pod <=> kind \in Jobs

SayableRouting(r) ==
    /\ r # Nothing /\ DOMAIN r \subseteq Routers
    /\ "nginx" \in DOMAIN r => /\ "stableIngress" \in DOMAIN r["nginx"]
                               /\ DOMAIN r["nginx"] \subseteq {"stableIngress", "annotationPrefix"}
SayableCanary(c) ==
    /\ DOMAIN c \subseteq CanaryFields \cup {"steps"} /\ Zeros(c) = {}
    /\ "steps" \in DOMAIN c =>
          /\ c["steps"] # <<>>
          /\ \A i \in DOMAIN c["steps"] :
                /\ \E part \in StepParts : DOMAIN c["steps"][i] = {part}
                /\ IsSpelled(c["steps"][i])
    /\ "trafficRouting" \in DOMAIN c => SayableRouting(c["trafficRouting"])
SayableStrategy(kind, s) ==
    CASE kind = "Deployment" ->
             /\ DOMAIN s \subseteq {"type", "rollingUpdate"}
             /\ "rollingUpdate" \in DOMAIN s => Given(s, "type", "") = "RollingUpdate"
      [] kind = "Rollout" ->
             \/ DOMAIN s = {"canary"} /\ SayableCanary(s["canary"])
             \/ /\ DOMAIN s = {"blueGreen"}
                /\ "activeService" \in DOMAIN s["blueGreen"]
                /\ DOMAIN s["blueGreen"] \subseteq BlueGreenFields
SayableSpec(kind, spec) ==
    LET scaled == {"Deployment", "StatefulSet", "Rollout"}
        needed == (IF kind \in scaled THEN {"replicas"} ELSE {})
                  \cup (IF kind = "StatefulSet" THEN {"serviceName"} ELSE {})
                  \cup (IF kind = "CronJob" THEN {"schedule"} ELSE {})
                  \cup (IF kind = "Rollout" THEN {"strategy"} ELSE {})
        inputs == CASE kind \in {"Deployment", "Rollout"} -> {"strategy"} \cup Times
                    [] kind = "Job" -> parseJobFields \ {"ttlSecondsAfterFinished"}
                    [] kind = "CronJob" -> {"suspend", "concurrencyPolicy"}
                    [] OTHER -> {}
    IN /\ needed \subseteq DOMAIN spec /\ DOMAIN spec \subseteq needed \cup inputs
       /\ \A f \in DOMAIN spec \cap {"serviceName", "schedule"} : spec[f] # ""
       /\ "strategy" \in DOMAIN spec => SayableStrategy(kind, spec["strategy"])

SayableDoc(kind, doc) ==
    /\ doc.kind = kind /\ doc.name # "" /\ doc.labels # Nothing
    /\ Kept(doc.labels) = doc.labels /\ Kept(doc.annotations) = doc.annotations
    /\ doc.templateLabels = doc.labels /\ doc.templateAnnotations = Nothing
    /\ doc.selector = IF kind \in Jobs THEN Nothing ELSE doc.labels
    /\ SayableSpec(kind, doc.spec) /\ SayablePod(kind, doc.pod)

(* What the form writes without being able to say it: a probe whose command*)
(* is blank lines, which is written without arguments and read as none, a  *)
(* toleration whose operator was not chosen, and the service of a          *)
(* StatefulSet that had no name.                                           *)
BlankProbe(c) == \E f \in DOMAIN c \cap Probes : c[f].type = "exec" /\ c[f].command = <<>>
Unsettled(doc) ==
    \/ \E f \in DOMAIN doc.pod \cap {"containers", "initContainers"} :
           \E i \in DOMAIN doc.pod[f] : BlankProbe(doc.pod[f][i])
    \/ \E i \in DOMAIN Given(doc.pod, "tolerations", <<>>) :
           "operator" \notin DOMAIN doc.pod["tolerations"][i]
    \/ doc.kind = "StatefulSet" /\ doc.spec["serviceName"] = ""
=============================================================================
