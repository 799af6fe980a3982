-------------------------- MODULE MCWorkloadEditor --------------------------
(* Texts and inputs for the create page: one part of a document varied at  *)
(* a time.                                                                 *)
EXTENDS WorkloadEditor

CONSTANTS v1, v2

Line(text) == [indented |-> FALSE, text |-> text]
Script == <<Line("set -e"), [indented |-> TRUE, text |-> "run"], Line("")>>
Main == [name |-> "main", image |-> "app:1"]
Probe(type) == [type |-> type,
                command |-> IF type = "exec" THEN <<<<Line("ok")>>>> ELSE <<>>,
                settings |-> IF type = "httpGet" THEN [port |-> 80, host |-> "h"]
                             ELSE Nothing,
                times |-> [periodSeconds |-> 5]]
Hook(type) == [type |-> type,
               command |-> IF type = "exec" THEN <<<<Line("bye")>>>> ELSE <<>>]

Doc(kind, spec, pod) ==
    [kind |-> kind, name |-> "web", labels |-> [app |-> "web"],
     annotations |-> Nothing, templateLabels |-> [app |-> "web"],
     selector |-> IF kind \in Jobs THEN Nothing ELSE [app |-> "web"],
     templateAnnotations |-> Nothing, spec |-> spec,
     pod |-> Override([containers |-> <<Main>>],
                      Override(pod, [f \in {g \in {"restartPolicy"} : kind \in Jobs}
                                        |-> "Never"]))]
With(c) == [containers |-> <<Override(Main, c)>>]
Web(pod) == Doc("Deployment", [replicas |-> 2], pod)
Ex(key, op, values) == [key |-> key, operator |-> op, values |-> values]
Term(exprs) == [expressions |-> exprs, fields |-> {}]
Near(exprs, labels) == [topologyKey |-> "host", expressions |-> exprs,
                        labels |-> labels, namespaces |-> {}]

Forever == [pause |-> Nothing]
Seconds(n) == [pause |-> [duration |-> n, quoted |-> FALSE]]
RollingUpdate == [type |-> "RollingUpdate", rollingUpdate |-> [maxSurge |-> 1]]
Canary(steps) == [replicas |-> 1, strategy |-> [canary |-> steps]]

OtherKinds == {"StatefulSet", "Job"}
AllTexts ==
    {Web(Nothing),
     [Web(Nothing) EXCEPT !.labels = Nothing, !.annotations = [description |-> "old"]],
     Web([affinity |-> [nodeAffinityRequired |->
            {Term({Ex("zone", "In", {v1}), Ex("disk", "Exists", {})}),
             Term({Ex("zone", "NotIn", {v1, v2})})}]]),
     Web([affinity |-> [nodeAffinityRequired |->
            {Term({Ex("zone", "In", {v1}), Ex("disk", "DoesNotExist", {})})},
          podAffinityRequired |-> {Near({Ex("zone", "Gt", {v1})}, Nothing),
                                   Near({}, [disk |-> v2])}],
          tolerations |-> <<[key |-> "gpu", tolerationSeconds |-> 9]>>]),
     Web([affinity |-> [podAntiAffinityRequired |->
            {Near({Ex("zone", "In", {v1, v2})}, [disk |-> v1])},
          podAffinityPreferred |-> {[weight |-> 5, term |-> Near({}, [disk |-> v2])]},
          nodeAffinityPreferred |-> {[weight |-> 9, preference |->
                                        Term({Ex("zone", "In", {v1, Blank})})]}],
          nodeSelector |-> [disk |-> v1], tolerations |-> <<[operator |-> "Exists"]>>]),
     [Web([dnsConfig |-> [nameservers |-> <<"10.0.0.1">>]])
        EXCEPT !.labels = [app |-> "web", canary |-> ""],
               !.annotations = [owner |-> "", note |-> "n"]],
     Web([volumes |-> <<[name |-> "a", type |-> "nfs", config |-> [path |-> "/"]],
                        [name |-> "b", type |-> "secret",
                         config |-> [secretName |-> "s", optional |-> TRUE]],
                        [name |-> "c", type |-> "none", config |-> Nothing]>>,
          initContainers |-> <<Override(Main, [ports |-> <<[containerPort |-> 1]>>])>>]),
     Web(With([command |-> <<<<Line("sh")>>, Script>>,
               lifecycle |-> [preStop |-> Hook("exec"), postStart |-> Hook("httpGet")],
               livenessProbe |-> Probe("exec"), readinessProbe |-> Probe("grpc"),
               startupProbe |-> Probe("httpGet"),
               ports |-> <<[containerPort |-> 80, hostPort |-> 80, protocol |-> "UDP"],
                          [containerPort |-> 81, protocol |-> "TCP"]>>,
               volumeMounts |-> <<[name |-> "a", mountPath |-> "/a", readOnly |-> TRUE]>>,
               resources |-> [requests |-> [cpu |-> "1", hugepages |-> "1"],
                              limits |-> [memory |-> "1"]]])),
     Doc("Deployment", [replicas |-> 1, strategy |-> RollingUpdate,
                        minReadySeconds |-> 3], Nothing),
     Doc("Deployment", [strategy |-> [type |-> "Recreate"], paused |-> TRUE], Nothing),
     Doc("StatefulSet", [replicas |-> 3, serviceName |-> "s",
                         podManagementPolicy |-> "Parallel"], Nothing),
     Doc("StatefulSet", [replicas |-> 3, serviceName |-> "s"], Nothing),
     Doc("Job", [completions |-> 3, ttlSecondsAfterFinished |-> 9], Nothing),
     Doc("CronJob", [schedule |-> "@daily", suspend |-> TRUE,
                     failedJobsHistoryLimit |-> 1], Nothing),
     Doc("DaemonSet", Nothing, [hostNetwork |-> TRUE]),
     Doc("Rollout", Canary([steps |-> <<[setWeight |-> 5], Seconds(30), Forever,
                                        [setHeaderRoute |-> "r"], [setWeight |-> 50],
                                        [analysis |-> "a"], Forever>>,
                            maxUnavailable |-> 0, antiAffinity |-> "x",
                            canaryMetadata |-> [labels |-> "new"],
                            trafficRouting |-> [nginx |-> [stableIngress |-> "i"],
                                                traefik |-> [weighted |-> "t"]]]), Nothing),
     Doc("Rollout", Canary([steps |-> <<[setWeight |-> 9], [setCanaryScale |-> 2],
                                        Pause("1m")>>, maxSurge |-> 1,
                            canaryMetadata |-> [annotations |-> "n"],
                            trafficRouting |-> [nginx |-> [stableIngress |-> "i",
                                                           annotationPrefix |-> "p"]]]),
         Nothing),
     Doc("Rollout", [replicas |-> 1, strategy |->
                        [blueGreen |-> [activeService |-> "a", previewService |-> "b",
                                        activeMetadata |-> [labels |-> "blue"]]]],
         Nothing)}

(* A text that is no YAML, those of the page's kind, and on the Deployment *)
(* page those of other kinds.                                              *)
MCTexts == [k \in Kinds |-> {Broken} \cup
               {d \in AllTexts : d.kind = k \/ (k = "Deployment" /\ d.kind \in OtherKinds)}
               \cup (IF k = "DaemonSet" THEN {Web(Nothing)} ELSE {})]

Input(path, value) == [path |-> path, value |-> value]
MCInputs ==
    {Input(<<"replicas">>, 5), Input(<<"description">>, "new"),
     Input(<<"rolloutStrategy", "type">>, "BlueGreen"),
     Input(<<"labels">>, [app |-> "shop"]),
     Input(<<"annotations">>, [description |-> "noted", owner |-> ""]),
     Input(<<"volumes">>, <<[name |-> "v", type |-> "configMap", config |-> Nothing]>>),
     Input(<<"tolerations">>, <<[key |-> "gpu", effect |-> "NoSchedule"]>>),
     Input(<<"strategy", "type">>, "Recreate"),
     Input(<<"containers">>, <<[name |-> "main", image |-> "app:2",
                                command |-> <<Line("sh"), Line("")>>,
                                livenessProbe |-> [Probe("exec") EXCEPT
                                    !.command = <<Line(""), Line("")>>]]>>),
     Input(<<"scheduling", "nodeAffinityRequired">>, {Ex("zone", "In", {v2})}),
     Input(<<"dnsConfig", "nameservers">>, [list |-> FALSE, of |-> <<"8.8.8.8">>]),
     Input(<<"dnsConfig", "searches">>, [list |-> FALSE, of |-> <<"local">>])}

MCGreater == {<<v2, v1>>}
MCObjs == [{"zone", "disk"} -> {v1, v2, Absent}]
Creates == [kind : Kinds, editing : {FALSE}, stored : {None}]
Updates == [kind : {"Deployment"}, editing : {TRUE}, stored : {None, Web(Nothing)}]
MCVisits == Creates \cup Updates
=============================================================================
