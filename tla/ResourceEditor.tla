--------------------------- MODULE ResourceEditor ---------------------------
(***************************************************************************)
(* One object of a cluster and those who change it through KubePolaris: the *)
(* pages that edit it as YAML (ui/src/pages/config/ConfigMapEdit.tsx,      *)
(* SecretEdit.tsx, pages/network/ServiceEdit.tsx, IngressEdit.tsx,         *)
(* pages/yaml/YAMLEditor.tsx), the handlers that apply a YAML text         *)
(* (internal/handlers/resource_yaml.go, the applyYAML of the workloads),   *)
(* the handlers that set fields of what they read (configmap.go, secret.go, *)
(* service.go, ingress.go, the scaling of workloads), and everybody else.  *)
(*                                                                         *)
(* An object has the parts every page shows (meta: labels and annotations; *)
(* data: data or spec), the rest (extra: binaryData, immutable, finalizers, *)
(* owners, status) and its identity and version.  What the server allots,  *)
(* a ClusterIP or a volume name, belongs to the identity.  A text has the  *)
(* same parts; what it does not name is None.                              *)
(*                                                                         *)
(* A handler reads the object and writes it in two calls to the API server *)
(* (external), between which others write.                                 *)
(***************************************************************************)
EXTENDS Integers, FiniteSets

CONSTANTS Pages,      \* open editing pages
          Clients,    \* users of the REST interface without such a page
          Kinds,      \* kinds of objects that are edited, records as below
          Meta, Data, Extra,  \* values of the parts
          AsBase64,   \* what a value is when it is read as base64
          Reread,     \* what a value is when it is written as YAML 1.2 and read as 1.1
          Bad,        \* what cannot be read
          Starts,     \* what the object may be at first
          Requested,  \* what clients send: [meta, data]
          None,       \* nothing
          MaxVersion, \* bound: writes at the API server
          MaxCalls,   \* bound: requests under way at a time
          MaxEdits    \* bound: changes typed, per page

ASSUME PagesAreNoClients == Pages \cap Clients = {}
(* Base64 text is longer than what it encodes, so no value is its own.     *)
ASSUME DecodingChanges ==
    /\ AsBase64 \in [Data -> Data \cup {Bad}]
    /\ \A v \in Data : AsBase64[v] # v
(* The yaml package of the pages leaves yes, no, on, off, 1_000 ... without *)
(* quotes; sigs.k8s.io/yaml takes them for booleans and numbers, of which   *)
(* a string is made again where one is wanted: "true" for yes.             *)
ASSUME RereadingIsReading ==
    /\ \A m \in Meta : Reread[m] \in Meta
    /\ \A d \in Data : Reread[d] \in Data
ASSUME ProperInputs ==
    /\ Starts \subseteq [meta : Meta, data : Data, extra : Extra \cup {None}]
    /\ Requested \subseteq [meta : Meta, data : Data]
ASSUME Bounds == MaxVersion \in Nat \ {0} /\ MaxCalls \in Nat /\ MaxEdits \in Nat

-----------------------------------------------------------------------------
(* A kind: how its page makes its text and what it sends on confirmation,  *)
(* whether its handler reads the data as base64, what the handlers set     *)
(* that change an object they have read, and whether the update handler    *)
(* takes a whole text as well.                                             *)
ConfigMapSets == {"meta", "data"}
SecretSets == {"meta", "data"}
ServiceSets == {"meta", "data"}
IngressSets == {"meta", "data"}
DeploymentScales == {"data"}
StatefulSetScales == {"data"}
RolloutScales == {"data"}

ConfigMap == [page |-> "rebuilds", base64 |-> FALSE, sets |-> ConfigMapSets, replaces |-> FALSE]
Secret == [page |-> "rebuilds", base64 |-> TRUE, sets |-> SecretSets, replaces |-> FALSE]
Service == [page |-> "shows", base64 |-> FALSE, sets |-> ServiceSets, replaces |-> TRUE]
Ingress == [page |-> "shows", base64 |-> FALSE, sets |-> IngressSets, replaces |-> TRUE]
PersistentVolumeClaim == [page |-> "none", base64 |-> FALSE, sets |-> {}, replaces |-> FALSE]
PersistentVolume == [page |-> "none", base64 |-> FALSE, sets |-> {}, replaces |-> FALSE]
StorageClass == [page |-> "none", base64 |-> FALSE, sets |-> {}, replaces |-> FALSE]
Deployment == [page |-> "workload", base64 |-> FALSE, sets |-> DeploymentScales, replaces |-> FALSE]
StatefulSet == [page |-> "workload", base64 |-> FALSE, sets |-> StatefulSetScales, replaces |-> FALSE]
Rollout == [page |-> "workload", base64 |-> FALSE, sets |-> RolloutScales, replaces |-> FALSE]
DaemonSet == [page |-> "workload", base64 |-> FALSE, sets |-> {}, replaces |-> FALSE]
Job == [page |-> "workload", base64 |-> FALSE, sets |-> {}, replaces |-> FALSE]
CronJob == [page |-> "workload", base64 |-> FALSE, sets |-> {}, replaces |-> FALSE]

AllKinds ==
    {ConfigMap, Secret, Service, Ingress, PersistentVolumeClaim,
     PersistentVolume, StorageClass, Deployment, StatefulSet, Rollout,
     DaemonSet, Job, CronJob}
ASSUME KnownKinds == Kinds \subseteq AllKinds

Versions == 1 .. MaxVersion
(* Parts of a text are what the server reads there.                        *)
Texts == [meta : Meta, data : Data \cup {Bad}, extra : Extra \cup {None},
          uid : Versions \cup {None}, rv : Versions \cup {None}]
Objects == [meta : Meta, data : Data, extra : Extra \cup {None},
            uid : Versions, rv : Versions]
ASSUME NothingIsNoValue ==
    None \notin Meta \cup Data \cup Extra \cup Versions /\ None \notin Texts

VARIABLES kind,     \* the kind of the object
          obj,      \* the object at the API server, or None
          version,  \* the version last given by the API server
          page,     \* the pages: where the user is, text, text as loaded,
                    \* right side of the diff (pendingYaml), diff shown
          call,     \* requests under way, by what started them
          edits,    \* bound
          base,     \* history: the object a page was filled from, or None
          moved     \* history: typed on while the text was checked for saving

vars == <<kind, obj, version, page, call, edits, base, moved>>

(* A page can have a dry run and a saving under way (dryRunning and        *)
(* submitting), a client one request.                                      *)
Slots == (Pages \X {"check", "save"}) \cup (Clients \X {"api"})
Idle(p) == call[<<p, "save">>] = None
Checking(p) == call[<<p, "check">>] # None
(* The page of a workload has one flag for both (applying).                *)
Busy(p) == ~Idle(p) \/ (kind.page = "workload" /\ Checking(p))

Send(s, op, text, dry) ==
    /\ Cardinality({t \in Slots : call[t] # None}) < MaxCalls
    /\ call' = [call EXCEPT ![s] =
           [op |-> op, text |-> text, dry |-> dry, at |-> "sent",
            seen |-> None, ok |-> FALSE]]
(* Of the answers only those to a saving change the page; the others bring *)
(* a message, or go to a client.                                           *)
Ended(s, ok) ==
    IF s[2] = "save"
    THEN [call EXCEPT ![s].at = "ended", ![s].ok = ok, ![s].seen = None]
    ELSE [call EXCEPT ![s] = None]
Blank == [at |-> "loading", yaml |-> None, original |-> None,
          pending |-> None, diff |-> FALSE]

TypeOK ==
    /\ kind \in Kinds
    /\ obj \in Objects \cup {None}
    /\ version \in Versions
    /\ page \in [Pages -> [at : {"loading", "open", "left"},
                           yaml : Texts \cup {None}, original : Texts \cup {None},
                           pending : Texts \cup {None}, diff : BOOLEAN]]
    /\ call \in [Slots -> {None} \cup
                    [op : {"apply", "set", "replace"}, text : Texts, dry : BOOLEAN,
                     at : {"sent", "read", "ended"},
                     seen : Objects \cup {None}, ok : BOOLEAN]]
    /\ edits \in [Pages -> 0 .. MaxEdits]
    /\ base \in [Pages -> Objects \cup {None}]
    /\ moved \in [Pages -> BOOLEAN]

Init ==
    /\ kind \in Kinds
    /\ version = 1
    /\ \E o \in Starts :
          obj = [meta |-> o.meta, data |-> o.data, extra |-> o.extra, uid |-> 1, rv |-> 1]
    /\ page = [p \in Pages |-> Blank]
    /\ call = [s \in Slots |-> None]
    /\ edits = [p \in Pages |-> 0]
    /\ base = [p \in Pages |-> None]
    /\ moved = [p \in Pages |-> FALSE]

-----------------------------------------------------------------------------
(* The page.                                                               *)

(* ConfigMapEdit and SecretEdit put the text together from the details     *)
(* they name, by the rules of YAML 1.2; the others show the object as the  *)
(* server wrote it, its managed fields apart.  The details of a Secret     *)
(* hold its values as they are, and where a boolean is read for one, the   *)
(* server takes the text for no Secret.                                    *)
(* Fault: the text is put together without the data.                       *)
RebuiltWithoutData(o) == [o EXCEPT !.data = None, !.extra = None, !.uid = None, !.rv = None]
RebuiltText(o) ==
    [o EXCEPT !.meta = Reread[@], !.data = Reread[@], !.extra = None, !.uid = None, !.rv = None]
RebuiltSecret(o) ==
    [RebuiltText(o) EXCEPT !.data = IF Reread[o.data] = o.data THEN o.data ELSE Bad]
CleanText(o) == o
PageText(k, o) ==
    IF k.page # "rebuilds" THEN CleanText(o)
    ELSE IF k.base64 THEN RebuiltSecret(o) ELSE RebuiltText(o)

Load(p) ==
    /\ kind.page # "none"
    /\ page[p].at = "loading"
    /\ \/ /\ obj # None
          /\ page' = [page EXCEPT ![p].at = "open", ![p].yaml = PageText(kind, obj),
                                  ![p].original = PageText(kind, obj)]
          /\ base' = [base EXCEPT ![p] = obj]
       \/ \* not found or failed: the page is left, that of a workload offers
          \* to try again
          /\ kind.page # "workload"
          /\ page' = [page EXCEPT ![p].at = "left"]
          /\ UNCHANGED base
    /\ UNCHANGED <<kind, obj, version, call, edits, moved>>

(* A page that is left forgets all but, here, what was confirmed.          *)
Left(p) == [Blank EXCEPT !.at = "left", !.pending = page[p].pending]

(* The editor takes input whatever is under way, but not under the dialog. *)
(* Besides changing a part, users remove what the server had filled in,    *)
(* identity, version or (in two changes) both.                             *)
Type(p) ==
    /\ page[p].at = "open" /\ ~page[p].diff
    /\ edits[p] < MaxEdits
    /\ \E text \in    {[page[p].yaml EXCEPT !.meta = m] : m \in Meta}
                 \cup {[page[p].yaml EXCEPT !.data = d] : d \in Data}
                 \cup {[page[p].yaml EXCEPT !.uid = None], [page[p].yaml EXCEPT !.rv = None]} :
          /\ text # page[p].yaml
          /\ page' = [page EXCEPT ![p].yaml = text]
    /\ edits' = [edits EXCEPT ![p] = @ + 1]
    /\ moved' = [moved EXCEPT ![p] = @ \/ ~Idle(p)]
    /\ UNCHANGED <<kind, obj, version, call, base>>

(* handleReset: only the page of a workload has it.                        *)
Reset(p) ==
    /\ kind.page = "workload"
    /\ page[p].at = "open" /\ ~page[p].diff
    /\ page[p].yaml # page[p].original
    /\ page' = [page EXCEPT ![p].yaml = page[p].original]
    /\ moved' = [moved EXCEPT ![p] = @ \/ ~Idle(p)]
    /\ UNCHANGED <<kind, obj, version, call, edits, base>>

handleDryRun(p) ==
    /\ page[p].at = "open" /\ ~page[p].diff
    /\ ~Checking(p)
    /\ kind.page = "workload" => ~Busy(p)
    /\ Send(<<p, "check">>, "apply", page[p].yaml, TRUE)
    /\ UNCHANGED <<kind, obj, version, page, edits, base, moved>>

(* handleSubmit, handleSave: a dry run first.                              *)
handleSubmit(p) ==
    /\ page[p].at = "open" /\ ~page[p].diff
    /\ ~Busy(p)
    /\ page[p].yaml # page[p].original
    /\ Send(<<p, "save">>, "apply", page[p].yaml, TRUE)
    /\ moved' = [moved EXCEPT ![p] = FALSE]
    /\ UNCHANGED <<kind, obj, version, page, edits, base>>

(* What the confirmation sends: the text in the diff, but the page of a    *)
(* workload sends the text in its editor.                                  *)
(* Fault: every page does as that of a workload.                           *)
SentAlwaysCurrent(p) == page[p].yaml
Sent(p) == IF kind.page = "workload" THEN page[p].yaml ELSE page[p].pending

handleConfirmDiff(p) ==
    /\ page[p].at = "open" /\ page[p].diff
    /\ ~Busy(p)
    /\ Send(<<p, "save">>, "apply", Sent(p), FALSE)
    /\ UNCHANGED <<kind, obj, version, page, edits, base, moved>>

(* The dialog can be closed while the confirmed text is on its way.        *)
CancelDiff(p) ==
    /\ page[p].at = "open" /\ page[p].diff
    /\ page' = [page EXCEPT ![p].diff = FALSE]
    /\ UNCHANGED <<kind, obj, version, call, edits, base, moved>>

handleBack(p) ==
    /\ page[p].at = "open" /\ ~page[p].diff
    /\ page' = [page EXCEPT ![p] = Left(p)]
    /\ UNCHANGED <<kind, obj, version, call, edits, base, moved>>

(* What a page makes of an answer to its saving.                           *)
Answered(p, c) ==
    IF ~c.ok \/ page[p].at = "left" THEN page[p]
    ELSE IF c.dry THEN [page[p] EXCEPT !.pending = c.text, !.diff = TRUE]
    ELSE IF kind.page = "workload"
         THEN [page[p] EXCEPT !.original = c.text, !.diff = FALSE]
         ELSE Left(p)

(* Whatever the answer, the flag is cleared (finally).                     *)
Deliver(s) ==
    /\ call[s] # None /\ call[s].at = "ended"
    /\ page' = [page EXCEPT ![s[1]] = Answered(s[1], call[s])]
    /\ call' = [call EXCEPT ![s] = None]
    /\ UNCHANGED <<kind, obj, version, edits, base, moved>>

-----------------------------------------------------------------------------
(* The handlers.                                                           *)

(* The data a handler makes of a text.  What UpdateSecret and CreateSecret *)
(* are sent is taken as it is.                                             *)
Decoded(c) ==
    IF kind.base64 /\ c.op = "apply" /\ c.text.data # Bad THEN AsBase64[c.text.data]
    ELSE c.text.data

(* No cluster, no client, an unreadable text, no connection: an error.     *)
Fail(s) ==
    /\ call[s] # None /\ call[s].at = "sent"
    /\ call' = Ended(s, FALSE)
    /\ UNCHANGED <<kind, obj, version, page, edits, base, moved>>

(* The object is read.  Every error is taken as its absence when a text is *)
(* applied, and is an error when fields are to be set or an object is to   *)
(* be replaced by a text.                                                  *)
Get(s) ==
    /\ call[s] # None /\ call[s].at = "sent"
    /\ Decoded(call[s]) # Bad
    /\ \E seen \in {obj, None} :
          call' = IF call[s].op # "apply" /\ seen = None THEN Ended(s, FALSE)
                  ELSE [call EXCEPT ![s].at = "read", ![s].seen = seen]
    /\ UNCHANGED <<kind, obj, version, page, edits, base, moved>>

(* The object a handler writes: the text with the version it has read, or  *)
(* what it has read with the fields of the request.                        *)
(* Fault: the text goes out without a version, which the server takes for  *)
(* "whatever is there".                                                    *)
AdoptNoVersion(text, seen) == [text EXCEPT !.rv = None]
(* Fault: it goes out with the identity, too, of what was read.            *)
AdoptWhole(text, seen) == [text EXCEPT !.rv = seen.rv, !.uid = seen.uid]
Adopt(text, seen) == [text EXCEPT !.rv = seen.rv]
SetFields(c) ==
    [c.seen EXCEPT !.meta = IF "meta" \in kind.sets THEN c.text.meta ELSE @,
                   !.data = IF "data" \in kind.sets THEN c.text.data ELSE @]
Written(c) ==
    IF c.op = "set" THEN SetFields(c)
    ELSE LET text == [c.text EXCEPT !.data = Decoded(c)]
         IN IF c.seen = None THEN text ELSE Adopt(text, c.seen)

(* External: what the API server accepts.  An update names the version it  *)
(* replaces, or none, and not another object; a new object has no version. *)
Accepts(c) ==
    LET new == Written(c)
    IN IF c.seen = None THEN obj = None /\ new.rv = None
       ELSE obj # None /\ new.rv \in {None, obj.rv} /\ new.uid \in {None, obj.uid}
Stored(c) ==
    LET new == Written(c)
    IN [new EXCEPT !.rv = version + 1,
                   !.uid = IF c.seen = None THEN version + 1 ELSE obj.uid]

(* The object is written; the answer may still be lost on its way.         *)
Put(s) ==
    /\ call[s] # None /\ call[s].at = "read"
    /\ \/ /\ Accepts(call[s])
          /\ \E ok \in BOOLEAN : call' = Ended(s, ok)
          /\ IF call[s].dry THEN UNCHANGED <<obj, version>>
             ELSE /\ version < MaxVersion
                  /\ obj' = Stored(call[s])
                  /\ version' = version + 1
       \/ \* the server refuses, for this reason or one of its own
          /\ call' = Ended(s, FALSE)
          /\ UNCHANGED <<obj, version>>
    /\ UNCHANGED <<kind, page, edits, base, moved>>

(* Requests of clients: set fields (the update handlers, scaling), replace *)
(* an object by a text (update...FromYAML), or apply a text.               *)
Operations ==
    {"apply"} \cup (IF kind.sets = {} THEN {} ELSE {"set"})
              \cup (IF kind.replaces THEN {"replace"} ELSE {})
Ask(c) ==
    /\ call[<<c, "api">>] = None
    /\ \E r \in Requested, op \in Operations :
          Send(<<c, "api">>, op, [meta |-> r.meta, data |-> r.data, extra |-> None,
                                  uid |-> None, rv |-> None], FALSE)
    /\ UNCHANGED <<kind, obj, version, page, edits, base, moved>>

-----------------------------------------------------------------------------
(* Single calls: the handlers that create and delete, and all that happens *)
(* in the cluster without KubePolaris.                                     *)
Create ==
    /\ obj = None /\ version < MaxVersion
    /\ version' = version + 1
    /\ \E r \in Requested :
          obj' = [meta |-> r.meta, data |-> r.data, extra |-> None,
                  uid |-> version + 1, rv |-> version + 1]
    /\ UNCHANGED <<kind, page, call, edits, base, moved>>
Delete ==
    /\ obj # None
    /\ obj' = None
    /\ UNCHANGED <<kind, version, page, call, edits, base, moved>>
Elsewhere ==
    /\ obj # None /\ version < MaxVersion
    /\ version' = version + 1
    /\ \E o \in {[obj EXCEPT !.data = d] : d \in Data}
                  \cup {[obj EXCEPT !.extra = e] : e \in Extra} :
          o # obj /\ obj' = [o EXCEPT !.rv = version + 1]
    /\ UNCHANGED <<kind, page, call, edits, base, moved>>

Use(p) ==
    \/ Load(p) \/ Type(p) \/ Reset(p) \/ handleDryRun(p) \/ handleSubmit(p)
    \/ handleConfirmDiff(p) \/ CancelDiff(p) \/ handleBack(p)
Serve(s) == Fail(s) \/ Get(s) \/ Put(s) \/ Deliver(s)

Next ==
    \/ \E p \in Pages : Use(p)
    \/ \E s \in Slots : Serve(s)
    \/ \E c \in Clients : Ask(c)
    \/ Create \/ Delete \/ Elsewhere

Spec == Init /\ [][Next]_vars

-----------------------------------------------------------------------------
(* The step in which the request of a slot changes the object.             *)
Lands(s) ==
    /\ call[s] # None /\ call[s].at = "read"
    /\ call'[s] # call[s]
    /\ obj' # obj

(* What a handler replaces is what it has read: nothing that somebody else *)
(* wrote between the two calls of applyYAML, of an update handler or of a  *)
(* scaling is overwritten.                                                 *)
ReadIsNotOverwritten ==
    [][\A s \in Slots : Lands(s) => obj = call[s].seen]_vars

(* A page writes what its user has confirmed: the object is changed by     *)
(* nothing but the answer to "confirm update", and the text is the right   *)
(* side of the diff that was shown; the page of a workload excepted when   *)
(* the user typed on while the text was checked.                           *)
WrittenWasReviewed ==
    [][\A p \in Pages, what \in {"check", "save"} :
          Lands(<<p, what>>) =>
              /\ what = "save" /\ ~call[<<p, what>>].dry
              /\ \/ call[<<p, what>>].text = page[p].pending
                 \/ kind.page = "workload" /\ moved[p]]_vars

(* What the user of a page has left alone stays as it is, if nobody has    *)
(* changed the object since the page was loaded.                           *)
Untouched(p, part) ==
    /\ base[p] # None /\ obj = base[p]
    /\ call[<<p, "save">>].text[part] = PageText(kind, base[p])[part]
Survives(p, part) ==
    Lands(<<p, "save">>) /\ Untouched(p, part) => obj'[part] = obj[part]

(* The page does not rebuild the text, or the part is read back as it was.  *)
Legible(p, part) ==
    base[p] # None /\ (kind.page = "rebuilds" => Reread[base[p][part]] = base[p][part])

(* Saving a page changes only what the user changed.  A page that rebuilds *)
(* the text loses what it does not show, and that of a Secret the values;  *)
(* and what it shows it changes where YAML 1.1 does not read what YAML 1.2 *)
(* wrote (a label yes that nobody touched becomes "true").                 *)
OnlyEditedChanges ==
    [][\A p \in Pages :
          /\ Legible(p, "meta") => Survives(p, "meta")
          /\ ~kind.base64 /\ Legible(p, "data") => Survives(p, "data")
          /\ kind.page # "rebuilds" => Survives(p, "extra")]_vars

(* What internal/handlers/secret.go says of the details of a Secret: their *)
(* values are base64, which the page then writes back as such.  So the     *)
(* values that the user has not touched survive the saving of a label.     *)
ValuesSurvive == [][\A p \in Pages : Survives(p, "data")]_vars

(* A text that tells its object's identity does not change another object  *)
(* made anew under its name, and a text that tells a version does not      *)
(* bring a deleted object back.  (One with the identity alone does, since  *)
(* any error of the read is taken for absence and the text is then         *)
(* created.)                                                               *)
SaveStaysWithItsObject ==
    [][\A p \in Pages : Lands(<<p, "save">>) =>
          LET text == call[<<p, "save">>].text
          IN  /\ text.rv # None => obj # None
              /\ text.uid # None /\ obj # None => obj'.uid = base[p].uid]_vars
-----------------------------------------------------------------------------
(* The inductive invariant behind these properties.                        *)

(* A version is given once, so whoever has read the object that is there   *)
(* under its version has read the object as it is.                         *)
VersionsAreUnique ==
    /\ obj # None => obj.rv <= version
    /\ \A s \in Slots : call[s] # None /\ call[s].seen # None =>
           /\ call[s].seen.rv <= version
           /\ obj # None /\ obj.rv = call[s].seen.rv => obj = call[s].seen

(* What the requests of a page ask for, and what a handler has made sure   *)
(* of when it has read.                                                    *)
SlotsFit ==
    \A s \in Slots : call[s] # None =>
        /\ s[2] = "check" => call[s].dry
        /\ s[2] # "api" => call[s].op = "apply"
        /\ call[s].at = "ended" => s[2] = "save"
        /\ call[s].at = "read" =>
               /\ Decoded(call[s]) # Bad
               /\ call[s].op # "apply" => call[s].seen # None

(* A page has its texts from when it was loaded, and saves nothing before. *)
PageFits(p) ==
    /\ page[p].at = "loading" => page[p] = Blank /\ Idle(p)
    /\ page[p].at = "open" => page[p].yaml # None /\ page[p].original # None
    /\ page[p].at = "open" /\ page[p].diff => page[p].pending # None
PagesFit == \A p \in Pages : PageFits(p)

(* What is checked before the diff is shown is what the editor holds, what *)
(* the diff shows is what was checked, and what is saved is what it shows, *)
(* unless the user typed on meanwhile.                                     *)
SaveIsReviewed(p) ==
    LET c == call[<<p, "save">>]
    IN  /\ page[p].at = "open" /\ page[p].diff =>
               page[p].pending = page[p].yaml \/ moved[p]
        /\ ~Idle(p) /\ c.dry =>
               (page[p].at = "open" => c.text = page[p].yaml \/ moved[p])
        /\ ~Idle(p) /\ ~c.dry =>
               c.text = page[p].pending \/ (kind.page = "workload" /\ moved[p])
SavesAreReviewed == \A p \in Pages : SaveIsReviewed(p)

(* The identity in a text of a page is that of the object it was filled    *)
(* from.                                                                   *)
Tells(text, o) == text.uid # None => o # None /\ text.uid = o.uid
TextsTell(p) ==
    /\ page[p].yaml # None => Tells(page[p].yaml, base[p])
    /\ page[p].original # None => Tells(page[p].original, base[p])
    /\ page[p].pending # None => Tells(page[p].pending, base[p])
    /\ ~Idle(p) => Tells(call[<<p, "save">>].text, base[p])
TextsTellTheirObject == \A p \in Pages : TextsTell(p)

IInv ==
    /\ TypeOK /\ VersionsAreUnique /\ SlotsFit /\ PagesFit
    /\ SavesAreReviewed /\ TextsTellTheirObject
=============================================================================
