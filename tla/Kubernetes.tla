----------------------------- MODULE Kubernetes -----------------------------
(***************************************************************************)
(* The Kubernetes backend (internal/backends/kubernetes): which objects    *)
(* Submit writes for a version of an app, in which order, what Delete      *)
(* takes away again, and what BuildPlan says beforehand.  Every call to    *)
(* the API server is a step of its own: the workers' calls interleave, any *)
(* of them may fail, and a worker may crash between two.                   *)
(*                                                                         *)
(* An object is <<kind, name>>.  A name is the sequence of its parts:      *)
(* <<"slug">> for what the app shares, <<"slug", v>> for what belongs to   *)
(* version v, <<>> for the empty string.  An object holds data (the keys   *)
(* of a ConfigMap or Secret, the variables of a pod) and needs others: a   *)
(* pod its claim and the keys it mounts or reads, an ingress its service.  *)
(***************************************************************************)
EXTENDS AppConfig, FiniteSets, SequencesExt

CONSTANTS
  Workers,
  Versions,      \* versions of the app that were requested
  RawConfigs,    \* configurations that requests carry
  SlugLengths,   \* lengths an app's slug may have
  MaxName,       \* trimForKubeName's 40
  MaxOperations, MaxUpdates, MaxFaults  \* bounds of a behaviour

VARIABLES
  app,         \* the row of the app: the length of its slug, its config
  objects,     \* the cluster: a function from the objects that exist
  op,          \* the Submit or Delete each worker is in
  seen,        \* what the Get of the current upsert found
  ref,         \* Deployment.BackendRef of each version, as the row has it
  settled,     \* history: versions whose last operation is a Submit that succeeded
  deleted,     \* versions whose Delete returned nil
  overlapped,  \* history: versions with two operations at a time
  torn,        \* history: versions whose Delete stopped after the Deployment
  swallowed,   \* history: deletions that failed and were ignored
  operations, updates, faults

vars == <<app, objects, op, seen, ref, settled, deleted, overlapped, torn,
          swallowed, operations, updates, faults>>
history == <<overlapped, torn, swallowed>>

NoRef == [Deployment |-> <<>>, Service |-> <<>>, IngressName |-> <<>>]

Idle == [kind |-> "none", version |-> 0, ref |-> NoRef, script |-> <<>>]

-----------------------------------------------------------------------------
(* Names.  Only the version at the end of a resource name can be cut off.  *)

Suffix == 3  \* the length of "-v1"

\* Mutant: the cut comes one character early.
trimForKubeNameEarly(a, name) ==
    IF Len(name) = 2 /\ a.slug + Suffix >= MaxName THEN <<name[1]>> ELSE name

trimForKubeName(a, name) ==
    IF Len(name) = 2 /\ a.slug + Suffix > MaxName THEN <<name[1]>> ELSE name

resourceName(v) == <<"slug", v>>

ingressName(a) == IF a.config.Public THEN <<"slug">> ELSE <<>>

openClawConfigMapName(a, name) == <<"ConfigMap", trimForKubeName(a, name)>>

openClawManagedSecretName(a, name) == <<"Secret", trimForKubeName(a, name)>>

openClawWorkspacePVCName == <<"PersistentVolumeClaim", <<"slug">>>>

Namespace == <<"Namespace", <<"tenant">>>>

EgressPolicy == <<"NetworkPolicy", <<"tenant">>>>

Ingress == <<"Ingress", <<"slug">>>>

-----------------------------------------------------------------------------
(* What the objects hold.                                                  *)

Object(data, needs) == [data |-> data, needs |-> needs]

Blank == Object({}, {})

OpenClaw(a) == a.config.OpenClaw[1]

IsOpenClaw(a) == a.config.OpenClaw # <<>> /\ a.config.OpenClaw[1].Enabled

ConfigData(openclaw) ==
    {k \in {"AGENTS.md", "settings.json"} :
        \/ k = "AGENTS.md" /\ openclaw.AgentsMarkdown # ""
        \/ k = "settings.json" /\ openclaw.SettingsJSON # ""}

SecretData(openclaw) ==
    {"OPENCLAW_GATEWAY_TOKEN" : t \in {openclaw.GatewayToken} \ {""}}
      \cup {k \in DOMAIN openclaw.ProviderAPIKeys : openclaw.ProviderAPIKeys[k]}

\* Variables that configureOpenClawRuntime takes from a secret.
SecretVars(openclaw) ==
    IF openclaw.ExistingSecretName = ""
      THEN SecretData(openclaw)
      ELSE {"OPENCLAW_GATEWAY_TOKEN"} \cup DOMAIN openclaw.ProviderAPIKeys

\* Variables set after those: they replace a secret's by a literal.
OverridingVars(a) ==
    OpenClaw(a).ExtraEnv
      \cup {"CLAWFLUX_INFERENCE_FALLBACKS" :
               f \in {a.config.Reliability.FallbackProviders} \ {<<>>}}

GatewayVars(openclaw) ==
    {"OPENCLAW_GATEWAY_BIND_ADDRESS" : b \in {openclaw.GatewayBindAddress} \ {""}}
      \cup {"OPENCLAW_GATEWAY_PORT" : p \in {openclaw.GatewayPort} \ {0}}

configureOpenClawRuntime(a, name) ==
    LET openclaw == OpenClaw(a)
        fromSecret == IF openclaw.ExistingSecretName = ""
                        THEN SecretVars(openclaw) \ OverridingVars(a)
                        ELSE {}
    IN Object(GatewayVars(openclaw) \cup SecretVars(openclaw) \cup OverridingVars(a),
              {<<openClawWorkspacePVCName, "">>}
                \cup {openClawManagedSecretName(a, name)} \X fromSecret
                \cup {openClawConfigMapName(a, name)} \X ConfigData(openclaw))

buildDeployment(a, name) ==
    LET runtime == IF IsOpenClaw(a) THEN configureOpenClawRuntime(a, name) ELSE Blank
    IN Object(a.config.Env \cup runtime.data, runtime.needs)

buildService(name) == Object({}, {<<<<"Deployment", name>>, "">>})

buildIngress(name) == Object({}, {<<<<"Service", name>>, "">>})

-----------------------------------------------------------------------------
(* The calls of Submit and Delete, in order.                               *)

Step(verb, object, value) == [verb |-> verb, object |-> object, value |-> value]

Upsert(object, value) == Step("upsert", object, value)
Ensure(object) == Step("ensure", object, Blank)
TryDelete(object) == Step("drop", object, Blank)
MustDelete(object) == Step("remove", object, Blank)

reconcileOpenClawConfigMap(a, name) ==
    LET data == ConfigData(OpenClaw(a))
        object == openClawConfigMapName(a, name)
    IN IF data = {} THEN TryDelete(object) ELSE Upsert(object, Object(data, {}))

\* With an existing secret there is nothing to do, and no call is made.
reconcileOpenClawSecret(a, name) ==
    LET data == SecretData(OpenClaw(a))
        object == openClawManagedSecretName(a, name)
    IN IF OpenClaw(a).ExistingSecretName # "" THEN <<>>
       ELSE IF data = {} THEN <<TryDelete(object)>>
       ELSE <<Upsert(object, Object(data, {}))>>

reconcileOpenClawConfig(a, name) ==
    IF IsOpenClaw(a)
      THEN <<Ensure(openClawWorkspacePVCName), reconcileOpenClawConfigMap(a, name)>>
             \o reconcileOpenClawSecret(a, name)
      ELSE <<>>

\* Mutant: what the pod mounts is not applied.
SubmitPodOnly(a, name) ==
    <<Ensure(Namespace), Upsert(EgressPolicy, Blank),
      Upsert(<<"Service", name>>, buildService(name)),
      Upsert(<<"Deployment", name>>, buildDeployment(a, name))>>
      \o <<IF a.config.Public THEN Upsert(Ingress, buildIngress(name))
                              ELSE TryDelete(<<"Ingress", ingressName(a)>>)>>

\* Mutant: the ingress is applied without asking whether the app is public.
SubmitUnnamed(a, name) ==
    <<Ensure(Namespace), Upsert(EgressPolicy, Blank)>>
      \o reconcileOpenClawConfig(a, name)
      \o <<Upsert(<<"Deployment", name>>, buildDeployment(a, name)),
           Upsert(<<"Service", name>>, buildService(name)),
           Upsert(<<"Ingress", ingressName(a)>>, buildIngress(name))>>

Submit(a, name) ==
    <<Ensure(Namespace), Upsert(EgressPolicy, Blank)>>
      \o reconcileOpenClawConfig(a, name)
      \o <<Upsert(<<"Deployment", name>>, buildDeployment(a, name)),
           Upsert(<<"Service", name>>, buildService(name))>>
      \o <<IF a.config.Public THEN Upsert(Ingress, buildIngress(name))
                              ELSE TryDelete(<<"Ingress", ingressName(a)>>)>>

SubmitRef(a, name) ==
    [Deployment |-> name, Service |-> name, IngressName |-> ingressName(a)]

\* Mutant: the claim goes with the version.
DeleteWithClaim(a, r) ==
    <<TryDelete(<<"Ingress", r.IngressName>>), TryDelete(<<"Service", r.Service>>),
      MustDelete(<<"Deployment", r.Deployment>>), TryDelete(openClawWorkspacePVCName),
      TryDelete(openClawConfigMapName(a, r.Deployment)),
      TryDelete(openClawManagedSecretName(a, r.Deployment))>>

\* Mutant: the objects the pod reads are forgotten.
DeleteForgetsConfig(a, r) ==
    <<TryDelete(<<"Ingress", r.IngressName>>), TryDelete(<<"Service", r.Service>>),
      MustDelete(<<"Deployment", r.Deployment>>)>>

\* Mutant: the ingress is left to the app.
DeleteKeepsIngress(a, r) ==
    <<TryDelete(<<"Service", r.Service>>),
      MustDelete(<<"Deployment", r.Deployment>>),
      TryDelete(openClawConfigMapName(a, r.Deployment)),
      TryDelete(openClawManagedSecretName(a, r.Deployment))>>

Delete(a, r) ==
    <<TryDelete(<<"Ingress", r.IngressName>>), TryDelete(<<"Service", r.Service>>),
      MustDelete(<<"Deployment", r.Deployment>>),
      TryDelete(openClawConfigMapName(a, r.Deployment)),
      TryDelete(openClawManagedSecretName(a, r.Deployment))>>

-----------------------------------------------------------------------------
(* The dry run: what BuildPlan says Submit will do for a version.          *)

appendOpenClawPlan(a, name) ==
    LET openclaw == OpenClaw(a)
        managed == openclaw.ExistingSecretName = ""
        secretKeys == SecretVars(openclaw)
    IN [apply |-> {openClawWorkspacePVCName}
                    \cup {openClawConfigMapName(a, name) :
                             k \in ConfigData(openclaw)}
                    \cup {openClawManagedSecretName(a, name) :
                             k \in IF managed THEN secretKeys ELSE {}},
        remove |-> IF managed /\ secretKeys = {}
                     THEN {openClawManagedSecretName(a, name)} ELSE {},
        env |-> GatewayVars(openclaw) \cup openclaw.ExtraEnv \cup secretKeys]

BuildPlan(a, v) ==
    LET name == resourceName(v)
        none == [apply |-> {}, remove |-> {}, env |-> {}]
        openclaw == IF IsOpenClaw(a) THEN appendOpenClawPlan(a, name) ELSE none
        exposed == a.config.Public
    IN [ref |-> SubmitRef(a, name),
        apply |-> {Namespace, EgressPolicy, <<"Deployment", name>>, <<"Service", name>>}
                    \cup {o \in {Ingress} : exposed} \cup openclaw.apply,
        remove |-> {o \in {Ingress} : ~exposed} \cup openclaw.remove,
        env |-> a.config.Env \cup openclaw.env]

-----------------------------------------------------------------------------
(* The API server: one step per call.                                      *)

Head1(w) == Head(op[w].script)

Exists(object) == object \in DOMAIN objects

Write(object, value) ==
    objects' = [o \in DOMAIN objects \cup {object} |->
                   IF o = object THEN value ELSE objects[o]]

Erase(object) ==
    objects' = [o \in DOMAIN objects \ {object} |-> objects[o]]

\* Whoever read the object that w changes holds an old resource version.
Outdate(w, object) ==
    seen' = [x \in Workers |->
               IF x = w THEN "nothing"
               ELSE IF seen[x] # "nothing" /\ Head1(x).object = object
                 THEN "stale" ELSE seen[x]]

Advance(w) == op' = [op EXCEPT ![w].script = Tail(@)]

Finish(w) == op' = [op EXCEPT ![w] = Idle] /\ seen' = [seen EXCEPT ![w] = "nothing"]

Busy(v) == \E w \in Workers : op[w].kind # "none" /\ op[w].version = v

Init ==
  /\ app \in [slug : SlugLengths, config : {normalizeConfig(c) : c \in RawConfigs}]
  /\ objects = <<>>
  /\ op = [w \in Workers |-> Idle]
  /\ seen = [w \in Workers |-> "nothing"]
  /\ ref = [v \in Versions |-> NoRef]
  /\ settled = {} /\ deleted = {}
  /\ overlapped = {} /\ torn = {} /\ swallowed = {}
  /\ operations = 0 /\ updates = 0 /\ faults = 0

\* A PATCH of the app's config.
UpdateApp(raw) ==
  /\ updates < MaxUpdates
  /\ updates' = updates + 1
  /\ app' = [app EXCEPT !.config = normalizeConfig(raw)]
  /\ UNCHANGED <<objects, op, seen, ref, settled, deleted, history, operations, faults>>

Begin(w, v, operation) ==
  /\ op[w] = Idle
  /\ operations < MaxOperations
  /\ operations' = operations + 1
  /\ op' = [op EXCEPT ![w] = operation]
  /\ overlapped' = IF Busy(v) THEN overlapped \cup {v} ELSE overlapped
  /\ settled' = settled \ {v}
  /\ UNCHANGED <<app, objects, seen, ref, deleted, torn, swallowed, updates, faults>>

\* DeploymentCreateHandler calls Submit with the app as it read it.
BeginSubmit(w, v) ==
  /\ v \notin deleted
  /\ Begin(w, v, [kind |-> "submit", version |-> v,
                  ref |-> SubmitRef(app, resourceName(v)),
                  script |-> Submit(app, resourceName(v))])

\* DeploymentDeleteHandler calls Delete with the row's BackendRef; an empty
\* one leaves nothing to call.
BeginDelete(w, v) ==
  Begin(w, v, [kind |-> "delete", version |-> v, ref |-> ref[v],
               script |-> IF ref[v].Deployment = <<>> THEN <<>>
                                                      ELSE Delete(app, ref[v])])

unchangedByCall == <<app, ref, settled, deleted, overlapped, operations, updates>>

\* Get, in an upsert or an ensure; an ensure that finds its object is done.
Get(w) ==
  /\ op[w].script # <<>> /\ Head1(w).verb \in {"upsert", "ensure"}
  /\ seen[w] = "nothing"
  /\ IF Head1(w).verb = "ensure" /\ Exists(Head1(w).object)
       THEN Advance(w) /\ UNCHANGED seen
       ELSE seen' = [seen EXCEPT ![w] = "fresh"] /\ UNCHANGED op
  /\ UNCHANGED <<objects, torn, swallowed, faults, unchangedByCall>>

\* Create or Update with what Get found still true.
Put(w) ==
  /\ seen[w] = "fresh"
  /\ Write(Head1(w).object, Head1(w).value)
  /\ Outdate(w, Head1(w).object)
  /\ Advance(w)
  /\ UNCHANGED <<torn, swallowed, faults, unchangedByCall>>

\* Create of what another worker has just created, in an ensure: AlreadyExists
\* counts as success.
AlreadyExists(w) ==
  /\ seen[w] = "stale" /\ Head1(w).verb = "ensure"
  /\ seen' = [seen EXCEPT ![w] = "nothing"]
  /\ Advance(w)
  /\ UNCHANGED <<objects, torn, swallowed, faults, unchangedByCall>>

\* In an upsert it is an error, as is a conflict: Submit returns it.
Conflict(w) ==
  /\ seen[w] = "stale" /\ Head1(w).verb = "upsert"
  /\ Finish(w)
  /\ UNCHANGED <<objects, torn, swallowed, faults, unchangedByCall>>

\* A deletion whose error is ignored; the client refuses an empty name.
DropStep(w) ==
  /\ op[w].script # <<>> /\ Head1(w).verb = "drop"
  /\ Erase(Head1(w).object)
  /\ Outdate(w, Head1(w).object)
  /\ Advance(w)
  /\ UNCHANGED <<torn, swallowed, faults, unchangedByCall>>

\* The deletion of the Deployment: NotFound ends Delete, with success.
RemoveStep(w) ==
  /\ op[w].script # <<>> /\ Head1(w).verb = "remove"
  /\ Erase(Head1(w).object)
  /\ Outdate(w, Head1(w).object)
  /\ op' = [op EXCEPT ![w].script = IF Exists(Head1(w).object) THEN Tail(@) ELSE <<>>]
  /\ UNCHANGED <<torn, swallowed, faults, unchangedByCall>>

\* Delete has removed the Deployment and still has the ConfigMap or Secret to do.
PastDeployment(w) ==
  op[w].kind = "delete" /\ op[w].script # <<>>
    /\ \A i \in DOMAIN op[w].script : op[w].script[i].object[1] \in {"ConfigMap", "Secret"}

\* Any other error of the API server: ignored in a deletion that is not the
\* Deployment's, returned everywhere else.
CallFails(w) ==
  /\ faults < MaxFaults
  /\ faults' = faults + 1
  /\ op[w].script # <<>>
  /\ IF Head1(w).verb = "drop"
       THEN /\ Advance(w)
            /\ swallowed' = swallowed \cup {Head1(w).object}
            /\ UNCHANGED seen
       ELSE Finish(w) /\ UNCHANGED swallowed
  /\ UNCHANGED <<objects, torn, unchangedByCall>>

\* The API server does what it was asked, but the reply is lost: Submit or Delete
\* returns an error and will be called again.
LostReply(w) ==
  /\ faults < MaxFaults
  /\ faults' = faults + 1
  /\ op[w].script # <<>>
  /\ \/ Head1(w).verb = "remove" /\ Erase(Head1(w).object)
     \/ seen[w] = "fresh" /\ Write(Head1(w).object, Head1(w).value)
  /\ Outdate(w, Head1(w).object)
  /\ op' = [op EXCEPT ![w] = Idle]
  /\ torn' = IF Head1(w).verb = "remove" THEN torn \cup {op[w].version} ELSE torn
  /\ UNCHANGED <<swallowed, unchangedByCall>>

\* The worker dies; the job is delivered again later, which is a new operation.
Crash(w) ==
  /\ faults < MaxFaults
  /\ faults' = faults + 1
  /\ op[w] # Idle
  /\ Finish(w)
  /\ torn' = IF PastDeployment(w) THEN torn \cup {op[w].version} ELSE torn
  /\ UNCHANGED <<objects, swallowed, unchangedByCall>>

\* The handler records the reference Submit returned, or that Delete is done.
Return(w) ==
  /\ op[w] # Idle /\ op[w].script = <<>>
  /\ Finish(w)
  /\ IF op[w].kind = "submit"
       THEN /\ ref' = [ref EXCEPT ![op[w].version] = op[w].ref]
            /\ settled' = settled \cup {op[w].version}
            /\ UNCHANGED deleted
       ELSE deleted' = deleted \cup {op[w].version} /\ UNCHANGED <<ref, settled>>
  /\ UNCHANGED <<app, objects, history, operations, updates, faults>>

Next ==
  \/ \E raw \in RawConfigs : UpdateApp(raw)
  \/ \E w \in Workers :
       \/ \E v \in Versions : BeginSubmit(w, v) \/ BeginDelete(w, v)
       \/ Get(w) \/ Put(w) \/ AlreadyExists(w) \/ Conflict(w)
       \/ DropStep(w) \/ RemoveStep(w)
       \/ CallFails(w) \/ LostReply(w) \/ Crash(w) \/ Return(w)

Spec == Init /\ [][Next]_vars

-----------------------------------------------------------------------------
(* Properties                                                              *)

Names == {<<>>, <<"slug">>, <<"tenant">>} \cup {resourceName(v) : v \in Versions}

Kinds == {"Namespace", "NetworkPolicy", "PersistentVolumeClaim", "ConfigMap",
          "Secret", "Deployment", "Service", "Ingress"}

\* Every variable has its type; no object without a name is ever written.
TypeInvariant ==
  /\ app.slug \in SlugLengths
  /\ DOMAIN objects \subseteq Kinds \X (Names \ {<<>>})
  /\ \A w \in Workers :
       /\ op[w].kind \in {"none", "submit", "delete"}
       /\ op[w].version \in Versions \cup {0}
       /\ seen[w] \in {"nothing", "fresh", "stale"}
       /\ seen[w] # "nothing" => op[w].script # <<>>
  /\ \A v \in Versions : ref[v].Deployment \in {<<>>, resourceName(v)}
  /\ settled \cup deleted \cup overlapped \cup torn \subseteq Versions
  /\ swallowed \subseteq Kinds \X Names

Resolved(need) ==
  Exists(need[1]) /\ (need[2] = "" \/ need[2] \in objects[need[1]].data)

\* Names of two versions differ: the slug leaves room for the version.
NamesFit == app.slug + Suffix <= MaxName

Own(v) == {<<k, resourceName(v)>> : k \in {"Deployment", "Service", "ConfigMap", "Secret"}}

\* After a Submit of a version has succeeded, and as long as no other
\* operation on that version runs or ran beside one, its pod and its service
\* find all they refer to: the workspace claim, every key of the ConfigMap and
\* of the managed Secret (Submit, configureOpenClawRuntime), whatever happens
\* to other versions and to the app's config meanwhile.
PodFindsItsObjects ==
  NamesFit =>
    \A v \in settled \ overlapped :
      \A k \in {"Deployment", "Service"} :
        LET object == <<k, resourceName(v)>>
        IN Exists(object) /\ \A need \in objects[object].needs : Resolved(need)

\* The ingress never routes to a service that does not exist (Submit writes
\* the service first, Delete takes the ingress first), unless two operations on
\* a version overlapped, a deletion of it was ignored, or the version it routes to
\* was later applied as a private one.
IngressHasService ==
  Exists(Ingress) /\ overlapped = {} /\ Ingress \notin swallowed =>
    \A v \in Versions :
      /\ objects[Ingress] = buildIngress(resourceName(v))
      /\ ref[v] = NoRef \/ ref[v].IngressName # <<>>
      => Exists(<<"Service", resourceName(v)>>)

\* A Delete that returned nil left nothing of its version behind: no pod,
\* service, ConfigMap or Secret (Backend.Delete), unless an earlier Delete
\* stopped between the Deployment and the rest, which NotFound then skips.
DeleteIsComplete ==
  NamesFit =>
    \A v \in deleted \ (overlapped \cup torn) :
      ref[v] # NoRef /\ Own(v) \cap swallowed = {}
        => Own(v) \cap DOMAIN objects = {}

\* The workspace claim, once there, stays for good: "workspace storage is
\* preserved across rollouts" (manifests.go:102), deletions included.
WorkspaceKept ==
  [][Exists(openClawWorkspacePVCName) => openClawWorkspacePVCName \in DOMAIN objects']_vars

\* The dry run tells the truth about what a Submit of the same app would
\* apply: the same objects, the same reference, and a pod with the same
\* variables but for the list of fallbacks (BuildPlan against Submit).  The row
\* of the app decides, so it is looked at before the first operation.
PlanMatchesSubmit ==
  operations = 0 => \A v \in Versions :
    LET plan == BuildPlan(app, v)
        script == Submit(app, resourceName(v))
        applied == {s \in Range(script) : s.verb \in {"upsert", "ensure"}}
        pod == buildDeployment(app, resourceName(v))
    IN /\ plan.apply = {s.object : s \in applied}
       /\ plan.ref = SubmitRef(app, resourceName(v))
       /\ pod.data \ plan.env \subseteq {"CLAWFLUX_INFERENCE_FALLBACKS"}
       /\ plan.env \subseteq pod.data

\* A config as the API returned it may be sent back: normalizeConfig changes
\* nothing in a config it has normalised (UpdateApp after CreateApp).
ConfigIsStable == operations = 0 => normalizeConfig(app.config) = app.config

\* "private deployments remove the public ingress" (manifests.go:69): once
\* every version in place was last applied while the app was private, and
\* nobody is at work, there is no ingress.
PrivateRemovesIngress ==
  settled # {} /\ op = [w \in Workers |-> Idle]
    /\ (\A v \in settled : ref[v].IngressName = <<>>)
    => ~Exists(Ingress)
=============================================================================
