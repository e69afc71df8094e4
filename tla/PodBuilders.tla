----------------------------- MODULE PodBuilders -----------------------------
(***************************************************************************)
(* The pod templates of internal/resources, and whether a pod built from   *)
(* one of them can start.                                                  *)
(*                                                                         *)
(* A reconciler turns the options of a custom resource into a workload     *)
(* (StatefulSet or Deployment) whose pods mount volumes, run init          *)
(* containers and name files in their arguments.  Nothing in the code      *)
(* checks that the parts fit: a mount needs a volume, a volume needs an    *)
(* object that some step creates, an argument needs a file that some init  *)
(* container writes, and an object created only after the pods are ready   *)
(* must not be one that the pods need to become ready.                     *)
(*                                                                         *)
(* One behaviour follows one workload: a replica set ("rs"), a config      *)
(* server ("cfg"), a shard ("shard") or the routers ("mongos").  The       *)
(* options of the resource are a set of flags; file contents, resources,   *)
(* images, probes' timings and the size and class of a claim are left out. *)
(***************************************************************************)
EXTENDS Integers, FiniteSets

CONSTANTS
    Roles,        \* the workloads to follow, a subset of rs, cfg, shard, mongos
    MaxOptions,   \* bound on the number of options of one resource
    Toggled,      \* the options a user may switch on or off later
    MaxEdits,     \* bound on such edits
    MaxRestarts   \* bound on the times a node restarts a pod in place

VARIABLES
    role,     \* the workload followed
    opts,     \* the options of the resource
    exists,   \* Secrets, ConfigMaps and Certificates in the namespace
    tmpl,     \* the template last applied, NoTemplate before the first
    pods,     \* none, rolling (not yet restarted), starting, ready
    left,     \* files an earlier start of the pod left in its emptyDirs
    step,     \* where the reconciler is: prepare, apply, gate
    used      \* [edits, restarts] made so far

vars == <<role, opts, exists, tmpl, pods, left, step, used>>

Options == {"admin", "tls", "issuer", "customCert", "encryption", "audit",
            "forwarder", "mongot", "permissions", "diagnostic", "preStop",
            "initScripts", "initRef", "exporter", "pitr"}

(* A nested option is only present in the block that holds it.             *)
WellFormed(o) ==
    /\ o \cap {"issuer", "customCert"} # {} => "tls" \in o
    /\ "forwarder" \in o => "audit" \in o
    /\ "initRef" \in o => "initScripts" \in o

Resources == {o \in SUBSET Options : Cardinality(o) <= MaxOptions /\ WellFormed(o)}

Flag(o, S) == IF o \in opts THEN S ELSE {}

-----------------------------------------------------------------------------
(* Parts of a template.  A volume names the object it shows, or "empty";   *)
(* a file is a pair of a volume and a name in it.                          *)

Volume(n, from) == [name |-> n, from |-> from]

Container(n, mounts, files, env) ==
    [name |-> n, mounts |-> mounts, files |-> files, env |-> env,
     runsServer |-> n \in {"mongodb", "mongos"}]

InitContainer(n, mounts, reads, writes) ==
    [name |-> n, mounts |-> mounts, reads |-> reads, writes |-> writes]

(* cp of busybox unlinks a file it cannot open and writes a new one;       *)
(* "> file" needs write permission on the file that is there.              *)
Replaces(v, f)  == [file |-> <<v, f>>, how |-> "replace"]
Truncates(v, f) == [file |-> <<v, f>>, how |-> "truncate"]

CopyKeyfile ==
    InitContainer("copy-keyfile", {"keyfile-secret", "keyfile"},
                  {<<"keyfile-secret", "keyfile">>}, {Replaces("keyfile", "keyfile")})

keyfileVolumes == {Volume("keyfile-secret", "keyfile"), Volume("keyfile", "empty")}

buildScriptsVolume == Volume("scripts", "scripts")

buildAdminCredentialsVolume == Volume("admin-credentials", "admin")

(* The files that the two hooks run.                                       *)
buildAdminBootstrapLifecycle ==
    {<<"scripts", "bootstrap-admin.sh">>, <<"scripts", "prestop-stepdown.sh">>}

buildTLSServerVolume == Volume("tls-server", "name-tls")

buildTLSPEMVolume == Volume("tls-server-pem", "empty")

tlsArgs == {<<"tls-server-pem", "server.pem">>, <<"tls-server", "ca.crt">>}

(* What broke a cluster before: the init container redirecting straight    *)
(* into server.pem, which the first start left with mode 0400.             *)
BuildPEMMergeInitContainer_Redirects ==
    InitContainer("tls-pem-merge", {"tls-server", "tls-server-pem"},
                  {<<"tls-server", "tls.crt">>, <<"tls-server", "tls.key">>},
                  {Truncates("tls-server-pem", "server.pem")})

(* Writes server.pem.tmp, which stays writable, and renames it.            *)
BuildPEMMergeInitContainer ==
    InitContainer("tls-pem-merge", {"tls-server", "tls-server-pem"},
                  {<<"tls-server", "tls.crt">>, <<"tls-server", "tls.key">>},
                  {Replaces("tls-server-pem", "server.pem")})

buildVolumePermissionsInit == InitContainer("volume-permissions", {"data"}, {}, {})

EncryptionArgs == {<<"encryption", "keyfile">>}

AuditArgs == {<<"audit-log", "audit.json">>}

MongotVolumes ==
    {Volume("mongot-config", "mongot-config"), Volume("mongot-sync-raw", "sync"),
     Volume("mongot-secrets", "empty")}

MongotInit ==
    InitContainer("copy-mongot-password", {"mongot-sync-raw", "mongot-secrets"},
                  {<<"mongot-sync-raw", "password">>},
                  {Replaces("mongot-secrets", "passwordFile")})

MongotSidecar ==
    Container("mongot", {"mongot-config", "data", "mongot-secrets"},
              {<<"mongot-config", "config.yml">>, <<"mongot-secrets", "passwordFile">>}, {})

BuildOplogTailerSidecar ==
    Container("oplog-tailer", {"oplog-staging"} \cup Flag("admin", {"admin-credentials"}), {}, {})

BuildOplogStagingVolume == Volume("oplog-staging", "empty")

buildAuditForwarderSidecar == Container("audit-forwarder", {"audit-log"}, {}, {})

Exporter == Container("exporter", {}, {}, {"exporter-uri"})

(* Only the server container is replaced: no arguments, probes or hooks.   *)
applyDiagnosticMode(c) == [c EXCEPT !.files = {}, !.runsServer = FALSE]

(* Additional mounts; a user's preStop replaces the operator's.            *)
applyPodSpecExtensions(c) ==
    [c EXCEPT !.mounts = @ \cup Flag("initScripts", {"init-scripts"}),
              !.files  = @ \ Flag("preStop", {<<"scripts", "prestop-stepdown.sh">>})]

appendPodSpecPodLevel == Flag("initRef", {Volume("init-scripts", "init-scripts")})

(* The options that the three kinds of mongod pod treat alike.             *)
tlsVolumes == Flag("tls", {buildTLSServerVolume, buildTLSPEMVolume})

tlsMounts == Flag("tls", {"tls-server", "tls-server-pem"})

sidecarMounts == Flag("pitr", {"oplog-staging"}) \cup Flag("forwarder", {"audit-log"})

sidecarVolumes ==
    Flag("pitr", {BuildOplogStagingVolume}) \cup Flag("forwarder", {Volume("audit-log", "empty")})

sidecars == Flag("pitr", {BuildOplogTailerSidecar}) \cup Flag("forwarder", {buildAuditForwarderSidecar})

serverArgs ==
    {<<"keyfile", "keyfile">>} \cup Flag("tls", tlsArgs)
        \cup Flag("encryption", EncryptionArgs) \cup Flag("audit", AuditArgs)

Extended(c) ==
    applyPodSpecExtensions(IF "diagnostic" \in opts THEN applyDiagnosticMode(c) ELSE c)

-----------------------------------------------------------------------------
(* The replica set.                                                        *)

ReplicaSetVolumes ==
    keyfileVolumes \cup {buildScriptsVolume} \cup Flag("admin", {buildAdminCredentialsVolume})
        \cup tlsVolumes \cup Flag("mongot", MongotVolumes)
        \cup sidecarVolumes \cup appendPodSpecPodLevel

ReplicaSetInits ==
    {CopyKeyfile} \cup Flag("tls", {BuildPEMMergeInitContainer})
        \cup Flag("permissions", {buildVolumePermissionsInit}) \cup Flag("mongot", {MongotInit})

(* The replica set always runs the hooks and a readiness script.           *)
ReplicaSetServer ==
    LET c == Extended(Container("mongodb",
                 {"data", "keyfile", "scripts"} \cup Flag("admin", {"admin-credentials"}) \cup tlsMounts,
                 serverArgs \cup buildAdminBootstrapLifecycle \cup {<<"scripts", "readiness-probe.sh">>},
                 {}))
    IN [c EXCEPT !.mounts = @ \cup sidecarMounts]

BuildReplicaSetStatefulSet ==
    [selector |-> {"replicaset"}, labels |-> {"replicaset"}, claims |-> {"data"},
     volumes |-> ReplicaSetVolumes, inits |-> ReplicaSetInits,
     containers |-> {ReplicaSetServer} \cup Flag("exporter", {Exporter}) \cup sidecars
                        \cup Flag("mongot", {MongotSidecar})]

-----------------------------------------------------------------------------
(* A config server: scripts and hooks only with an admin Secret.           *)

ConfigServerVolumes ==
    keyfileVolumes \cup Flag("admin", {buildScriptsVolume, buildAdminCredentialsVolume})
        \cup tlsVolumes \cup sidecarVolumes \cup appendPodSpecPodLevel

ConfigServerServer ==
    Extended(Container("mongodb",
        {"data", "keyfile"} \cup Flag("admin", {"scripts", "admin-credentials"})
            \cup tlsMounts \cup sidecarMounts,
        serverArgs \cup Flag("admin", buildAdminBootstrapLifecycle), {}))

BuildConfigServerStatefulSet ==
    [selector |-> {"configsvr"}, labels |-> {"configsvr"}, claims |-> {"data"},
     volumes |-> ConfigServerVolumes,
     inits |-> {CopyKeyfile} \cup Flag("permissions", {buildVolumePermissionsInit}),
     containers |-> {ConfigServerServer} \cup sidecars]

-----------------------------------------------------------------------------
(* A shard: like a config server, with the search sidecar.  The label that *)
(* marks the sidecar is added to a copy of the labels, because the         *)
(* selector shares the map and must not change.                            *)

ShardVolumes ==
    keyfileVolumes \cup Flag("admin", {buildScriptsVolume, buildAdminCredentialsVolume})
        \cup tlsVolumes \cup Flag("mongot", MongotVolumes) \cup sidecarVolumes
        \cup appendPodSpecPodLevel

ShardServer ==
    Extended(Container("mongodb",
        {"data", "keyfile"} \cup Flag("admin", {"scripts", "admin-credentials"})
            \cup tlsMounts \cup sidecarMounts,
        serverArgs \cup Flag("admin", buildAdminBootstrapLifecycle), {}))

ShardLabels_InPlace ==
    [selector |-> {"shard-0"} \cup Flag("mongot", {"mongot"}),
     labels |-> {"shard-0"} \cup Flag("mongot", {"mongot"})]

ShardLabels_Unmarked == [selector |-> {"shard-0"}, labels |-> {"shard-0"}]

ShardLabels == [selector |-> {"shard-0"}, labels |-> {"shard-0"} \cup Flag("mongot", {"mongot"})]

BuildShardStatefulSet ==
    [selector |-> ShardLabels.selector, labels |-> ShardLabels.labels, claims |-> {"data"},
     volumes |-> ShardVolumes,
     inits |-> {CopyKeyfile} \cup Flag("mongot", {MongotInit})
                   \cup Flag("permissions", {buildVolumePermissionsInit}),
     containers |-> {ShardServer} \cup sidecars \cup Flag("mongot", {MongotSidecar})]

(* The selector of the Service through which the routers reach mongot.     *)
BuildMongotService == {"shard-0", "mongot"}

-----------------------------------------------------------------------------
(* The routers: no data volume, no encryption, the bootstrap hook only.    *)

buildMongosVolumes ==
    keyfileVolumes \cup Flag("admin", {buildScriptsVolume, buildAdminCredentialsVolume}) \cup tlsVolumes

MongosServer ==
    LET c == Extended(Container("mongos",
                 {"keyfile"} \cup tlsMounts \cup Flag("admin", {"scripts", "admin-credentials"}),
                 {<<"keyfile", "keyfile">>} \cup Flag("tls", tlsArgs) \cup Flag("audit", AuditArgs)
                     \cup Flag("admin", {<<"scripts", "bootstrap-admin.sh">>}), {}))
    IN [c EXCEPT !.mounts = @ \cup Flag("forwarder", {"audit-log"})]

BuildMongosDeployment ==
    [selector |-> {"mongos"}, labels |-> {"mongos"}, claims |-> {},
     volumes |-> buildMongosVolumes \cup appendPodSpecPodLevel
                     \cup Flag("forwarder", {Volume("audit-log", "empty")}),
     inits |-> {CopyKeyfile},
     containers |-> {MongosServer} \cup Flag("exporter", {Exporter})
                        \cup Flag("forwarder", {buildAuditForwarderSidecar})]

-----------------------------------------------------------------------------
(* Starting a pod: the kubelet's part.                                     *)

(* The files of an object shown as a volume.                               *)
Contents(object) ==
    CASE object = "keyfile"       -> {"keyfile"}
      [] object = "scripts"       -> IF role = "mongos" THEN {"configdb", "bootstrap-admin.sh"}
                                     ELSE {"readiness-probe.sh", "bootstrap-admin.sh", "prestop-stepdown.sh"}
      [] object = "name-tls"      -> {"tls.crt", "tls.key", "ca.crt"}
      [] object = "admin"         -> {"password"}
      [] object = "sync"          -> {"password"}
      [] object = "mongot-config" -> {"config.yml"}
      [] OTHER                    -> {}

Declared(t) == {v.name : v \in t.volumes} \cup t.claims

Shown(t) == UNION {{<<v.name, f>> : f \in Contents(v.from)} : v \in t.volumes}

(* audit.json is created by the server in the mounted directory.           *)
Created(t) == {<<v.name, "audit.json">> : v \in {w \in t.volumes : w.name = "audit-log"}}

Written(t) == {w.file : w \in UNION {i.writes : i \in t.inits}}

MountsResolve(t) ==
    \A c \in t.containers \cup t.inits : c.mounts \subseteq Declared(t)

ObjectsExist(t) ==
    /\ \A v \in t.volumes : v.from \in exists \cup {"empty"}
    /\ \A c \in t.containers : c.env \subseteq exists

InitsSucceed(t) ==
    \A i \in t.inits :
        /\ i.reads \subseteq {f \in Shown(t) : f[1] \in i.mounts}
        /\ \A w \in i.writes : ~(w.how = "truncate" /\ w.file \in left)

FilesPresent(t) ==
    \A c \in t.containers :
        c.files \subseteq {f \in Shown(t) \cup Created(t) \cup Written(t) : f[1] \in c.mounts}

(* mongot only answers its probe while the mongod beside it runs.          *)
ProbesAnswer(t) ==
    (\E c \in t.containers : c.name = "mongot") => \E c \in t.containers : c.runsServer

CanStart(t) ==
    MountsResolve(t) /\ ObjectsExist(t) /\ InitsSucceed(t) /\ FilesPresent(t) /\ ProbesAnswer(t)

-----------------------------------------------------------------------------
NoTemplate == [volumes |-> {}]

(* What the user and the search controller provide beforehand; see         *)
(* SearchControllers for the order in which the latter does.               *)
Provided == {"admin", "custom-cert", "init-scripts", "sync", "mongot-config"}

Init ==
    /\ role \in Roles
    /\ opts \in Resources
    /\ exists = Provided
    /\ tmpl = NoTemplate
    /\ pods = "none"
    /\ left = {}
    /\ step = "prepare"
    /\ used = [edits |-> 0, restarts |-> 0]

(* A Certificate is requested only with an issuer; the Secret it names is  *)
(* the user's when there is a customCert.                                  *)
TLSCertSecretName == IF "customCert" \in opts THEN "custom-cert" ELSE "name-tls"

buildCertificate == IF {"tls", "issuer"} \subseteq opts THEN {"certificate"} ELSE {}

scriptsConfigMap == IF role \in {"rs", "mongos"} THEN {"scripts"} ELSE Flag("admin", {"scripts"})

(* The steps before the workload: TLS, keyfile, scripts.                   *)
Prepare ==
    /\ step = "prepare"
    /\ exists' = exists \cup {"keyfile"} \cup buildCertificate \cup scriptsConfigMap
    /\ step' = "apply"
    /\ UNCHANGED <<role, opts, tmpl, pods, left, used>>

(* cert-manager, external.                                                 *)
IssueCertificate ==
    /\ "certificate" \in exists
    /\ TLSCertSecretName \notin exists
    /\ exists' = exists \cup {TLSCertSecretName}
    /\ UNCHANGED <<role, opts, tmpl, pods, left, step, used>>

(* The sharded controller adds the PEM merge itself.                       *)
WithPEMMerge(t) == [t EXCEPT !.inits = @ \cup Flag("tls", {BuildPEMMergeInitContainer})]

Build ==
    CASE role = "rs"     -> BuildReplicaSetStatefulSet
      [] role = "cfg"    -> WithPEMMerge(BuildConfigServerStatefulSet)
      [] role = "shard"  -> WithPEMMerge(BuildShardStatefulSet)
      [] role = "mongos" -> WithPEMMerge(BuildMongosDeployment)

(* The API server refuses a template whose selector changed, or one with a *)
(* mount that names no volume.  Claim templates are set at creation only.  *)
Accepted(t) ==
    /\ MountsResolve(t)
    /\ tmpl # NoTemplate => t.selector = tmpl.selector

ApplyWorkload ==
    /\ step = "apply"
    /\ IF ~Accepted(Build)
       THEN step' = "prepare" /\ UNCHANGED <<tmpl, pods>>
       ELSE /\ step' = "gate"
            /\ tmpl' = Build
            /\ pods' = IF tmpl' = tmpl THEN pods
                       ELSE IF pods = "ready" THEN "rolling" ELSE "starting"
    /\ UNCHANGED <<role, opts, exists, left, used>>

(* The readiness gate reads the workload's status: a roll that has not     *)
(* begun still counts as ready.                                            *)
ReadyNow == pods \in {"ready", "rolling"}

reconcileExporterSecret == IF role = "rs" THEN Flag("exporter", {"exporter-uri"}) ELSE {}

Gate ==
    /\ step = "gate"
    /\ step' = "prepare"
    /\ exists' = IF ReadyNow THEN exists \cup reconcileExporterSecret ELSE exists
    /\ UNCHANGED <<role, opts, tmpl, pods, left, used>>

(* The kubelet and the workload controllers, external.                     *)
BeginRoll ==
    /\ pods = "rolling"
    /\ pods' = "starting"
    /\ left' = {}
    /\ UNCHANGED <<role, opts, exists, tmpl, step, used>>

StartPod ==
    /\ pods = "starting"
    /\ CanStart(tmpl)
    /\ pods' = "ready"
    /\ left' = Written(tmpl)
    /\ UNCHANGED <<role, opts, exists, tmpl, step, used>>

(* A node restart runs the init containers again on the same emptyDirs.    *)
RestartInPlace ==
    /\ pods = "ready"
    /\ used.restarts < MaxRestarts
    /\ pods' = "starting"
    /\ used' = [used EXCEPT !.restarts = @ + 1]
    /\ UNCHANGED <<role, opts, exists, tmpl, left, step>>

Edit ==
    /\ used.edits < MaxEdits
    /\ \E o \in Toggled :
        LET new == IF o \in opts THEN opts \ {o} ELSE opts \cup {o}
        IN WellFormed(new) /\ opts' = new
    /\ used' = [used EXCEPT !.edits = @ + 1]
    /\ UNCHANGED <<role, exists, tmpl, pods, left, step>>

Reconcile == Prepare \/ ApplyWorkload \/ Gate

Next == Reconcile \/ IssueCertificate \/ BeginRoll \/ StartPod \/ RestartInPlace \/ Edit

(* Reconciles are retried, cert-manager answers and the kubelet keeps      *)
(* trying; users and node restarts owe nothing.                            *)
FairSpec ==
    /\ Init /\ [][Next]_vars
    /\ WF_vars(Reconcile) /\ WF_vars(IssueCertificate) /\ WF_vars(BeginRoll) /\ WF_vars(StartPod)

-----------------------------------------------------------------------------
(* Options the templates cannot serve; see the README.                     *)
Unserved ==
    \/ "tls" \in opts /\ ("issuer" \notin opts \/ "customCert" \in opts)
    \/ "initScripts" \in opts /\ "initRef" \notin opts
    \/ role # "mongos" /\ "encryption" \in opts /\ "diagnostic" \notin opts
    \/ "audit" \in opts /\ "forwarder" \notin opts /\ "diagnostic" \notin opts
    \/ {"mongot", "diagnostic"} \subseteq opts

Monitored == "exporter" \in opts /\ role \in {"rs", "mongos"}

(* PodsStart: whatever combination of the options the templates serve is   *)
(* chosen, in whatever order the objects appear, and after a node restart  *)
(* that runs the init containers again, the pods become ready and stay so. *)
PodsStart == <>[](~Unserved /\ ~Monitored) => <>[](pods = "ready")

(* SelectorKept: a reconcile never builds a template that the API server   *)
(* refuses for the selector: it is that of the running workload, and the   *)
(* labels of the pods satisfy it.                                          *)
SelectorKept ==
    tmpl # NoTemplate =>
        /\ Build.selector = tmpl.selector
        /\ Build.selector \subseteq Build.labels

(* ServiceFindsSidecars: once applied, the Service through which routers   *)
(* reach mongot selects exactly the shard pods that run the sidecar.       *)
ServiceFindsSidecars ==
    tmpl # NoTemplate /\ role = "shard" =>
        (BuildMongotService \subseteq tmpl.labels <=> \E c \in tmpl.containers : c.name = "mongot")

(* MonitoredClusterStarts: a resource with monitoring enabled gets ready   *)
(* pods, as MonitoringSpec's doc of Enabled implies.                       *)
MonitoredClusterStarts == <>[](Monitored /\ ~Unserved) => <>(pods = "ready")
=============================================================================
