----------------------------- MODULE Admission -----------------------------
(***************************************************************************)
(* The validating webhooks of MongoDB, MongoDBSharded and                  *)
(* MongoDBSearchIndex, seen by one object over its life: created, edited,  *)
(* given a finalizer by its controller, deleted, and released by an Update *)
(* that drops the finalizer and passes the same webhook.  The webhooks are *)
(* a start-up flag, off by default, so they may be switched on above       *)
(* objects that were stored without them.                                  *)
(*                                                                         *)
(* A pointer field of the API is a set of at most one value; a string that *)
(* is only tested for emptiness is a Boolean, TRUE when it is not empty.   *)
(* The enumerated values are ones the CRD schema lets through.             *)
(***************************************************************************)
EXTENDS VersionPath, Sequences

CONSTANTS MaxEdits   \* creations and edits by users

VARIABLES
    kind,      \* the kind of the object
    on,        \* the webhooks are served (--enable-webhooks)
    obj,       \* the stored object; sound: every write of its spec passed the webhooks
    indexes,   \* external: the search indexes mongot holds for the object
    irun,      \* the target the index controller read and is about to create
    hist       \* edits used; sound: every object so far was

vars == <<kind, on, obj, indexes, irun, hist>>

Kinds == {"MongoDB", "MongoDBSharded", "MongoDBSearchIndex"}

(***************************************************************************)
(* The specs: a sound one of each kind, and the values each field may be   *)
(* edited to.                                                              *)
(***************************************************************************)
Providers == {"secret", "vault", "aws-kms", "gcp-kms", "azure-kv"}

TLSValues == {{}} \cup {{[certManager |-> cm, customCert |-> cc]} :
                           cm \in {{}, {TRUE}, {FALSE}}, cc \in {{}, {TRUE}, {FALSE}}}

BackupValues ==
    {{}} \cup {{[enabled |-> e, schedule |-> s, type |-> t, s3 |-> x]} :
                  e \in BOOLEAN, s \in BOOLEAN, t \in {"s3", "pvc"},
                  x \in {{}} \cup {{[bucket |-> b, credentials |-> c]} : b \in BOOLEAN, c \in BOOLEAN}}

KMS(ps) == {[provider |-> p, complete |-> c] : p \in ps, c \in BOOLEAN}

LDAPValues ==
    {{}} \cup {{[servers |-> s, tls |-> t, bind |-> "simple"]} : s \in BOOLEAN, t \in BOOLEAN}

OIDCValues ==
    {{}} \cup {{[issuer |-> i, client |-> c, idp |-> "okta"]} :
                  i \in {"", "http", "https", "https?query"}, c \in BOOLEAN}

ArbiterValues ==
    {{}} \cup {{[enabled |-> e, replicas |-> r]} : e \in BOOLEAN, r \in 0..1}

EncryptionValues ==
    {{}} \cup {{[enabled |-> e, provider |-> p, kms |-> k, days |-> 90]} :
                  e \in BOOLEAN, p \in {"", "vault"},
                  k \in {{}, {[provider |-> "secret", complete |-> TRUE],
                              [provider |-> "vault", complete |-> TRUE]}}
                        \cup {{c} : c \in KMS({"secret", "vault"})}}

AuditValues ==
    {{}} \cup {{[enabled |-> e, destination |-> "file", forwarder |-> f, rules |-> r]} :
                  e \in BOOLEAN,
                  f \in {{}} \cup {{[type |-> "loki", http |-> h]} : h \in BOOLEAN},
                  r \in {<<>>, <<[name |-> TRUE, event |-> FALSE, severity |-> "info"]>>}}

Key(f, o) == [field |-> f, order |-> o]
Coll(ns, k, u, ts) == [ns |-> ns, key |-> k, unique |-> u, timeseries |-> ts]

CollectionValues ==
    LET plain == Coll("db.a", <<Key("ts", "hashed")>>, TRUE, {})
        other == Coll("db.b", <<Key("meta", "1")>>, FALSE, {"ts"})
        bad   == Coll("db.a", <<Key("ts", "hashed")>>, FALSE, {"ts"})
    IN  {<<>>, <<plain>>, <<plain, other>>, <<plain, plain>>, <<bad>>}

Values ==
    [MongoDB |->
        [version |-> {700, 800, 820, 830}, members |-> {1, 2, 3}, arbiter |-> {{}, {TRUE}},
         autoScaling |-> {{}, {TRUE}}, size |-> {0, 512, 10240}, secret |-> BOOLEAN,
         ldap |-> LDAPValues, oidc |-> OIDCValues, encryption |-> EncryptionValues,
         auditLog |-> AuditValues, tls |-> TLSValues, backup |-> BackupValues],
     MongoDBSharded |->
        [version |-> {700, 800, 820, 830}, count |-> {2, 65}, membersPerShard |-> {1, 2, 3},
         arbiter |-> ArbiterValues, configSize |-> {512, 10240}, size |-> {512, 10240},
         secret |-> BOOLEAN, tls |-> TLSValues, backup |-> BackupValues,
         shardedCollections |-> CollectionValues],
     MongoDBSearchIndex |->
        [database |-> {"db", "db2"}, collection |-> {"a", "b"}, indexName |-> {"i", "j"},
         type |-> {"search", "vectorSearch"}, searchRef |-> {"s", "t"},
         definition |-> {"broken", "plain", "fields"}]]

Base ==
    [MongoDB |->
        [version |-> 820, members |-> 3, arbiter |-> {}, autoScaling |-> {}, size |-> 10240,
         secret |-> TRUE, ldap |-> {}, oidc |-> {}, encryption |-> {}, auditLog |-> {}, tls |-> {},
         backup |-> {}],
     MongoDBSharded |->
        [version |-> 820, count |-> 2, membersPerShard |-> 3, arbiter |-> {}, configSize |-> 10240,
         size |-> 10240, secret |-> TRUE, tls |-> {}, backup |-> {}, shardedCollections |-> <<>>],
     MongoDBSearchIndex |->
        [database |-> "db", collection |-> "a", indexName |-> "i", type |-> "search",
         searchRef |-> "s", definition |-> "plain"]]

\* A spec with one field of s edited.
Edited(s) == UNION {{[s EXCEPT ![f] = v] : v \in Values[kind][f]} : f \in DOMAIN s}

(***************************************************************************)
(* The rules.                                                              *)
(***************************************************************************)
validateStorageSize(size) == size = 0 \/ size >= 1024

validateAuthSecretRef(name) == name

validateTLSSpec(tls) == \A t \in tls : FALSE \notin t.certManager /\ FALSE \notin t.customCert

validateBackupSpec(backup) ==
    \A b \in backup : b.enabled =>
        /\ b.schedule
        /\ b.type = "s3" => b.s3 # {} /\ \A s3 \in b.s3 : s3.bucket /\ s3.credentials

ValidateLDAPSpec(ldap) ==
    \A l \in ldap : l.servers /\ l.tls /\ l.bind \in {"", "simple", "sasl"}

ValidateOIDCSpec(oidc) ==
    \A o \in oidc :
        /\ o.issuer = "https" /\ o.client
        /\ o.idp \in {"", "generic", "keycloak", "okta", "auth0", "google"}

countConfiguredProviders(kms) == Cardinality({c.provider : c \in kms})

ValidateEncryptionSpec(encryption) ==
    \A e \in encryption : e.enabled =>
        LET provider == IF e.provider = "" THEN "secret" ELSE e.provider
        IN  /\ countConfiguredProviders(e.kms) <= 1
            /\ provider \in Providers
            /\ \E c \in e.kms : c.provider = provider /\ c.complete
            /\ e.days >= 0

ValidateAuditLogSpec(auditLog) ==
    \A a \in auditLog : a.enabled =>
        /\ a.destination \in {"", "file", "syslog", "console"}
        /\ \A f \in a.forwarder : f.type \in {"loki", "elasticsearch", "opensearch"} /\ f.http
        /\ \A i \in DOMAIN a.rules :
              /\ a.rules[i].name /\ a.rules[i].event
              /\ a.rules[i].severity \in {"", "info", "warning", "critical"}

\* Zero or one member, or an odd number of them.
OddMembers(n) == n \in {0, 1} \/ n % 2 = 1

\* spec.arbiter is not looked at.
validateMongoDBSpec(s) ==
    /\ IsSupportedMongoDBVersion(s.version)
    /\ s.members = 1 => TRUE \notin s.autoScaling
    /\ ValidateLDAPSpec(s.ldap) /\ ValidateOIDCSpec(s.oidc)
    /\ ValidateEncryptionSpec(s.encryption) /\ ValidateAuditLogSpec(s.auditLog)
    /\ OddMembers(s.members)
    /\ validateStorageSize(s.size) /\ validateAuthSecretRef(s.secret)
    /\ validateTLSSpec(s.tls) /\ validateBackupSpec(s.backup)

validateShardedCollections(cs) ==
    /\ \A i, j \in DOMAIN cs : i # j => cs[i].ns # cs[j].ns
    /\ \A i \in DOMAIN cs :
          /\ cs[i].key # <<>>
          /\ \A j \in DOMAIN cs[i].key : cs[i].key[j].order \in {"1", "-1", "hashed"}
          /\ \A timeField \in cs[i].timeseries :
                ~cs[i].unique /\ \A j \in DOMAIN cs[i].key : cs[i].key[j] # Key(timeField, "hashed")

validateShardArbiter(arbiter, members) ==
    \A a \in arbiter : a.enabled =>
        /\ a.replicas = 1
        /\ members > 0 => (members + a.replicas) % 2 = 1

validateMongoDBShardedSpec(s) ==
    /\ IsSupportedMongoDBVersion(s.version)
    /\ s.count <= 64
    /\ OddMembers(s.membersPerShard)
    /\ validateStorageSize(s.configSize) /\ validateStorageSize(s.size)
    /\ validateAuthSecretRef(s.secret)
    /\ validateTLSSpec(s.tls) /\ validateBackupSpec(s.backup)
    /\ validateShardArbiter(s.arbiter, s.membersPerShard)
    /\ validateShardedCollections(s.shardedCollections)

validateSearchIndexSpec(s) ==
    /\ s.definition # "broken"
    /\ s.type = "vectorSearch" => s.definition = "fields"

validateSpec(s) ==
    CASE kind = "MongoDB" -> validateMongoDBSpec(s)
      [] kind = "MongoDBSharded" -> validateMongoDBShardedSpec(s)
      [] kind = "MongoDBSearchIndex" -> validateSearchIndexSpec(s)

Target(s) == <<s.database, s.collection, s.indexName>>

\* Mutant: an index may be renamed.
validateImmutable_AllowsRename(old, new) ==
    /\ old.database = new.database /\ old.collection = new.collection
    /\ old.type = new.type /\ old.searchRef = new.searchRef

validateImmutable(old, new) ==
    /\ Target(old) = Target(new)
    /\ old.type = new.type /\ old.searchRef = new.searchRef

ValidateCreate(s) == on => validateSpec(s)

\* Mutant: an object that is being deleted may not be written any more.
ValidateUpdate_FrozenOnceDeleted(old, new) ==
    on => /\ ~obj.deleting
          /\ validateSpec(new)
          /\ IF kind = "MongoDBSearchIndex" THEN validateImmutable(old, new)
             ELSE IsValidUpgradePath(old.version, new.version)

ValidateUpdate(old, new) ==
    on => /\ validateSpec(new)
          /\ IF kind = "MongoDBSearchIndex" THEN validateImmutable(old, new)
             ELSE IsValidUpgradePath(old.version, new.version)

(***************************************************************************)
(* The life of the object.                                                 *)
(***************************************************************************)
NoObject(k) == [exists |-> FALSE, spec |-> Base[k], fin |-> FALSE, deleting |-> FALSE, sound |-> TRUE]

Init ==
    /\ kind \in Kinds
    /\ on \in BOOLEAN
    /\ obj = NoObject(kind)
    /\ indexes = {} /\ irun = {}
    /\ hist = [edits |-> 0, sound |-> TRUE]

EnableWebhooks ==
    /\ ~on /\ on' = TRUE
    /\ UNCHANGED <<kind, obj, indexes, irun, hist>>

Wrote ==
    /\ hist.edits < MaxEdits
    /\ hist' = [edits |-> hist.edits + 1, sound |-> hist.sound /\ on]

Create ==
    /\ ~obj.exists /\ Wrote
    /\ \E s \in {Base[kind]} \cup Edited(Base[kind]) :
          /\ ValidateCreate(s)
          /\ obj' = [NoObject(kind) EXCEPT !.exists = TRUE, !.spec = s, !.sound = on]
    /\ UNCHANGED <<kind, on, indexes, irun>>

Update ==
    /\ obj.exists /\ Wrote
    /\ \E s \in Edited(obj.spec) \ {obj.spec} :
          /\ ValidateUpdate(obj.spec, s)
          /\ obj' = [obj EXCEPT !.spec = s, !.sound = @ /\ on]
    /\ UNCHANGED <<kind, on, indexes, irun>>

\* ValidateDelete allows every delete; without a finalizer the object goes at once.
Delete ==
    /\ obj.exists /\ ~obj.deleting
    /\ obj' = IF obj.fin THEN [obj EXCEPT !.deleting = TRUE] ELSE NoObject(kind)
    /\ UNCHANGED <<kind, on, indexes, irun, hist>>

\* The first reconcile; an Update of the metadata, so the webhook sees it.
AddFinalizer ==
    /\ obj.exists /\ ~obj.deleting /\ ~obj.fin
    /\ ValidateUpdate(obj.spec, obj.spec)
    /\ obj' = [obj EXCEPT !.fin = TRUE]
    /\ UNCHANGED <<kind, on, indexes, irun, hist>>

\* The index controller reads the object, then creates the index it read.
ReadIndex ==
    /\ kind = "MongoDBSearchIndex" /\ obj.exists /\ obj.fin /\ ~obj.deleting /\ irun = {}
    /\ Target(obj.spec) \notin indexes
    /\ irun' = {Target(obj.spec)}
    /\ UNCHANGED <<kind, on, obj, indexes, hist>>

CreateIndex ==
    /\ irun # {}
    /\ indexes' = indexes \cup irun /\ irun' = {}
    /\ UNCHANGED <<kind, on, obj, hist>>

\* handleDeletion: clean up what the spec names, then drop the finalizer.
HandleDeletion ==
    /\ obj.deleting /\ irun = {}
    /\ indexes' = IF kind = "MongoDBSearchIndex" THEN indexes \ {Target(obj.spec)} ELSE indexes
    /\ obj' = IF ValidateUpdate(obj.spec, obj.spec) THEN NoObject(kind) ELSE obj
    /\ UNCHANGED <<kind, on, irun, hist>>

Controller == AddFinalizer \/ ReadIndex \/ CreateIndex \/ HandleDeletion

Next == EnableWebhooks \/ Create \/ Update \/ Delete \/ Controller

Spec == Init /\ [][Next]_vars

\* A failed reconcile is requeued, so the controller keeps trying.
FairSpec == Spec /\ WF_vars(Controller)

(***************************************************************************)
(* Properties.                                                             *)
(***************************************************************************)
\* While the webhooks were served all along, a deleted MongoDBSearchIndex leaves no index in
\* mongot: the controller drops only the target the last spec names, so the webhook has to
\* keep the target fixed (validateImmutable; mongodbsearchindex_controller.go handleDeletion).
RetargetLeavesNoIndex ==
    ~obj.exists /\ hist.sound /\ irun = {} => indexes = {}

\* An object whose every write passed the webhooks can be deleted: the Update that drops its
\* finalizer passes them too (ValidateUpdate, handleDeletion).
AdmittedDeletionEnds == (obj.deleting /\ obj.sound) ~> ~obj.deleting

\* "ValidateDelete: always allowed": every object that is deleted goes away, one stored
\* before the webhooks were enabled included.
DeletionIsAlwaysAllowed == obj.deleting ~> ~obj.deleting

\* validateMongoDBSpec's message, "even count risks split-brain": a replica set whose every
\* write passed the webhooks declares an odd number of votes, its arbiter included.
VotesAreOdd ==
    kind = "MongoDB" /\ obj.exists /\ obj.sound =>
        (obj.spec.members + Cardinality(obj.spec.arbiter)) % 2 = 1

PSA == [Base["MongoDBSharded"] EXCEPT !.membersPerShard = 2,
                                      !.arbiter = {[enabled |-> TRUE, replicas |-> 1]}]

\* validateShardArbiter's comment: two data members and an arbiter are a valid shard.
PSAIsAdmitted == kind = "MongoDBSharded" => validateSpec(PSA)
=============================================================================
