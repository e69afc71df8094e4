-------------------------- MODULE InsightsAnalyzer --------------------------
(***************************************************************************)
(* One analysis of a MongoDBInsights: the sampling of the profile          *)
(* collections of the user databases, the recommendations derived from the *)
(* sample, and the Auto Pilot plan derived from the recommendations        *)
(* (internal/insights, autopilot_advisory.go).  The controller around it   *)
(* is in Fleet.                                                            *)
(*                                                                         *)
(* A profile row keeps what the analysis reads: its namespace, the keys of *)
(* its filter and sort, its latency, its plan and its counters.  Names,    *)
(* texts and the order of the output are left out.                         *)
(***************************************************************************)
EXTENDS Integers, Sequences, FiniteSets, SequencesExt, FiniteSetsExt

CONSTANTS
    Kinds,          \* what a profile row may be, apart from its database
    Profiles,       \* the profile collections: a sequence of rows per database, newest first
    SampleSizes,    \* Spec.SampleSize
    MinShare,       \* the least rows a database is granted (10 in the code)
    Threshold,      \* Spec.SlowQueryThresholdMs
    HintThreshold   \* Spec.AutoQueryHint.SlowQueryThresholdMs

VARIABLES
    profile,   \* the profile collection of each database, in the order they are listed
    sample,    \* the sample size asked for
    minSev,    \* Spec.AutoIndex.MinSeverity, "" when unset; "off" when AutoIndex is not enabled
    pc, db,    \* the step of the analysis, and the database read next
    docs,      \* what was collected: rows with their database
    recs,      \* the recommendations
    plan       \* the planned actions

vars == <<profile, sample, minSev, pc, db, docs, recs, plan>>

Severities == {"info", "warning", "critical"}

Init ==
    /\ profile \in Profiles /\ sample \in SampleSizes /\ minSev \in Severities \cup {"", "off"}
    /\ pc = "Collect" /\ db = 1
    /\ docs = <<>> /\ recs = {} /\ plan = {}

(***************************************************************************)
(* collectProfileDocs                                                      *)
(***************************************************************************)
AtLeast(n, m) == IF n < m THEN m ELSE n

AtMost(n, m) == IF n > m THEN m ELSE n

\* Mutant: every database may fill the whole sample.
perDBLimit_NotShared == sample

perDBLimit == AtLeast(sample \div Len(profile), MinShare)

Row(d, k) == [db |-> d, k |-> k]

\* The newest rows of one database, within its share and what the sample has left.
collectDB ==
    LET n == AtMost(AtMost(perDBLimit, Len(profile[db])), sample - Len(docs))
    IN  docs \o [i \in 1..n |-> Row(db, profile[db][i])]

\* Find and iterate; a database without a profile collection is skipped (isProfileAbsent),
\* any other error ends the analysis without a result.
collectProfileDocs ==
    /\ pc = "Collect"
    /\ \/ /\ docs' = collectDB
          /\ IF db = Len(profile) \/ Len(docs') >= sample
             THEN pc' = "Analyze" /\ db' = db
             ELSE pc' = pc /\ db' = db + 1
       \/ pc' = "Failed" /\ docs' = <<>> /\ db' = db
    /\ UNCHANGED <<profile, sample, minSev, recs, plan>>

(***************************************************************************)
(* Analyze                                                                 *)
(***************************************************************************)
severityFromLatency(avg) ==
    IF avg >= 1000 THEN "critical" ELSE IF avg >= 500 THEN "warning" ELSE "info"

\* Mutant: a query that returned nothing is not looked at.
looksLikeMissingIndex_NeedsResult(d) ==
    \/ d.k.collscan
    \/ d.k.examined > 1000 /\ d.k.returned > 0 /\ d.k.examined > 100 * d.k.returned

looksLikeMissingIndex(d) ==
    \/ d.k.collscan
    \/ d.k.examined > 1000 /\ d.k.examined > 100 * AtLeast(d.k.returned, 1)

\* A bucket per key, fed in the order of the sample.
Bucketed(groups, key, d) ==
    [x \in DOMAIN groups \cup {key} |->
        IF x # key THEN groups[x]
        ELSE IF key \in DOMAIN groups
        THEN [count |-> groups[key].count + 1, total |-> groups[key].total + d.k.millis]
        ELSE [count |-> 1, total |-> d.k.millis]]

NoGroups == [x \in {} |-> [count |-> 0, total |-> 0]]

avgOf(b) == b.total \div b.count

Recommendation(type, key, sev, avg) == [type |-> type, key |-> key, severity |-> sev, avg |-> avg]

detectMissingIndexes(ds) ==
    LET groups == FoldLeft(LAMBDA g, d :
                              IF looksLikeMissingIndex(d)
                              THEN Bucketed(g, <<d.db, d.k.filter, d.k.sort>>, d) ELSE g,
                           NoGroups, ds)
    IN  {Recommendation("MissingIndex", k, severityFromLatency(avgOf(groups[k])), avgOf(groups[k])) :
            k \in DOMAIN groups}

\* Mutant: rows below the threshold are dropped before they are grouped.
detectSlowQueryPatterns_FilterFirst(ds) ==
    LET groups == FoldLeft(LAMBDA g, d :
                              IF d.k.millis >= Threshold
                              THEN Bucketed(g, <<d.db, d.k.filter>>, d) ELSE g,
                           NoGroups, ds)
    IN  {Recommendation("SlowQueryPattern", k, severityFromLatency(avgOf(groups[k])), avgOf(groups[k])) :
            k \in {x \in DOMAIN groups : groups[x].count >= 3 /\ avgOf(groups[x]) >= Threshold}}

detectSlowQueryPatterns(ds) ==
    LET groups == FoldLeft(LAMBDA g, d : Bucketed(g, <<d.db, d.k.filter>>, d), NoGroups, ds)
    IN  {Recommendation("SlowQueryPattern", k, severityFromLatency(avgOf(groups[k])), avgOf(groups[k])) :
            k \in {x \in DOMAIN groups : groups[x].count >= 3 /\ avgOf(groups[x]) >= Threshold}}

detectSchemaHints(ds) ==
    {Recommendation("SchemaHint", <<ds[i].db>>, "info", 0) :
        i \in {j \in DOMAIN ds : ds[j].k.clauses >= 5}}

Analyze ==
    /\ pc = "Analyze" /\ pc' = "Plan"
    /\ recs' = detectMissingIndexes(docs) \cup detectSlowQueryPatterns(docs) \cup detectSchemaHints(docs)
    /\ UNCHANGED <<profile, sample, minSev, db, docs, plan>>

(***************************************************************************)
(* buildAutoPilotActions                                                   *)
(***************************************************************************)
rank == [info |-> 0, warning |-> 1, critical |-> 2]

\* Mutant: the order of the severities is inverted.
meetsSeverity_Inverted(got, min) == rank[got] <= rank[min]

meetsSeverity(got, min) == rank[got] >= rank[min]

PlanMissingIndexActions ==
    LET min == IF minSev = "" THEN "warning" ELSE minSev
    IN  {r \in recs : minSev # "off" /\ r.type = "MissingIndex" /\ meetsSeverity(r.severity, min)}

PlanSlowQueryHints(enabled) ==
    {r \in recs : enabled /\ r.type = "SlowQueryPattern" /\ r.avg >= HintThreshold}

\* Spec.AutoQueryHint is enabled or not.
buildAutoPilotActions ==
    /\ pc = "Plan" /\ pc' = "Done"
    /\ \E enabled \in BOOLEAN : plan' = PlanMissingIndexActions \cup PlanSlowQueryHints(enabled)
    /\ UNCHANGED <<profile, sample, minSev, db, docs, recs>>

Next == collectProfileDocs \/ Analyze \/ buildAutoPilotActions

Spec == Init /\ [][Next]_vars

(***************************************************************************)
(* Properties.                                                             *)
(***************************************************************************)
\* A busy database does not crowd the others out of the sample: when the sample has room for
\* the least share of every database, each contributes at least that share of its newest
\* rows, or all it has (the per-database limit of collectProfileDocs).
NoDatabaseStarved ==
    pc \in {"Analyze", "Plan", "Done"} /\ sample >= MinShare * Len(profile) =>
        \A d \in DOMAIN profile :
            Cardinality({i \in DOMAIN docs : docs[i].db = d}) >= AtMost(MinShare, Len(profile[d]))

Latency(S) == MapThenSumSet(LAMBDA i : docs[i].k.millis, S)

\* A query shape is reported as slow exactly when the sample holds three or more rows of it
\* and they are slow on average, fast rows of the shape counted, in whatever order the
\* databases returned them (detectSlowQueryPatterns).
SlowShapesAreReported ==
    pc \in {"Plan", "Done"} =>
        \A d \in DOMAIN profile : \A f \in {k.filter : k \in Kinds} :
            LET S == {i \in DOMAIN docs : docs[i].db = d /\ docs[i].k.filter = f}
            IN  (\E r \in recs : r.type = "SlowQueryPattern" /\ r.key = <<d, f>>)
                <=> Cardinality(S) >= 3 /\ Latency(S) >= Threshold * Cardinality(S)

\* Every row that scanned more than a thousand documents to return none has its shape among
\* the missing indexes (looksLikeMissingIndex, detectMissingIndexes).
FutileScansAreReported ==
    pc \in {"Plan", "Done"} =>
        \A i \in DOMAIN docs :
            docs[i].k.examined > 1000 /\ docs[i].k.returned = 0 =>
                \E r \in recs : r.type = "MissingIndex"
                                /\ r.key = <<docs[i].db, docs[i].k.filter, docs[i].k.sort>>

\* Unless MinSeverity asks for "info", an index is planned only where some sampled query of
\* that shape took at least half a second, however many fast ones surround it
\* (severityFromLatency, meetsSeverity, PlanMissingIndexActions).
PlannedIndexesAreWarranted ==
    minSev # "info" =>
        \A a \in plan : a.type = "MissingIndex" =>
            \E i \in DOMAIN docs : docs[i].db = a.key[1] /\ docs[i].k.filter = a.key[2]
                                   /\ docs[i].k.millis >= 500
=============================================================================
