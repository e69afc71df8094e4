---------------------------- MODULE MCResources ----------------------------
(***************************************************************************)
(* The instance of Resources for TLC, with InsightsAnalyzer as one more    *)
(* part.                                                                   *)
(***************************************************************************)
EXTENDS Resources

VARIABLES profile, sample, minSev, pc, db, docs, recs, plan   \* InsightsAnalyzer

analysisVars == <<profile, sample, minSev, pc, db, docs, recs, plan>>

OneEdit == [edits |-> 1, upsets |-> 2]

Two == {"a", "b"}
TwoOfEach == [regions |-> Two, members |-> Two, shards |-> Two, edits |-> 2, faults |-> 2]

TwoEdits == [edits |-> 2]

\* Profile rows: a fast query, a fast scan, a slow futile scan, and a wide $or.
Row(f, ms, scan, examined, returned, clauses) ==
    [filter |-> f, sort |-> {}, millis |-> ms, collscan |-> scan,
     examined |-> examined, returned |-> returned, clauses |-> clauses]
Slow == Row({"x"}, 2000, FALSE, 2000, 0, 0)
Rows == {Row({"x"}, 60, FALSE, 10, 10, 0), Row({"x"}, 60, TRUE, 10, 10, 0), Slow,
         Row({"$or"}, 600, FALSE, 5000, 40, 5)}
SeqsUpTo(S, n) == UNION {[1 .. m -> S] : m \in 0 .. n}

IA == INSTANCE InsightsAnalyzer WITH
    Kinds <- Rows, Profiles <- {<<p, q>> : p \in SeqsUpTo(Rows, 3), q \in SeqsUpTo({Slow}, 2)},
    SampleSizes <- {1, 4, 7}, MinShare <- 2, Threshold <- 100, HintThreshold <- 500

\* Majors 7 to 9, minors 0 to 4, patches 0 to 9.
AllReleases == {100 * a + 10 * i + p : a \in 7 .. 9, i \in 0 .. 4, p \in 0 .. 9}

NoAnalysis == /\ profile = "none" /\ sample = "none" /\ minSev = "none" /\ pc = "none"
              /\ db = "none" /\ docs = "none" /\ recs = "none" /\ plan = "none"

MCInit ==
    \/ Init /\ NoAnalysis
    \/ /\ part = "IA" /\ IA!Init /\ hist = "none" /\ irun = "none"
       /\ NoBackup /\ NoFleet /\ NoAdmission /\ NoVersion

MCNext ==
    \/ Next /\ UNCHANGED analysisVars
    \/ part = "IA" /\ IA!Next /\ UNCHANGED vars

MCSpec == MCInit /\ [][MCNext]_<<vars, analysisVars>> /\ Fairness

\* InsightsAnalyzer: no database is crowded out of the sample.
NoDatabaseStarved == part = "IA" => IA!NoDatabaseStarved

\* InsightsAnalyzer: exactly the query shapes that are slow on average are reported.
SlowShapesAreReported == part = "IA" => IA!SlowShapesAreReported

\* InsightsAnalyzer: a scan that returned nothing is reported as a missing index.
FutileScansAreReported == part = "IA" => IA!FutileScansAreReported

\* InsightsAnalyzer: indexes are planned only where a query was slow.
PlannedIndexesAreWarranted == part = "IA" => IA!PlannedIndexesAreWarranted

\* InsightsAnalyzer: the analysis of every small profile reports what a direct reading of the
\* profile finds, from every database, and plans no index without a slow query.
RecommendationsAreSound ==
    /\ NoDatabaseStarved /\ SlowShapesAreReported
    /\ FutileScansAreReported /\ PlannedIndexesAreWarranted
=============================================================================
