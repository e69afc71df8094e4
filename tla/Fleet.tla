-------------------------------- MODULE Fleet --------------------------------
(***************************************************************************)
(* The three controllers that only watch and report: MongoDBFederation     *)
(* probes the regions of its spec, MongoDBClusterGroup lists its members,  *)
(* MongoDBInsights analyses the profile data of a cluster's shards.  Each  *)
(* works on a copy of its object and writes the status back with the       *)
(* version it read: an edit in between (the copy is no longer fresh) makes *)
(* the write fail.  They share nothing, so a behaviour follows one of them.*)
(*                                                                         *)
(* Work arrives through a queue: `event' is an entry for the object, put   *)
(* there by an edit, by the controller's own status write (none of them    *)
(* filters those out) or by a requeue; `timer' is a RequeueAfter.          *)
(***************************************************************************)
EXTENDS Integers, FiniteSets

CONSTANTS
    Regions,    \* the regions a federation may list
    Members,    \* the members a cluster group may list
    Shards,     \* the shards of the analysed cluster (one for a replica set)
    MaxEdits,   \* bound: edits of the three objects
    MaxFaults   \* bound: failed calls and outages

VARIABLES
    fed,     \* the federation: regions of the spec, status of each listed region, phase
    frun,    \* its reconcile: step, copy, regions still to probe, what the probes found
    up,      \* the regions that can be reached
    grp,     \* the group: members, listed members, phase
    grun,    \* its reconcile: step, copy
    ins,     \* the insights: enabled, phase, the data its recommendations come from
    irun,    \* its reconcile: step, copy, the data fetched
    data,    \* the generation of the profile data
    queue,   \* event and timer of each controller
    hist     \* bounded counters, lost writes

vars == <<fed, frun, up, grp, grun, ins, irun, data, queue, hist>>
fedVars == <<fed, frun, up>>
grpVars == <<grp, grun>>
insVars == <<ins, irun, data>>

Controllers == {"fed", "grp", "ins"}
None == [r \in {} |-> ""]
Nothing == [from |-> 0, shards |-> {}]

\* A starting process gets an event for every object; here, for the one followed.
Listed == [c \in Controllers |-> [event |-> c = hist.followed, timer |-> FALSE]]

Init ==
    /\ fed = [regions |-> Regions, status |-> None, phase |-> ""]
    /\ grp = [members |-> Members, listed |-> {}, phase |-> ""]
    /\ ins = [enabled |-> TRUE, phase |-> "", recs |-> Nothing]
    /\ frun = [pc |-> "Idle", fresh |-> FALSE, copy |-> fed, todo |-> {}]
    /\ grun = [pc |-> "Idle", fresh |-> FALSE, copy |-> grp]
    /\ irun = [pc |-> "Idle", fresh |-> FALSE, copy |-> ins, got |-> Nothing]
    /\ up = Regions
    /\ data = 1
    /\ hist \in [edits : {0}, faults : {0}, lost : {FALSE}, followed : Controllers]
    /\ queue = Listed

Faulty ==
    /\ hist.faults < MaxFaults
    /\ hist' = [hist EXCEPT !.faults = @ + 1]

Take(c) == queue[c].event /\ queue' = [queue EXCEPT ![c].event = FALSE]
Enqueue(c) == queue' = [queue EXCEPT ![c].event = TRUE]

\* A RequeueAfter comes due.
Timer(c) ==
    /\ queue[c].timer /\ ~queue[c].event
    /\ queue' = [queue EXCEPT ![c] = [event |-> TRUE, timer |-> FALSE]]
    /\ UNCHANGED <<fedVars, grpVars, insVars, hist>>

-----------------------------------------------------------------------------
(* MongoDBFederationReconciler *)

withRegions_OnlyFirst(f) ==
    IF DOMAIN f.status = {} THEN [r \in f.regions |-> "Pending"] ELSE f.status

\* A region not listed yet is appended as Pending; one no longer in the spec stays.
withRegions(f) ==
    [r \in DOMAIN f.status \cup f.regions |->
        IF r \in DOMAIN f.status THEN f.status[r] ELSE "Pending"]

FedStart ==
    /\ frun.pc = "Idle" /\ Take("fed")
    /\ frun' = [pc |-> "Probe", fresh |-> TRUE, todo |-> fed.regions,
                copy |-> [fed EXCEPT !.status = withRegions(fed)]]
    /\ UNCHANGED <<fed, up, grpVars, insVars, hist>>

\* The kubeconfig is loaded and the remote nodes are listed.
propagateRegionMongoDB(r) ==
    /\ frun.pc = "Probe" /\ r \in frun.todo
    /\ frun' = [frun EXCEPT !.todo = @ \ {r},
                            !.copy.status[r] = IF r \in up THEN "Synced" ELSE "Failed"]
    /\ UNCHANGED <<fed, up, grpVars, insVars, queue, hist>>

computeFederationPhase(status) ==
    CASE DOMAIN status = {} -> "Bootstrapping"
      [] \E r \in DOMAIN status : status[r] = "Failed" -> "Degraded"
      [] DOMAIN status # {} /\ \A r \in DOMAIN status : status[r] = "Synced" -> "Synced"
      [] OTHER -> "Bootstrapping"

FedWrite_LastWins ==
    /\ frun.pc = "Probe" /\ frun.todo = {}
    /\ fed' = [fed EXCEPT !.status = frun.copy.status,
                          !.phase = computeFederationPhase(frun.copy.status)]
    /\ Enqueue("fed")
    /\ frun' = [frun EXCEPT !.pc = "Idle"]
    /\ UNCHANGED <<up, grpVars, insVars, hist>>

\* Times have whole seconds: a write that repeats the status within one second changes
\* nothing and raises no event.  A failed write is returned, and so retried.
FedWrite ==
    /\ frun.pc = "Probe" /\ frun.todo = {}
    /\ LET status == frun.copy.status
           same == fed.status = status /\ fed.phase = computeFederationPhase(status)
       IN IF ~frun.fresh
          THEN fed' = fed /\ Enqueue("fed") /\ hist' = hist
          ELSE \/ /\ same /\ UNCHANGED <<fed, queue, hist>>
               \/ /\ fed' = [fed EXCEPT !.status = status,
                                        !.phase = computeFederationPhase(status)]
                  /\ Enqueue("fed") /\ hist' = hist
               \/ fed' = fed /\ Enqueue("fed") /\ Faulty
    /\ frun' = [frun EXCEPT !.pc = "Idle"]
    /\ UNCHANGED <<up, grpVars, insVars>>

-----------------------------------------------------------------------------
(* MongoDBClusterGroupReconciler *)

GrpStart ==
    /\ grun.pc = "Idle" /\ Take("grp")
    /\ grun' = [pc |-> "Write", fresh |-> TRUE, copy |-> grp]
    /\ UNCHANGED <<fedVars, grp, insVars, hist>>

\* Members are listed as Pending and nothing makes them Synced or Failed.
computeClusterGroupPhase(listed) == IF listed = {} THEN "Pending" ELSE "Reconciling"

listedAfter_OnlyFirst(g) == IF g.listed = {} THEN g.members ELSE g.listed
listedAfter(g) == g.listed \cup g.members

\* The phase comes from the members listed before.  A failed write is logged and forgotten.
GrpWrite ==
    /\ grun.pc = "Write"
    /\ LET new == [grp EXCEPT !.phase = computeClusterGroupPhase(grun.copy.listed),
                              !.listed = listedAfter(grun.copy)]
       IN \/ /\ grun.fresh /\ new # grp
             /\ grp' = new /\ Enqueue("grp") /\ hist' = hist
          \/ /\ grun.fresh => new = grp
             /\ UNCHANGED <<grp, queue, hist>>
          \/ /\ hist.faults < MaxFaults
             /\ hist' = [hist EXCEPT !.faults = @ + 1, !.lost = TRUE]
             /\ UNCHANGED <<grp, queue>>
    /\ grun' = [grun EXCEPT !.pc = "Idle"]
    /\ UNCHANGED <<fedVars, insVars>>

-----------------------------------------------------------------------------
(* MongoDBInsightsReconciler *)

InsStart ==
    /\ irun.pc = "Idle" /\ Take("ins")
    /\ irun' = [pc |-> CASE ~ins.enabled -> "Idle"
                         [] ins.enabled /\ ins.phase = "Analyzing" -> "Fetch"
                         [] ins.enabled /\ ins.phase # "Analyzing" -> "Reenter",
                fresh |-> TRUE, copy |-> ins, got |-> Nothing]
    /\ UNCHANGED <<fedVars, grpVars, ins, data, hist>>

\* Status().Update: with the version read, and a failure is only logged.
WriteIns(new, requeue) ==
    /\ irun' = [irun EXCEPT !.pc = "Idle"]
    /\ \/ /\ irun.fresh
          /\ ins' = new
          /\ hist' = hist
          /\ queue' = [queue EXCEPT !["ins"].event = TRUE, !["ins"].timer = @ \/ requeue]
       \/ /\ IF irun.fresh THEN Faulty ELSE hist' = hist
          /\ ins' = ins
          /\ queue' = [queue EXCEPT !["ins"].event = @ \/ ~requeue,
                                    !["ins"].timer = @ \/ requeue]
    /\ UNCHANGED <<fedVars, grpVars, data>>

Reenter_WhenFailed ==
    /\ irun.pc = "Reenter"
    /\ IF irun.copy.phase = "Ready"
       THEN irun' = [irun EXCEPT !.pc = "Idle"]
            /\ UNCHANGED <<fedVars, grpVars, ins, data, queue, hist>>
       ELSE WriteIns([ins EXCEPT !.phase = "Analyzing"], FALSE)

\* A new object starts, and one that is Ready or Failed starts again.
Reenter ==
    /\ irun.pc = "Reenter"
    /\ WriteIns([ins EXCEPT !.phase = "Analyzing"], FALSE)

\* Every shard is connected to in turn; what the others gave is kept over a failure.
FetchShardedProfiles ==
    /\ irun.pc = "Fetch"
    /\ \E shards \in SUBSET Shards :
         /\ shards # Shards => hist.faults < MaxFaults
         /\ hist' = [hist EXCEPT !.faults = IF shards = Shards THEN @ ELSE @ + 1]
         /\ irun' = [irun EXCEPT !.pc = "Analyze", !.got = [from |-> data, shards |-> shards]]
    /\ UNCHANGED <<fedVars, grpVars, ins, data, queue>>

fetchFailed_OnlyAll(got) == got.shards = {}
\* All failed and some failed are both errors.
fetchFailed(got) == got.shards # Shards

\* A failed fetch keeps the old recommendations and retries; a good one replaces them.
runAnalysis ==
    /\ irun.pc = "Analyze"
    /\ IF fetchFailed(irun.got)
       THEN WriteIns([ins EXCEPT !.phase = "Failed"], TRUE)
       ELSE WriteIns([ins EXCEPT !.phase = "Ready", !.recs = irun.got], TRUE)

-----------------------------------------------------------------------------
(* Users and the world *)

EditFederation ==
    /\ \E R \in (SUBSET Regions) \ {{}, fed.regions} : fed' = [fed EXCEPT !.regions = R]
    /\ frun' = [frun EXCEPT !.fresh = FALSE]
    /\ UNCHANGED <<up, grpVars, insVars>>

EditGroup ==
    /\ \E M \in (SUBSET Members) \ {{}, grp.members} : grp' = [grp EXCEPT !.members = M]
    /\ grun' = [grun EXCEPT !.fresh = FALSE]
    /\ UNCHANGED <<fedVars, insVars>>

EditInsights ==
    /\ ins' = [ins EXCEPT !.enabled = ~@]
    /\ irun' = [irun EXCEPT !.fresh = FALSE]
    /\ UNCHANGED <<fedVars, grpVars, data>>

Edit ==
    /\ hist.edits < MaxEdits
    /\ hist' = [hist EXCEPT !.edits = @ + 1]
    /\ Enqueue(hist.followed)
    /\ \/ hist.followed = "fed" /\ EditFederation
       \/ hist.followed = "grp" /\ EditGroup
       \/ hist.followed = "ins" /\ EditInsights

Outage ==
    /\ Faulty /\ hist.followed = "fed"
    /\ \E r \in up : up' = up \ {r}
    /\ UNCHANGED <<fed, frun, grpVars, insVars, queue>>

RegionReturns ==
    /\ up # Regions
    /\ up' = Regions
    /\ UNCHANGED <<fed, frun, grpVars, insVars, queue, hist>>

NewData ==
    /\ hist.edits < MaxEdits /\ hist.followed = "ins"
    /\ hist' = [hist EXCEPT !.edits = @ + 1]
    /\ data' = data + 1
    /\ UNCHANGED <<fedVars, grpVars, ins, irun, queue>>

\* A restart: every object is listed again and gets an event.
Restart ==
    /\ Faulty
    /\ frun' = [frun EXCEPT !.pc = "Idle"]
    /\ grun' = [grun EXCEPT !.pc = "Idle"]
    /\ irun' = [irun EXCEPT !.pc = "Idle"]
    /\ queue' = Listed
    /\ UNCHANGED <<fed, up, grp, ins, data>>

ReconcileFed == FedStart \/ FedWrite \/ \E r \in Regions : propagateRegionMongoDB(r)
ReconcileGrp == GrpStart \/ GrpWrite
ReconcileIns == InsStart \/ Reenter \/ FetchShardedProfiles \/ runAnalysis

Next ==
    \/ ReconcileFed \/ ReconcileGrp \/ ReconcileIns
    \/ \E c \in Controllers : Timer(c)
    \/ Edit \/ Outage \/ RegionReturns \/ NewData \/ Restart

Spec == Init /\ [][Next]_vars

FairSpec ==
    /\ Spec
    /\ WF_vars(ReconcileFed) /\ WF_vars(ReconcileGrp) /\ WF_vars(ReconcileIns)
    /\ WF_vars(Timer("ins")) /\ WF_vars(RegionReturns)

-----------------------------------------------------------------------------

ProbedStep ==
    fed'.phase = "Synced" /\ fed' # fed /\ fed'.regions = fed.regions
      => \A r \in fed.regions : r \in DOMAIN fed'.status /\ fed'.status[r] = "Synced"

\* Synced is written only of a spec whose every region answered in this pass: a region added
\* while the others were being probed makes the status write fail and the pass run again.
SyncedMeansProbed == [][ProbedStep]_vars

\* Every region of the spec gets listed, after edits, failed writes and restarts.
RegionsGetListed ==
    hist.followed = "fed" ~> fed.regions \subseteq DOMAIN fed.status

\* Every member of a group gets listed.  A write that fails for another reason than an edit is
\* not retried, which is outside what this says.
MembersGetListed ==
    hist.followed = "grp" ~> (hist.lost \/ grp.members \subseteq grp.listed)

\* Recommendations are never computed from some of the shards: FetchShardedProfiles returns an
\* error with the partial result and runAnalysis publishes nothing, where the comment of the
\* former calls the failure of one shard not fatal (PartialFailureIsNotFatal).
RecommendationsAreComplete ==
    ins.recs.shards \in {{}, Shards}

\* New profile data reaches the recommendations, whatever fails or conflicts on the way: no
\* state of the phase machine is left without an event or a timer.
InsightsFollowData ==
    (hist.followed = "ins" /\ ins.enabled)
      ~> (~ins.enabled \/ (ins.phase = "Ready" /\ ins.recs.from = data))

PartialFailureStep == irun.pc = "Analyze" /\ irun.got.shards # {} => ins'.phase # "Failed"

\* FetchShardedProfiles' comment: one shard's failure is not fatal, the others are kept.
PartialFailureIsNotFatal == [][PartialFailureStep]_vars

IntervalStep == ins.phase = "Ready" /\ ins'.phase = "Analyzing" => ~queue["ins"].timer

\* A finished analysis is followed by the next one only when its interval has passed.
IntervalIsKept == [][IntervalStep]_vars

=============================================================================
