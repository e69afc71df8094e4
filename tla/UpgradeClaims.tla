--------------------------- MODULE UpgradeClaims ---------------------------
(***************************************************************************)
(* What comments and API documentation say of the upgrade that the code,   *)
(* as modelled by MongoDBReconciler, does not always do.  For each there   *)
(* is a claim_* configuration that shows a counterexample.  (Others of     *)
(* these configurations check a property of MongoDBReconciler without the  *)
(* assumptions of the run it holds in.)                                    *)
(***************************************************************************)
EXTENDS MongoDBReconciler

\* Doc of PreviousVersion, api/v1alpha1/mongodb_types.go: "the version before an
\* in-progress upgrade (rollback target)".  An upgrade that starts records the version
\* the StatefulSet deploys.
RollbackTargetWasDeployed ==
    [][obj.st.up = "None" /\ obj'.st.up # "None" => obj'.st.prev = sts.template]_vars

\* Doc of EffectiveVersion, api/v1alpha1/mongodb_types.go: ordinarily equal to
\* spec.version.  With no upgrade going on and no rollback in effect, what is deployed is
\* what the user asks for.
EffectiveFollowsSpec ==
    Settled /\ ~obj.st.rb => obj.st.eff = obj.spec.version

\* Comment of upgradeValidationFailed, internal/controller/upgrade.go: FCV is not
\* committed before validation passes, so that rolling back the binary is safe.
RollbackIsSafe ==
    obj.st.up = "RollingBack" => BinaryRunsAtFCV(obj.st.prev, mongo.fcv)
=============================================================================
