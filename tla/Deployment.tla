----------------------------- MODULE Deployment -----------------------------
(***************************************************************************)
(* The CronJobs as they are deployed: each tick is a pod whose             *)
(* initContainer runs `lake migrate` and whose job starts only when that   *)
(* has succeeded.  Composes Migrate with the jobs that write and collect   *)
(* blobs (Retention); a pod is in the one or in the other.                 *)
(***************************************************************************)
EXTENDS Migrate, FiniteSets

CONSTANTS
  Fetchers, Collectors, Blobs, Prefixes, NoBlob, Limit

VARIABLES strict, stored, index, job, jobFaults

R == INSTANCE Retention WITH faults <- jobFaults

ASSUME DeploymentAssumption == R!Parameters /\ Pods = Fetchers \cup Collectors

jobVars == <<strict, stored, index, job, jobFaults>>
allVars == <<vars, jobVars>>

DeploymentInit == Init /\ R!Init

\* Mutant of Launch: the job does not wait for the initContainer.
LaunchAnyway(p) ==
  /\ pod[p].pc \in {"unlock", "done"}
  /\ R!Start(p)
  /\ pod' = [pod EXCEPT ![p].pc = "done"]
  /\ UNCHANGED <<release, schema, lock, deploys, faults>>

\* The initContainer has exited 0.
Launch(p) ==
  /\ pod[p].pc = "done"
  /\ R!Start(p)
  /\ UNCHANGED vars

\* A step of the job; with its last one the pod is over.
Work(p) ==
  /\ R!Writing(p) \/ R!Collecting(p)
  /\ IF job'[p].pc = "off" THEN Finish(p) ELSE UNCHANGED vars

\* A kill finds the pod in its initContainer or in its job.
Kill(p) == IF job[p].pc = "off" THEN Crash(p) /\ UNCHANGED jobVars
                                ELSE R!Crash(p) /\ Finish(p)

DeploymentStep ==
  \/ \E p \in Pods : \/ Migrating(p) /\ UNCHANGED jobVars
                     \/ Launch(p) \/ Work(p) \/ Kill(p)
  \/ \E r \in Releases : Deploy(r) /\ UNCHANGED jobVars
  \/ \E b \in Blobs : R!Expire(b) /\ UNCHANGED vars

\* MaxFaults bounds what goes wrong in both parts together.
DeploymentNext == DeploymentStep /\ faults' + jobFaults' <= MaxFaults

DeploymentSpec == DeploymentInit /\ [][DeploymentNext]_allVars

\* gc's CronJob ticks and live pods execute; Postgres ends dead sessions and
\* grants a lock in the order of the queue for it, so a pod that waits gets its
\* turn.  Nothing is asked of the other CronJobs' ticks.
FairSpec ==
  /\ DeploymentSpec
  /\ \A p \in Pods : /\ WF_allVars(Holding(p) /\ UNCHANGED jobVars)
                     /\ WF_allVars(Reap(p) /\ UNCHANGED jobVars)
  /\ \A p \in Collectors : /\ SF_allVars(Begin(p, FALSE) /\ UNCHANGED jobVars)
                           /\ SF_allVars(Acquire(p) /\ UNCHANGED jobVars)
                           /\ WF_allVars(Launch(p) \/ Work(p))

----------------------------------------------------------------------------
\* Properties; those of the parts that hold of the whole keep their names.

\* The types of both parts, and a pod works only once it has migrated.
DeploymentTypeOK ==
  /\ TypeOK /\ R!TypeOK
  /\ \A p \in Pods : job[p].pc # "off" => pod[p].pc = "done"

\* "Manifests that assume a schema nobody creates": while a job runs, every
\* migration of its release is in the schema as that release has it, whatever
\* was rolled out or back, killed or applied by other pods since.
JobHasItsSchema ==
  \A p \in Pods : job[p].pc # "off" =>
    \A f \in DOMAIN Ships[pod[p].release] : recorded[f] = Ships[pod[p].release][f]

\* What a put trusts when it skips the upload: see Retention.
IndexResolves == R!IndexResolves

\* Only what has expired leaves the bucket: see Retention.
OnlyExpiredGo == R!OnlyExpiredGo

\* "Prefixes age out": an expired row is collected in the end, whoever dies in
\* between, unless the release in place cannot start or, on a store whose delete
\* is not idempotent, gc is stuck on a row whose object is gone.  gc takes any
\* rows up to its limit and not the oldest, so this is no promise to a row while
\* there are more: one may be passed over for ever as others come and go.
PrefixesAgeOut ==
  \A b \in Prefixes :
    [](index[b] = "expired" =>
         <>(index[b] # "expired" \/ R!Stuck \/ Diverged \/ Cardinality(R!Expired) > Limit))
=============================================================================
