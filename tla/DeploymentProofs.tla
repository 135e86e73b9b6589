-------------------------- MODULE DeploymentProofs --------------------------
(***************************************************************************)
(* Proofs about the deployment as a whole: it implements both parts, so    *)
(* what holds of each holds of it, and a job finds the schema its release  *)
(* ships.                                                                  *)
(***************************************************************************)
EXTENDS Deployment, MigrateProofs

RP == INSTANCE RetentionProofs WITH faults <- jobFaults

----------------------------------------------------------------------------
\* Each step of the whole is one of Migrate, or leaves it alone.
LEMMA MigrateStep == [DeploymentNext]_allVars => [Next]_vars
<1>1. \A p \in Pods : Work(p) => Finish(p) \/ UNCHANGED vars
  BY DEF Work
<1>2. \A p \in Pods : Kill(p) => Crash(p) \/ Finish(p)
  BY DEF Kill
<1> QED BY <1>1, <1>2 DEF DeploymentNext, DeploymentStep, Next, Launch, allVars

\* The deployment implements Migrate: jobs that follow change nothing of it.
THEOREM ImplementsMigrate == DeploymentSpec => Spec
BY MigrateStep, PTL DEF DeploymentSpec, DeploymentInit, Spec

\* Each step of the whole is one of Retention, or leaves it alone.
LEMMA RetentionStep ==
  DeploymentAssumption /\ [DeploymentNext]_allVars => [R!Next]_(R!vars)
<1> SUFFICES ASSUME DeploymentAssumption, [DeploymentNext]_allVars PROVE [R!Next]_(R!vars)
  OBVIOUS
<1>1. Pods = Fetchers \cup Collectors
  BY DEF DeploymentAssumption
<1>2. UNCHANGED jobVars => UNCHANGED R!vars
  BY DEF jobVars, R!vars
<1>3. ASSUME NEW p \in Pods, Launch(p) \/ Work(p) PROVE R!Next
  BY <1>1, <1>3 DEF Launch, Work, R!Next
<1>4. ASSUME NEW p \in Pods, Kill(p) PROVE [R!Next]_(R!vars)
  BY <1>1, <1>2, <1>4 DEF Kill, R!Next
<1>5. ASSUME NEW b \in Blobs, R!Expire(b) PROVE R!Next
  BY <1>5 DEF R!Next
<1>6. CASE UNCHANGED allVars
  BY <1>2, <1>6 DEF allVars
<1> QED BY <1>2, <1>3, <1>4, <1>5, <1>6 DEF DeploymentNext, DeploymentStep

\* The deployment implements Retention: a gated job is one that starts later.
THEOREM ImplementsRetention == DeploymentSpec => R!Spec
BY DeploymentAssumption, RetentionStep, PTL DEF DeploymentSpec, DeploymentInit, R!Spec
----------------------------------------------------------------------------
\* A pod works only when it has migrated, and is not replaced while it works.
Gated == /\ job = [p \in Pods |-> job[p]]
         /\ \A p \in Pods : job[p].pc # "off" => pod[p].pc = "done"

\* A step of a job is one of that job alone.
LEMMA JobValue ==
  ASSUME Gated, NEW p \in Pods, R!Start(p) \/ R!Writing(p) \/ R!Collecting(p) \/ R!Crash(p)
  PROVE  /\ job' = [q \in Pods |-> job'[q]]
         /\ \A q \in Pods \ {p} : job'[q] = job[q]
<1>1. \A j : R!Becomes(p, j) =>
        job' = [q \in Pods |-> job'[q]] /\ \A q \in Pods \ {p} : job'[q] = job[q]
  BY DEF R!Becomes, Gated
<1>2. \E j : R!Becomes(p, j)
  BY DEF R!Start, R!Crash, R!Goto, R!Writing, R!BlobExists, R!StorePut, R!RecordBlob,
         R!PutFails, R!Finish, R!Collecting, R!List, R!Delete, R!DeleteFails, R!Forget
<1> QED BY <1>1, <1>2

LEMMA InitGated == DeploymentAssumption /\ DeploymentInit => Gated
BY DEF DeploymentAssumption, DeploymentInit, R!Init, Gated, R!Off

LEMMA NextGated == TypeOK /\ Gated /\ [DeploymentNext]_allVars => Gated'
<1> SUFFICES ASSUME TypeOK, Gated, [DeploymentNext]_allVars PROVE Gated'
  OBVIOUS
<1>1. ASSUME NEW p \in Pods, Migrating(p), UNCHANGED jobVars PROVE Gated'
  <2>1. \A q \in Pods : pod[q].pc = "done" => pod'[q].pc = "done"
    BY <1>1, BecomesValue
    DEF Migrating, Holding, Begin, Acquire, Bootstrap, Create, Pending, Apply, Unlock,
        StatementFails, Reap, Goto, Raise
  <2> QED BY <1>1, <2>1 DEF Gated, jobVars
<1>2. ASSUME NEW p \in Pods, Launch(p) PROVE Gated'
  BY <1>2, JobValue DEF Launch, Gated, vars
<1>3. ASSUME NEW p \in Pods, Finish(p) PROVE \A q \in Pods \ {p} : pod'[q] = pod[q]
  BY <1>3, BecomesValue DEF Finish
<1>4. ASSUME NEW p \in Pods, Crash(p) PROVE \A q \in Pods \ {p} : pod'[q] = pod[q]
  BY <1>4, BecomesValue DEF Crash
<1>5. ASSUME NEW p \in Pods, Work(p) PROVE Gated'
  <2>1. CASE job'[p].pc = "off" /\ Finish(p)
    BY <1>3, <1>5, <2>1, JobValue DEF Work, Gated
  <2>2. CASE job'[p].pc # "off" /\ UNCHANGED vars
    <3>1. job[p].pc # "off"
      BY <1>5
      DEF Work, R!Writing, R!BlobExists, R!StorePut, R!RecordBlob, R!PutFails, R!Finish,
          R!Collecting, R!List, R!Delete, R!DeleteFails, R!Forget
    <3> QED BY <1>5, <2>2, <3>1, JobValue DEF Work, Gated, vars
  <2> QED BY <1>5, <2>1, <2>2 DEF Work
<1>6. ASSUME NEW p \in Pods, Kill(p) PROVE Gated'
  <2>1. CASE job[p].pc = "off" /\ Crash(p) /\ UNCHANGED jobVars
    BY <1>4, <2>1 DEF Gated, jobVars
  <2>2. CASE R!Crash(p) /\ Finish(p)
    <3>1. job'[p] = R!Off /\ R!Off.pc = "off"
      BY <2>2 DEF R!Crash, R!Becomes, Gated, R!Off
    <3> QED BY <1>3, <2>2, <3>1, JobValue DEF Gated
  <2> QED BY <1>6, <2>1, <2>2 DEF Kill
<1>7. CASE UNCHANGED <<pod, job>>
  BY <1>7 DEF Gated
<1>8. (\E r \in Releases : Deploy(r) /\ UNCHANGED jobVars) \/ UNCHANGED allVars
        => UNCHANGED <<pod, job>>
  BY DEF Deploy, allVars, vars, jobVars
<1>9. ASSUME NEW b \in Blobs, R!Expire(b), UNCHANGED vars PROVE UNCHANGED <<pod, job>>
  BY <1>9 DEF R!Expire, vars
<1> QED BY <1>1, <1>2, <1>5, <1>6, <1>7, <1>8, <1>9 DEF DeploymentNext, DeploymentStep

\* While a job runs, every migration of its release is in the schema as that
\* release has it, whatever was rolled out, killed or applied since.
THEOREM JobsHaveTheirSchema == DeploymentSpec => []JobHasItsSchema
<1>1. DeploymentInit => MigrateInv /\ Gated
  BY ReleasesAssumption, DeploymentAssumption, InitMigrate, InitGated DEF DeploymentInit
<1>2. MigrateInv /\ Gated /\ [DeploymentNext]_allVars => (MigrateInv /\ Gated)'
  BY ReleasesAssumption, MigrateStep, NextMigrate, NextGated DEF MigrateInv
<1>3. MigrateInv /\ Gated => JobHasItsSchema
  BY DEF MigrateInv, Progress, Steady, Served, Gated, JobHasItsSchema
<1> QED BY <1>1, <1>2, <1>3, PTL DEF DeploymentSpec

----------------------------------------------------------------------------
\* What Retention promises of one gc at a time.

\* RetentionProofs' copy of Retention is the one Deployment composes.
LEMMA SameRetention ==
  /\ R!Init => RP!Init
  /\ [R!Next]_(R!vars) => [RP!Next]_(RP!vars)
  /\ R!Parameters => RP!Parameters
  /\ RP!IndexResolves => IndexResolves
<1>1. R!Init => RP!Init
  BY DEF R!Init, RP!Init, R!Off, RP!Off
<1>2. R!Parameters => RP!Parameters
  BY DEF R!Parameters, RP!Parameters
<1>3. RP!IndexResolves => IndexResolves
  BY DEF IndexResolves, R!IndexResolves, RP!IndexResolves
<1>4. ASSUME NEW p, NEW b PROVE R!BlobExists(p, b) <=> RP!BlobExists(p, b)
  BY DEF R!BlobExists, RP!BlobExists, R!Becomes, RP!Becomes
<1>5. ASSUME NEW p PROVE R!Start(p) <=> RP!Start(p)
  BY DEF R!Start, RP!Start, R!Goto, RP!Goto, R!Becomes, RP!Becomes
<1>6. ASSUME NEW p PROVE R!StorePut(p) <=> RP!StorePut(p)
  BY DEF R!StorePut, RP!StorePut, R!Goto, RP!Goto, R!Becomes, RP!Becomes
<1>7. ASSUME NEW p PROVE R!RecordBlob(p) <=> RP!RecordBlob(p)
  BY DEF R!RecordBlob, RP!RecordBlob, R!Row, RP!Row, R!Becomes, RP!Becomes
<1>8. ASSUME NEW p PROVE R!PutFails(p) <=> RP!PutFails(p)
  BY DEF R!PutFails, RP!PutFails, R!Fault, RP!Fault, R!Becomes, RP!Becomes
<1>9. ASSUME NEW p PROVE R!Finish(p) <=> RP!Finish(p)
  BY DEF R!Finish, RP!Finish, R!Off, RP!Off, R!Becomes, RP!Becomes
<1>10. ASSUME NEW p PROVE R!List(p) <=> RP!List(p)
  BY DEF R!List, RP!List, R!Expired, RP!Expired, R!Off, RP!Off, R!Becomes, RP!Becomes,
         R!Cardinality, RP!Cardinality
<1>11. ASSUME NEW p PROVE R!Delete(p) <=> RP!Delete(p)
  BY DEF R!Delete, RP!Delete, R!Becomes, RP!Becomes
<1>12. ASSUME NEW p PROVE R!DeleteFails(p) <=> RP!DeleteFails(p)
  BY DEF R!DeleteFails, RP!DeleteFails, R!Off, RP!Off, R!Becomes, RP!Becomes
<1>13. ASSUME NEW p PROVE R!Forget(p) <=> RP!Forget(p)
  BY DEF R!Forget, RP!Forget, R!Off, RP!Off, R!Becomes, RP!Becomes
<1>14. ASSUME NEW p PROVE R!Crash(p) <=> RP!Crash(p)
  BY DEF R!Crash, RP!Crash, R!Off, RP!Off, R!Fault, RP!Fault, R!Becomes, RP!Becomes
<1>15. ASSUME NEW b PROVE R!Expire(b) <=> RP!Expire(b)
  BY DEF R!Expire, RP!Expire
<1>16. [R!Next]_(R!vars) => [RP!Next]_(RP!vars)
  BY <1>4, <1>5, <1>6, <1>7, <1>8, <1>9, <1>10, <1>11, <1>12, <1>13, <1>14, <1>15
  DEF R!Next, RP!Next, R!Writing, RP!Writing, R!Collecting, RP!Collecting, R!vars, RP!vars
<1> QED BY <1>1, <1>2, <1>3, <1>16

LEMMA RetentionHolds ==
  ASSUME RP!OneCollector
  PROVE  /\ DeploymentInit => RP!RetentionInv
         /\ RP!RetentionInv /\ [DeploymentNext]_allVars => RP!RetentionInv'
<1>1. DeploymentInit => RP!RetentionInv
  BY DeploymentAssumption, SameRetention, RP!InitRetention
  DEF DeploymentAssumption, DeploymentInit
<1>2. RP!RetentionInv /\ [DeploymentNext]_allVars => RP!RetentionInv'
  BY DeploymentAssumption, RetentionStep, SameRetention, RP!NextRetention
  DEF DeploymentAssumption
<1> QED BY <1>1, <1>2

\* Among jobs that also wait for the schema and are killed before they start, a
\* row that has not expired names an object in the bucket.
THEOREM DeploymentRowsResolve ==
  ASSUME RP!OneCollector
  PROVE  DeploymentSpec => []IndexResolves
<1>1. RP!RetentionInv => IndexResolves
  BY SameRetention DEF RP!RetentionInv
<1> QED BY <1>1, RetentionHolds, PTL DEF DeploymentSpec

\* In the deployment, too, an object leaves the bucket only when it has expired,
\* a workflow never.
THEOREM DeploymentOnlyExpiredLeave ==
  ASSUME RP!OneCollector
  PROVE  DeploymentSpec => OnlyExpiredGo
<1>1. RP!RetentionInv /\ [DeploymentNext]_allVars =>
        [\A b \in stored \ stored' : b \in Prefixes /\ index[b] = "expired"]_(R!vars)
  <2>1. RP!RetentionInv /\ [DeploymentNext]_allVars =>
          \A b \in stored \ stored' : b \in Prefixes /\ index[b] = "expired"
    BY DeploymentAssumption, RetentionStep, SameRetention, RP!OnlyExpiredStep
  <2> QED BY <2>1
<1> QED BY <1>1, RetentionHolds, PTL DEF DeploymentSpec, OnlyExpiredGo, R!OnlyExpiredGo

\* Both parts keep their types, and a pod works only once it has migrated.
THEOREM DeploymentTypeCorrect ==
  ASSUME RP!OneCollector
  PROVE  DeploymentSpec => []DeploymentTypeOK
<1>1. DeploymentInit => MigrateInv /\ Gated
  BY ReleasesAssumption, DeploymentAssumption, InitMigrate, InitGated DEF DeploymentInit
<1>2. MigrateInv /\ Gated /\ [DeploymentNext]_allVars => (MigrateInv /\ Gated)'
  BY ReleasesAssumption, MigrateStep, NextMigrate, NextGated DEF MigrateInv
<1>3. RP!RetentionInv => R!TypeOK
  BY DEF RP!RetentionInv, RP!TypeOK, R!TypeOK, RP!Job, R!Job, RP!Steps, R!Steps
<1>4. MigrateInv /\ Gated /\ RP!RetentionInv => DeploymentTypeOK
  BY <1>3 DEF MigrateInv, Gated, DeploymentTypeOK
<1> QED BY <1>1, <1>2, <1>4, RetentionHolds, PTL DEF DeploymentSpec
=============================================================================
