--------------------------- MODULE RetentionProofs ---------------------------
(***************************************************************************)
(* Proofs about Retention, for any blobs, any fetchers and any number of   *)
(* kills and failing calls, but one gc at a time: a second one may delete, *)
(* from a list it read before, an object that was forgotten and stored     *)
(* again since.                                                            *)
(***************************************************************************)
EXTENDS Retention, TLAPS

\* A CronJob does not overlap itself (concurrencyPolicy: Forbid).
OneCollector == \A p, q \in Collectors : p = q

Everyone == Fetchers \cup Collectors

\* What a fetcher is about to record is in the bucket, and what has expired is
\* nobody's to write.  What gc goes through has expired.
JobOK(p, j) ==
  /\ j \in Job
  /\ j.blob # NoBlob <=> j.pc \in {"put", "record", "forget"}
  /\ p \in Fetchers => /\ j.pc \in {"off", "ready", "put", "record"}
                       /\ j.pc = "record" => j.blob \in stored
                       /\ j.blob \notin Expired
  /\ p \in Collectors => /\ j.pc \in {"off", "list", "delete", "forget"}
                         /\ j.pc \in {"delete", "forget"} => j.expired \subseteq Expired
                         /\ j.pc = "forget" => j.blob \in j.expired

\* The inductive invariant.
RetentionInv == TypeOK /\ IndexResolves /\ \A p \in Everyone : JobOK(p, job[p])

----------------------------------------------------------------------------
\* What the actions do to the jobs.

LEMMA BecomesValue ==
  ASSUME TypeOK, NEW p \in Everyone, NEW j, Becomes(p, j)
  PROVE  /\ job'[p] = j
         /\ \A q \in Everyone \ {p} : job'[q] = job[q]
         /\ j \in Job => job' \in [Everyone -> Job]
BY DEF Becomes, TypeOK, Everyone

LEMMA FaultType == ASSUME Parameters, faults \in 0 .. MaxFaults, Fault
                   PROVE  faults' \in 0 .. MaxFaults
BY DEF Fault, Parameters

LEMMA OffOK == ASSUME Parameters, NEW p \in Everyone PROVE JobOK(p, Off)
BY DEF JobOK, Off, Job, Steps, Expired, Parameters, Everyone

\* A step of one job in which no blob leaves the bucket or the index.
LEMMA JobStep ==
  ASSUME RetentionInv, NEW p \in Everyone, NEW j, Becomes(p, j),
         JobOK(p, j), UNCHANGED <<strict, index>>,
         stored' \subseteq Blobs, stored \subseteq stored', faults' \in 0 .. MaxFaults
  PROVE  RetentionInv'
<1>1. /\ job' \in [Everyone -> Job] /\ job'[p] = j
      /\ \A q \in Everyone \ {p} : job'[q] = job[q]
  BY BecomesValue DEF RetentionInv, JobOK
<1>2. \A q \in Everyone : JobOK(q, job'[q])
  BY <1>1 DEF RetentionInv
<1>3. \A q \in Everyone : JobOK(q, job[q])'
  BY <1>2 DEF JobOK, Expired
<1>4. TypeOK'
  BY <1>1, <1>2 DEF RetentionInv, TypeOK, JobOK, Everyone
<1>5. IndexResolves'
  BY DEF RetentionInv, IndexResolves
<1> QED BY <1>3, <1>4, <1>5 DEF RetentionInv

LEMMA InitRetention == Parameters /\ Init => RetentionInv
<1> SUFFICES ASSUME Parameters, Init PROVE RetentionInv
  OBVIOUS
<1>1. \A p \in Everyone : JobOK(p, Off) /\ job[p] = Off
  BY OffOK DEF Init, Everyone
<1>2. TypeOK
  BY <1>1 DEF Init, TypeOK, JobOK, Everyone, Parameters
<1> QED BY <1>1, <1>2 DEF RetentionInv, Init, IndexResolves

LEMMA NextRetention == Parameters /\ OneCollector /\ RetentionInv /\ [Next]_vars => RetentionInv'
<1> SUFFICES ASSUME Parameters, OneCollector, RetentionInv, [Next]_vars PROVE RetentionInv'
  OBVIOUS
<1> USE DEF Everyone
<1>0. /\ strict \in BOOLEAN /\ stored \subseteq Blobs /\ faults \in 0 .. MaxFaults
      /\ index \in [Blobs -> {"none", "kept", "fresh", "expired"}]
      /\ TypeOK /\ NoBlob \notin Blobs
      /\ \A q \in Everyone : JobOK(q, job[q]) /\ job[q] \in Job
  BY DEF RetentionInv, TypeOK, JobOK, Parameters
<1>1. ASSUME NEW p \in Everyone, Start(p) PROVE RetentionInv'
  <2> DEFINE s == IF p \in Fetchers THEN "ready" ELSE "list"
  <2>1. JobOK(p, [job[p] EXCEPT !.pc = s])
    BY <1>0, <1>1 DEF Start, JobOK, Job, Steps, Parameters
  <2> QED BY <1>0, <1>1, <2>1, JobStep DEF Start, Goto
<1>2. ASSUME NEW p \in Everyone, Finish(p) \/ DeleteFails(p) PROVE RetentionInv'
  BY <1>0, <1>2, OffOK, JobStep DEF Finish, DeleteFails
<1>3. ASSUME NEW p \in Everyone, Crash(p) PROVE RetentionInv'
  BY <1>0, <1>3, OffOK, JobStep, FaultType DEF Crash
<1>4. ASSUME NEW p \in Everyone, NEW b \in Blobs, BlobExists(p, b) PROVE RetentionInv'
  <2> DEFINE j == [job[p] EXCEPT !.pc = "put", !.blob = b]
  <2>1. j \in Job /\ j.pc = "put" /\ j.blob = b
    BY <1>0 DEF Job, Steps
  <2>2. p \in Fetchers /\ p \notin Collectors /\ b \notin Expired /\ b # NoBlob
    BY <1>0, <1>4 DEF BlobExists, Expired, Parameters
  <2> HIDE DEF j
  <2>3. JobOK(p, j)
    BY <2>1, <2>2 DEF JobOK
  <2>4. Becomes(p, j) /\ UNCHANGED <<strict, stored, index, faults>>
    BY <1>4 DEF BlobExists, j
  <2> QED BY <1>0, <2>3, <2>4, JobStep
<1>5. ASSUME NEW p \in Everyone, StorePut(p) PROVE RetentionInv'
  <2> DEFINE b == job[p].blob
  <2>1. p \in Fetchers /\ p \notin Collectors /\ b \in Blobs /\ b \notin Expired
    BY <1>0, <1>5 DEF StorePut, JobOK, Job, Parameters
  <2>2. /\ job'[p] = [job[p] EXCEPT !.pc = "record"]
        /\ \A q \in Everyone \ {p} : job'[q] = job[q]
    BY <1>0, <1>5, BecomesValue DEF StorePut, Goto
  <2>3. job'[p] \in Job /\ job'[p].pc = "record" /\ job'[p].blob = b
    BY <1>0, <2>2 DEF Job, Steps
  <2>4. \A q \in Everyone : JobOK(q, job[q])'
    <3>1. Expired' = Expired /\ stored' = stored \cup {b}
      BY <1>5 DEF StorePut, Expired
    <3>2. JobOK(p, job[p])'
      BY <1>0, <2>1, <2>3, <3>1 DEF JobOK, Parameters
    <3>3. ASSUME NEW q \in Everyone \ {p} PROVE JobOK(q, job[q])'
      BY <1>0, <2>2, <3>1 DEF JobOK
    <3> QED BY <3>2, <3>3
  <2>5. TypeOK' /\ IndexResolves'
    <3>1. job' \in [Everyone -> Job]
      BY <1>5, <2>2, <2>3, BecomesValue, <1>0 DEF StorePut, Goto
    <3> QED BY <1>0, <1>5, <2>1, <2>4, <3>1 DEF StorePut, TypeOK, RetentionInv, IndexResolves, JobOK
  <2> QED BY <2>4, <2>5 DEF RetentionInv
<1>6. ASSUME NEW p \in Everyone, RecordBlob(p) PROVE RetentionInv'
  <2> DEFINE b == job[p].blob
             j == [job[p] EXCEPT !.pc = "ready", !.blob = NoBlob]
  <2>1. p \in Fetchers /\ p \notin Collectors /\ b \in Blobs /\ b \in stored
    BY <1>0, <1>6 DEF RecordBlob, JobOK, Job, Parameters
  <2>2. j \in Job /\ j.pc = "ready" /\ j.blob = NoBlob
    BY <1>0 DEF Job, Steps
  <2>3. NoBlob \notin Expired
    BY <1>0 DEF Expired
  <2>4. JobOK(p, j)
    BY <2>1, <2>2, <2>3 DEF JobOK
  <2>5. /\ job'[p] = j /\ job' \in [Everyone -> Job]
        /\ \A q \in Everyone \ {p} : job'[q] = job[q]
    BY <1>0, <1>6, <2>2, BecomesValue DEF RecordBlob
  <2> HIDE DEF b, j
  <2>6. /\ index' = [index EXCEPT ![b] = IF index[b] = "none" THEN Row(b) ELSE index[b]]
        /\ UNCHANGED <<strict, stored, faults>>
    BY <1>6 DEF RecordBlob, b
  <2>7. /\ \A c \in Blobs \ {b} : index'[c] = index[c]
        /\ \/ index'[b] = index[b]
           \/ index[b] = "none" /\ index'[b] \in {"fresh", "kept"} /\ (b \notin Prefixes => index'[b] = "kept")
        /\ index' \in [Blobs -> {"none", "kept", "fresh", "expired"}]
    BY <1>0, <2>1, <2>6 DEF Row
  <2>8. Expired' = Expired
    BY <2>7 DEF Expired
  <2>9. \A q \in Everyone : JobOK(q, job'[q])
    BY <1>0, <2>4, <2>5
  <2>10. \A q \in Everyone : JobOK(q, job[q])'
    BY <2>6, <2>8, <2>9 DEF JobOK
  <2>11. IndexResolves'
    BY <2>1, <2>6, <2>7 DEF IndexResolves, RetentionInv
  <2>12. TypeOK'
    BY <1>0, <2>5, <2>6, <2>7, <2>9 DEF TypeOK, JobOK
  <2> QED BY <2>10, <2>11, <2>12 DEF RetentionInv
<1>7. ASSUME NEW p \in Everyone, PutFails(p) PROVE RetentionInv'
  <2> DEFINE j == [job[p] EXCEPT !.pc = "ready", !.blob = NoBlob]
  <2>1. p \in Fetchers /\ p \notin Collectors /\ job[p].blob \in Blobs
    BY <1>0, <1>7 DEF PutFails, JobOK, Job, Parameters
  <2>2. j \in Job /\ j.pc = "ready" /\ j.blob = NoBlob /\ NoBlob \notin Expired
    BY <1>0 DEF Job, Steps, Expired
  <2>3. JobOK(p, j)
    BY <2>1, <2>2 DEF JobOK
  <2>4. Becomes(p, j) /\ UNCHANGED <<strict, index>> /\ faults' \in 0 .. MaxFaults
    BY <1>0, <1>7, FaultType DEF PutFails
  <2>5. stored' \subseteq Blobs /\ stored \subseteq stored'
    BY <1>0, <1>7, <2>1 DEF PutFails
  <2> HIDE DEF j
  <2> QED BY <2>3, <2>4, <2>5, JobStep
<1>8. ASSUME NEW b \in Blobs, Expire(b) PROVE RetentionInv'
  <2>1. Expired' = Expired \cup {b} /\ UNCHANGED <<strict, stored, job, faults>>
    BY <1>0, <1>8 DEF Expire, Expired
  <2>2. \A q \in Everyone : JobOK(q, job[q])'
    BY <1>0, <1>8, <2>1 DEF Expire, JobOK
  <2> QED BY <1>0, <1>8, <2>2 DEF Expire, RetentionInv, TypeOK, IndexResolves
<1>9. ASSUME NEW p \in Everyone, List(p) PROVE RetentionInv'
  <2>1. PICK some \in SUBSET Expired :
          \/ Becomes(p, Off)
          \/ Becomes(p, [job[p] EXCEPT !.pc = "delete", !.expired = some])
    BY <1>9 DEF List
  <2> DEFINE j == [job[p] EXCEPT !.pc = "delete", !.expired = some]
  <2>2. p \in Collectors /\ p \notin Fetchers /\ job[p].blob = NoBlob
    BY <1>0, <1>9 DEF List, JobOK, Parameters
  <2>3. some \subseteq Blobs
    BY DEF Expired
  <2>4. j \in Job /\ j.pc = "delete" /\ j.expired = some /\ j.blob = NoBlob
    BY <1>0, <2>2, <2>3 DEF Job, Steps
  <2> HIDE DEF j
  <2>5. JobOK(p, j)
    BY <2>2, <2>4 DEF JobOK
  <2>6. UNCHANGED <<strict, stored, index, faults>>
    BY <1>9 DEF List
  <2> QED BY <1>0, <2>1, <2>5, <2>6, OffOK, JobStep DEF j
<1>10. ASSUME NEW p \in Everyone, Delete(p) PROVE RetentionInv'
  <2>1. /\ p \in Collectors /\ p \notin Fetchers /\ \A q \in Collectors : q = p
        /\ job[p].expired \subseteq Expired
    BY <1>0, <1>10 DEF Delete, JobOK, Parameters, OneCollector
  <2>2. PICK b \in job[p].expired : /\ stored' = stored \ {b}
                                    /\ Becomes(p, [job[p] EXCEPT !.pc = "forget", !.blob = b])
    BY <1>10 DEF Delete
  <2> DEFINE j == [job[p] EXCEPT !.pc = "forget", !.blob = b]
  <2>3. b \in Blobs /\ index[b] = "expired"
    BY <2>1 DEF Expired
  <2>4. /\ j \in Job /\ j.pc = "forget" /\ j.blob = b /\ j.expired = job[p].expired
    BY <1>0, <2>3 DEF Job, Steps
  <2>5. /\ job'[p] = j /\ job' \in [Everyone -> Job]
        /\ \A q \in Everyone \ {p} : job'[q] = job[q]
    BY <1>0, <2>2, <2>4, BecomesValue
  <2> HIDE DEF j
  <2>6. UNCHANGED <<strict, index, faults>> /\ Expired' = Expired
    BY <1>10 DEF Delete, Expired
  <2>7. JobOK(p, job[p])'
    BY <1>0, <2>1, <2>3, <2>4, <2>5, <2>6 DEF JobOK
  <2>8. ASSUME NEW q \in Everyone \ {p} PROVE JobOK(q, job[q])'
    <3>1. q \in Fetchers /\ q \notin Collectors /\ JobOK(q, job[q])
      BY <1>0, <2>1
    <3>2. job[q].blob # b
      BY <2>1, <3>1 DEF JobOK
    <3> QED BY <2>2, <2>5, <2>6, <3>1, <3>2 DEF JobOK
  <2>9. TypeOK'
    BY <1>0, <2>2, <2>5, <2>6, <2>7, <2>8 DEF TypeOK, JobOK
  <2>10. IndexResolves'
    BY <2>2, <2>3, <2>6 DEF IndexResolves, RetentionInv
  <2> QED BY <2>7, <2>8, <2>9, <2>10 DEF RetentionInv
<1>11. ASSUME NEW p \in Everyone, Forget(p) PROVE RetentionInv'
  <2> DEFINE b == job[p].blob
             left == job[p].expired \ {b}
             j == [pc |-> "delete", blob |-> NoBlob, expired |-> left]
  <2>1. /\ p \in Collectors /\ p \notin Fetchers /\ \A q \in Collectors : q = p
        /\ job[p].expired \subseteq Expired /\ b \in Blobs /\ b \in Expired
    BY <1>0, <1>11 DEF Forget, JobOK, Job, Parameters, OneCollector, Expired
  <2>2. /\ j \in Job /\ j.pc = "delete" /\ j.blob = NoBlob /\ j.expired = left
        /\ left \subseteq Expired \ {b}
    BY <2>1 DEF Job, Steps, Expired
  <2>3. /\ index' = [index EXCEPT ![b] = "none"]
        /\ UNCHANGED <<strict, stored, faults>>
        /\ Becomes(p, j) \/ Becomes(p, Off)
    BY <1>11 DEF Forget
  <2> HIDE DEF b, left, j
  <2>4. Expired' = Expired \ {b} /\ index' \in [Blobs -> {"none", "kept", "fresh", "expired"}]
    BY <1>0, <2>1, <2>3 DEF Expired
  <2>5. /\ job' \in [Everyone -> Job] /\ job'[p] \in {j, Off}
        /\ \A q \in Everyone \ {p} : job'[q] = job[q]
    BY <1>0, <2>2, <2>3, BecomesValue, OffOK DEF JobOK
  <2>6. JobOK(p, job[p])'
    <3>1. CASE job'[p] = j
      BY <2>1, <2>2, <2>4, <3>1 DEF JobOK
    <3>2. CASE job'[p] = Off
      BY <2>1, <3>2 DEF JobOK, Off, Job, Steps
    <3> QED BY <2>5, <3>1, <3>2
  <2>7. ASSUME NEW q \in Everyone \ {p} PROVE JobOK(q, job[q])'
    <3>1. q \in Fetchers /\ q \notin Collectors /\ JobOK(q, job[q])
      BY <1>0, <2>1
    <3> QED BY <2>3, <2>4, <2>5, <3>1 DEF JobOK
  <2>8. TypeOK'
    BY <1>0, <2>1, <2>3, <2>4, <2>5, <2>6, <2>7 DEF TypeOK, JobOK
  <2>9. IndexResolves'
    BY <1>0, <2>1, <2>3 DEF IndexResolves, RetentionInv
  <2> QED BY <2>6, <2>7, <2>8, <2>9 DEF RetentionInv
<1>12. CASE UNCHANGED vars
  BY <1>12 DEF vars, RetentionInv, TypeOK, IndexResolves, JobOK, Expired
<1> QED
  BY <1>1, <1>2, <1>3, <1>4, <1>5, <1>6, <1>7, <1>8, <1>9, <1>10, <1>11, <1>12
  DEF Next, Writing, Collecting
\* gc alone takes objects out of the bucket, and only of its list.
LEMMA OnlyExpiredStep ==
  ASSUME RetentionInv, [Next]_vars
  PROVE  \A b \in stored \ stored' : b \in Prefixes /\ index[b] = "expired"
<1>1. ASSUME NEW p \in Everyone, Delete(p)
      PROVE  \A b \in stored \ stored' : b \in Expired
  <2>1. p \in Collectors \/ p \in Fetchers
    BY DEF Everyone
  <2>2. job[p].expired \subseteq Expired
    BY <1>1, <2>1 DEF Delete, RetentionInv, JobOK
  <2> QED BY <1>1, <2>2 DEF Delete
<1>2. \A b \in Expired : b \in Prefixes /\ index[b] = "expired"
  BY DEF RetentionInv, TypeOK, Expired
<1>3. (\E p \in Everyone : Delete(p)) \/ stored \subseteq stored'
  <2>1. ASSUME NEW p \in Everyone, Writing(p) PROVE stored \subseteq stored'
    BY <2>1 DEF Writing, BlobExists, StorePut, RecordBlob, PutFails, Finish
  <2>2. ASSUME NEW p \in Everyone, Start(p) \/ Crash(p) \/ List(p) \/ DeleteFails(p) \/ Forget(p)
        PROVE  stored \subseteq stored'
    BY <2>2 DEF Start, Crash, List, DeleteFails, Forget
  <2> QED BY <2>1, <2>2 DEF Next, Collecting, Expire, vars, Everyone
<1> QED BY <1>1, <1>2, <1>3

----------------------------------------------------------------------------
\* The theorems, of one gc at a time.

\* A row that has not expired names an object in the bucket, whoever died
\* between the two systems and however many pods put the same blob.
THEOREM RowsResolve ==
  ASSUME Parameters, OneCollector
  PROVE  Spec => []IndexResolves
<1>1. RetentionInv => IndexResolves
  BY DEF RetentionInv
<1> QED BY <1>1, InitRetention, NextRetention, PTL DEF Spec

\* An object leaves the bucket only when it has expired, a workflow never.
THEOREM OnlyExpiredLeave ==
  ASSUME Parameters, OneCollector
  PROVE  Spec => OnlyExpiredGo
<1>1. RetentionInv /\ [Next]_vars =>
        [\A b \in stored \ stored' : b \in Prefixes /\ index[b] = "expired"]_vars
  BY OnlyExpiredStep
<1> QED BY <1>1, InitRetention, NextRetention, PTL DEF Spec, OnlyExpiredGo
=============================================================================
