---------------------------- MODULE IngestProofs ----------------------------
(***************************************************************************)
(* Proofs about Ingest, for any number of overlapping ingesters, manifests *)
(* and lines, and any number of kills, drifts, repeated parts and blobs    *)
(* that cannot be read.                                                    *)
(***************************************************************************)
EXTENDS Ingest, FiniteSetTheorems, TLAPS

\* The key of a raw row has the second of its capture: two manifests share a
\* line only where an artifact was captured twice within one second.  The
\* theorems need that none of those lines has a blob that may not be read.
NoSharedBlob ==
  \A m, n \in Manifests : m # n => Content[m] \cap Content[n] \cap Unreadable = {}

\* A raw row says what derive made of the line, unless its blob was not read.
Honest(l) == \/ l[2] = WorkflowOf[l[1]]
             \/ l[1] \in Unreadable /\ l[2] = NoWorkflow

\* One raw row for a line.
OneRow(lines) == \A k, l \in lines : k[1] = l[1] => k = l

\* A run has a manifest of the bucket in hand, and all of its lines.
Holds(r) == r.pc \in {"insert", "mark"}
RunOK(r) ==
  /\ r \in Run
  /\ r.todo \subseteq InBucket
  /\ r.pc \in {"read", "insert", "mark"} => r.todo # {}
  /\ Holds(r) => /\ \A l \in r.batch : l[1] \in Content[First(r.todo)] /\ Honest(l)
                 /\ OneRow(r.batch)
                 /\ First(r.todo) \notin lost =>
                      bucket[First(r.todo)] = {l[1] : l \in r.batch}

\* The tables behind a run have what it read for them.
Behind(r) == {t \in Names : \/ r.pc = "mark"
                            \/ r.pc = "insert" /\ \E n \in 1 .. r.at - 1 : Tables[n] = t}
Stored(r) == Holds(r) /\ First(r.todo) \notin lost =>
               \A t \in Behind(r) : RowsFor(t, r.batch) \subseteq rows[t]

\* A line has a raw row, and each table what that row calls for.
HasRow(r) == \E l \in rows["raw_artifacts"] :
               l[1] = r /\ \A t \in Names : RowsFor(t, {l}) \subseteq rows[t]

\* Two readings of a manifest are of one mind, unless it is lost.
Blobs(m) == bucket[m] \cap Unreadable
OneMind ==
  \A i \in Ingesters : Holds(run[i]) /\ Blobs(First(run[i].todo)) # {}
                         /\ First(run[i].todo) \notin lost =>
    /\ First(run[i].todo) \notin consumed
    /\ \A k \in Ingesters \ {i} : Holds(run[k]) => First(run[k].todo) # First(run[i].todo)

\* The tables by themselves: one raw row for a line, and an honest one.
RowsOK ==
  /\ DOMAIN rows = Names /\ \A t \in Names : rows[t] \subseteq RowOf(t)
  /\ OneRow(rows["raw_artifacts"]) /\ \A l \in rows["raw_artifacts"] : Honest(l)

\* The other variables by themselves.
StoreOK ==
  /\ bucket \in [Manifests -> SUBSET Records]
  /\ \A m \in Manifests : bucket[m] \subseteq Content[m]
  /\ consumed \subseteq InBucket /\ lost \subseteq Manifests
  /\ engine \in [Names -> {"absent", "current", "stale"}]
  /\ repeats \in 0 .. MaxRepeats /\ drifts \in 0 .. MaxDrifts /\ faults \in 0 .. MaxFaults

ConsumedHasRows == \A m \in consumed \ lost : \A r \in bucket[m] : HasRow(r)

\* The inductive invariant.
IngestInv ==
  /\ StoreOK /\ RowsOK
  /\ run \in [Ingesters -> Run] /\ \A i \in Ingesters : RunOK(run[i])
  /\ \A i \in Ingesters : Stored(run[i])
  /\ OneMind
  /\ ConsumedHasRows

----------------------------------------------------------------------------
\* The operators.

\* Any numbers have a least one, by the well-foundedness of <.
LEMMA NatHasLeast ==
  ASSUME NEW S \in SUBSET Nat, S # {}
  PROVE  \E m \in S : \A k \in S : m <= k
<1> DEFINE Less == OpToRel(<, Nat)
<1>1. IsWellFoundedOn(Less, Nat)
  BY NatLessThanWellFounded
<1>2. PICK m \in S : \A k \in S : <<k, m>> \notin Less
  <2> HIDE DEF Less
  <2> QED BY <1>1, WFMin
<1>3. \A k \in S : ~(k < m)
  BY <1>2 DEF OpToRel
<1> QED BY <1>3

\* The first of some keys is one of them.
LEMMA FirstIsFirst ==
  ASSUME ConstantsAssumption, NEW keys \in SUBSET Manifests, keys # {}
  PROVE  First(keys) \in keys /\ \A k \in keys : First(keys) <= k
<1>1. keys \in SUBSET Nat
  BY DEF ConstantsAssumption
<1>2. \E m \in keys : \A k \in keys : m <= k
  BY <1>1, NatHasLeast
<1> QED BY <1>1, <1>2 DEF First

\* A run takes at least one of the new manifests, since --limit is not zero.
LEMMA FirstFewFacts ==
  ASSUME ConstantsAssumption, NEW keys \in SUBSET Manifests, keys # {}
  PROVE  FirstFew(keys) \subseteq keys /\ FirstFew(keys) # {}
<1>1. /\ First(keys) \in keys /\ First(keys) \in Nat
      /\ \A k \in keys : First(keys) <= k /\ k \in Nat
  BY FirstIsFirst DEF ConstantsAssumption
<1>2. {k \in keys : k < First(keys)} = {}
  <2>1. ASSUME NEW k \in keys PROVE ~(k < First(keys))
    <3>1. First(keys) \in Nat /\ k \in Nat /\ First(keys) <= k
      BY <1>1
    <3> QED BY <3>1
  <2> QED BY <2>1
<1>3. Cardinality({k \in keys : k < First(keys)}) = 0
  BY <1>2, FS_EmptySet
<1>4. First(keys) \in FirstFew(keys)
  BY <1>1, <1>3 DEF FirstFew, ConstantsAssumption
<1> QED BY <1>4 DEF FirstFew

\* The raw rows come first, and every table has its turn.
LEMMA TablesFacts ==
  /\ Tables[1] = "raw_artifacts" /\ "raw_artifacts" \in Names
  /\ \A n \in 1 .. 5 : Tables[n] \in Names /\ (Tables[n] = "raw_artifacts" => n = 1)
  /\ \A t \in Names : \E n \in 1 .. 5 : Tables[n] = t
<1>1. \A n \in 1 .. 5 : n = 1 \/ n = 2 \/ n = 3 \/ n = 4 \/ n = 5
  OBVIOUS
<1>2. /\ Tables[1] = "raw_artifacts" /\ Tables[2] = "derived_workflows"
      /\ Tables[3] = "derived_artifact_workflows" /\ Tables[4] = "derived_workflow_nodes"
      /\ Tables[5] = "derived_workflow_bindings"
  BY DEF Tables
<1>3. \A n \in 1 .. 5 : Tables[n] = "raw_artifacts" => n = 1
  BY <1>1, <1>2
<1>4. /\ \A n \in 1 .. 5 : Tables[n] \in Names
      /\ \A t \in Names : \E n \in 1 .. 5 : Tables[n] = t
  BY DEF Names
<1> QED BY <1>2, <1>3, <1>4

\* What a batch has for a table is of that table, and more lines have more.
LEMMA RowsForFacts ==
  ASSUME NEW t \in Names, NEW batch \in SUBSET Line
  PROVE  /\ RowsFor(t, batch) \subseteq RowOf(t)
         /\ \A some \in SUBSET batch : RowsFor(t, some) \subseteq RowsFor(t, batch)
         /\ t = "raw_artifacts" => RowsFor(t, batch) = batch
<1>1. \A l \in batch : l[2] # NoWorkflow => l \in Records \X Workflows /\ l[2] \in Workflows
  BY DEF Line
<1>2. CASE t = "raw_artifacts"
  BY <1>2 DEF RowsFor, RowOf
<1>3. CASE t = "derived_artifact_workflows"
  BY <1>1, <1>3 DEF RowsFor, RowOf
<1>4. CASE t \notin {"raw_artifacts", "derived_artifact_workflows"}
  BY <1>1, <1>4 DEF RowsFor, RowOf
<1> QED BY <1>2, <1>3, <1>4

LEMMA BecomesValue ==
  ASSUME run \in [Ingesters -> Run], NEW i \in Ingesters, NEW r, Becomes(i, r)
  PROVE  /\ run'[i] = r
         /\ \A k \in Ingesters \ {i} : run'[k] = run[k]
         /\ r \in Run => run' \in [Ingesters -> Run]
BY DEF Becomes

\* The same of a process that changes its pc alone.
LEMMA GotoFacts ==
  ASSUME NEW r \in Run, NEW s \in Steps
  PROVE  /\ [r EXCEPT !.pc = s] \in Run /\ [r EXCEPT !.pc = s].pc = s
         /\ [r EXCEPT !.pc = s].todo = r.todo /\ [r EXCEPT !.pc = s].batch = r.batch
BY DEF Run

LEMMA IdleOK ==
  RunOK(Idle) /\ Idle.pc = "idle" /\ ~Holds(Idle)
<1>1. Idle \in Run
  BY DEF Idle, Run, Steps
<1> QED BY <1>1 DEF Idle, RunOK, Holds

\* What is in hand is in the bucket.
LEMMA InHandFacts ==
  ASSUME ConstantsAssumption, NEW r, RunOK(r), r.pc \in {"read", "insert", "mark"}
  PROVE  /\ First(r.todo) \in r.todo /\ First(r.todo) \in Manifests
         /\ First(r.todo) \in InBucket /\ bucket[First(r.todo)] # {}
<1>1. r.todo \in SUBSET Manifests /\ r.todo # {} /\ r.todo \subseteq InBucket
  BY DEF RunOK, Run
<1>2. First(r.todo) \in r.todo
  BY <1>1, FirstIsFirst
<1> QED BY <1>1, <1>2 DEF InBucket

----------------------------------------------------------------------------
\* What an insert does to the rows of others.

\* The rows of a manifest stay.
Keeps(m) == /\ \A l \in rows["raw_artifacts"] : l[1] \in bucket[m] => l \in rows'["raw_artifacts"]
            /\ \A t \in Names \ {"raw_artifacts"} : rows[t] \subseteq rows'[t]

LEMMA InsertedFacts ==
  ASSUME ConstantsAssumption, RowsOK, NEW i \in Ingesters, NEW r, r = run[i], RunOK(r),
         r.pc = "insert", rows' = Inserted(i)
  PROVE  LET t == Tables[r.at] IN
         /\ t \in Names /\ DOMAIN rows' = Names
         /\ \A u \in Names \ {t} : rows'[u] = rows[u]
         /\ RowsFor(t, r.batch) \subseteq rows'[t]
         /\ t # "raw_artifacts" => rows'[t] = rows[t] \cup RowsFor(t, r.batch)
         /\ t = "raw_artifacts" =>
              rows'[t] = {l \in rows[t] : \A n \in r.batch : n[1] # l[1]} \cup r.batch
<1> DEFINE t == Tables[r.at]
<1>1. r.at \in 1 .. 5 /\ r.batch \in SUBSET Line
  BY DEF RunOK, Run
<1>2. t \in Names
  BY <1>1, TablesFacts
<1>3. rows' = [rows EXCEPT ![t] = Merged(t, RowsFor(t, r.batch))]
  BY DEF Inserted, Rows
<1>4. t = "raw_artifacts" => RowsFor(t, r.batch) = r.batch
  BY <1>1, <1>2, RowsForFacts
<1> HIDE DEF t
<1>5. DOMAIN rows' = Names /\ rows'[t] = Merged(t, RowsFor(t, r.batch))
      /\ \A u \in Names \ {t} : rows'[u] = rows[u]
  BY <1>2, <1>3 DEF RowsOK
<1>6. /\ RowsFor(t, r.batch) \subseteq rows'[t]
      /\ t # "raw_artifacts" => rows'[t] = rows[t] \cup RowsFor(t, r.batch)
      /\ t = "raw_artifacts" =>
           rows'[t] = {l \in rows[t] : \A n \in r.batch : n[1] # l[1]} \cup r.batch
  BY <1>4, <1>5 DEF Merged
<1> QED BY <1>2, <1>5, <1>6 DEF t

\* The tables stay well formed, and the rows of a manifest stay unless it is
\* the one that is inserted and it has blobs.
LEMMA InsertKeeps ==
  ASSUME ConstantsAssumption, NoSharedBlob, RowsOK, StoreOK,
         NEW i \in Ingesters, NEW r, r = run[i], RunOK(r),
         r.pc = "insert", rows' = Inserted(i)
  PROVE  /\ RowsOK'
         /\ \A m \in Manifests : Blobs(m) = {} \/ m # First(r.todo) => Keeps(m)
<1> DEFINE t == Tables[r.at]
           raw == "raw_artifacts"
<1>1. /\ t \in Names /\ DOMAIN rows' = Names
      /\ \A u \in Names \ {t} : rows'[u] = rows[u]
      /\ t # raw => rows'[t] = rows[t] \cup RowsFor(t, r.batch)
      /\ t = raw => rows'[t] = {l \in rows[t] : \A n \in r.batch : n[1] # l[1]} \cup r.batch
  BY InsertedFacts
<1>2. r.batch \in SUBSET Line /\ RowsFor(t, r.batch) \subseteq RowOf(t)
  BY <1>1, RowsForFacts DEF RunOK, Run
<1>3. /\ \A l \in r.batch : l[1] \in Content[First(r.todo)] /\ Honest(l)
      /\ OneRow(r.batch)
  BY DEF RunOK, Holds
<1> HIDE DEF t
<1>4. CASE t # raw
  <2>1. \A u \in Names : rows[u] \subseteq rows'[u]
    BY <1>1, <1>4
  <2>2. rows'[raw] = rows[raw]
    BY <1>1, <1>4, TablesFacts
  <2>3. \A u \in Names : rows'[u] \subseteq RowOf(u)
    BY <1>1, <1>2, <1>4 DEF RowsOK
  <2>4. RowsOK'
    BY <1>1, <2>2, <2>3 DEF RowsOK, RowOf, OneRow, Honest, Line, Workflows
  <2> QED BY <2>1, <2>2, <2>4 DEF Keeps
<1>5. CASE t = raw
  <2>1. \A u \in Names : rows'[u] \subseteq RowOf(u)
    <3>1. RowOf(raw) = Line /\ rows[raw] \subseteq Line
      BY TablesFacts DEF RowOf, RowsOK
    <3>2. rows'[raw] \subseteq RowOf(raw)
      BY <1>1, <1>2, <1>5, <3>1
    <3> QED BY <1>1, <1>5, <3>2 DEF RowsOK
  <2>2. OneRow(rows'[raw]) /\ \A l \in rows'[raw] : Honest(l)
    BY <1>1, <1>3, <1>5 DEF RowsOK, OneRow
  <2>3. RowsOK'
    BY <1>1, <2>1, <2>2 DEF RowsOK, RowOf, OneRow, Honest, Line, Workflows
  <2>4. ASSUME NEW m \in Manifests, Blobs(m) = {} \/ m # First(r.todo),
               NEW l \in rows[raw], l[1] \in bucket[m]
        PROVE  l \in rows'[raw]
    <3>1. CASE \A n \in r.batch : n[1] # l[1]
      BY <1>1, <1>5, <3>1
    <3>2. ASSUME NEW n \in r.batch, n[1] = l[1] PROVE l \in rows'[raw]
      <4>1. First(r.todo) \in Manifests
        BY InHandFacts
      <4>2. l[1] \notin Unreadable
        BY <1>3, <2>4, <3>2, <4>1 DEF NoSharedBlob, Blobs, StoreOK
      <4>3. n[2] = l[2]
        BY <1>3, <3>2, <4>2 DEF RowsOK, Honest
      <4>4. n \in Line /\ l \in Line
        BY <1>2, TablesFacts DEF RowsOK, RowOf
      <4>5. n = l
        BY <3>2, <4>3, <4>4 DEF Line
      <4> QED BY <1>1, <1>5, <4>5
    <3> QED BY <3>1, <3>2
  <2>5. \A u \in Names \ {raw} : rows[u] \subseteq rows'[u]
    BY <1>1, <1>5
  <2> QED BY <2>3, <2>4, <2>5 DEF Keeps
<1> QED BY <1>4, <1>5


----------------------------------------------------------------------------
\* The steps.

\* A step after which the run has nothing in hand, and no row has changed.
LEMMA QuietStep ==
  ASSUME IngestInv, NEW i \in Ingesters, NEW s, Becomes(i, s), RunOK(s), ~Holds(s),
         UNCHANGED <<bucket, rows, lost, consumed>>,
         engine' \in [Names -> {"absent", "current", "stale"}],
         faults' \in 0 .. MaxFaults, UNCHANGED <<repeats, drifts>>
  PROVE  IngestInv'
<1>1. s \in Run /\ run \in [Ingesters -> Run]
  BY DEF RunOK, IngestInv
<1>2. /\ run'[i] = s /\ \A k \in Ingesters \ {i} : run'[k] = run[k]
      /\ run' \in [Ingesters -> Run]
  BY <1>1, BecomesValue
<1>3. \A k \in Ingesters : RunOK(run'[k]) /\ Stored(run'[k])
  BY <1>2 DEF IngestInv, Stored
<1>4. (\A k \in Ingesters : RunOK(run[k]))'
  BY <1>3 DEF RunOK, Holds, InBucket, OneRow, Honest
<1>5. (\A k \in Ingesters : Stored(run[k]))'
  BY <1>3 DEF Stored, Holds, Behind, RowsFor
<1>6. OneMind'
  BY <1>2 DEF IngestInv, OneMind, Holds, Blobs
<1>7. StoreOK' /\ RowsOK' /\ ConsumedHasRows'
  BY DEF IngestInv, StoreOK, RowsOK, ConsumedHasRows, HasRow, RowsFor, InBucket,
         RowOf, Line, Workflows, OneRow, Honest
<1> QED BY <1>2, <1>4, <1>5, <1>6, <1>7 DEF IngestInv

\* What is behind a run that has moved on is what it had read for one table more.
LEMMA BehindFacts ==
  ASSUME NEW r \in Run, r.pc = "insert"
  PROVE  /\ \A s : s.pc = "insert" /\ s.at = r.at + 1 =>
                     Behind(s) \subseteq Behind(r) \cup {Tables[r.at]}
         /\ \A s : r.at = 5 /\ s.pc = "mark" => Behind(s) \subseteq Behind(r) \cup {Tables[r.at]}
         /\ Tables[r.at] = "raw_artifacts" => Behind(r) = {}
<1>1. r.at \in 1 .. 5
  BY DEF Run
<1>2. ASSUME NEW s, s.pc = "insert", s.at = r.at + 1
      PROVE  Behind(s) \subseteq Behind(r) \cup {Tables[r.at]}
  BY <1>1, <1>2 DEF Behind
<1>3. ASSUME NEW s, r.at = 5, s.pc = "mark"
      PROVE  Behind(s) \subseteq Behind(r) \cup {Tables[r.at]}
  <2>1. \A t \in Names : \E n \in 1 .. 5 : Tables[n] = t
    BY TablesFacts
  <2>2. \A n \in 1 .. 5 : n = 5 \/ n \in 1 .. 4
    OBVIOUS
  <2> QED BY <1>3, <2>1, <2>2 DEF Behind
<1>4. Tables[r.at] = "raw_artifacts" => Behind(r) = {}
  BY <1>1, TablesFacts DEF Behind
<1> QED BY <1>2, <1>3, <1>4

\* A row of a manifest's line stays, with all it calls for.
LEMMA KeepsHasRow ==
  ASSUME NEW m, Keeps(m), UNCHANGED bucket, NEW r \in bucket[m], HasRow(r)
  PROVE  HasRow(r)'
<1>1. PICK l \in rows["raw_artifacts"] :
        l[1] = r /\ \A t \in Names : RowsFor(t, {l}) \subseteq rows[t]
  BY DEF HasRow
<1>2. l \in rows'["raw_artifacts"]
  BY <1>1 DEF Keeps
<1>3. \A t \in Names : RowsFor(t, {l}) \subseteq rows'[t]
  <2>1. RowsFor("raw_artifacts", {l}) = {l}
    BY DEF RowsFor
  <2> QED BY <1>1, <1>2, <2>1 DEF Keeps
<1>4. \E k \in rows'["raw_artifacts"] :
        k[1] = r /\ \A t \in Names : RowsFor(t, {k}) \subseteq rows'[t]
  BY <1>1, <1>2, <1>3
<1> QED BY <1>4 DEF HasRow, RowsFor

\* What a run has inserted of a manifest stays.
LEMMA KeepsStored ==
  ASSUME NEW r, RunOK(r), Stored(r), First(r.todo) \in lost \/ Keeps(First(r.todo)),
         UNCHANGED lost
  PROVE  Holds(r) /\ First(r.todo) \notin lost' =>
           \A t \in Behind(r) : RowsFor(t, r.batch) \subseteq rows'[t]
<1>1. SUFFICES ASSUME Holds(r), First(r.todo) \notin lost, NEW t \in Behind(r)
               PROVE  RowsFor(t, r.batch) \subseteq rows'[t]
  OBVIOUS
<1>2. RowsFor(t, r.batch) \subseteq rows[t] /\ t \in Names
  BY <1>1 DEF Stored, Behind
<1>3. CASE t # "raw_artifacts"
  BY <1>1, <1>2, <1>3 DEF Keeps
<1>4. CASE t = "raw_artifacts"
  <2>1. RowsFor(t, r.batch) = r.batch
    BY <1>4 DEF RowsFor
  <2>2. \A l \in r.batch : l[1] \in bucket[First(r.todo)]
    BY <1>1 DEF RunOK
  <2> QED BY <1>1, <1>2, <1>4, <2>1, <2>2 DEF Keeps
<1> QED BY <1>3, <1>4

\* An insert, after which the run goes on with the same manifest or ends.
LEMMA InsertedStep ==
  ASSUME ConstantsAssumption, NoSharedBlob, IngestInv, NEW i \in Ingesters,
         NEW r, r = run[i], r.pc = "insert", rows' = Inserted(i),
         NEW s, Becomes(i, s), RunOK(s),
         Holds(s) => /\ s.todo = r.todo /\ s.batch = r.batch
                     /\ Behind(s) \subseteq Behind(r) \cup {Tables[r.at]},
         UNCHANGED <<bucket, lost, consumed, engine, repeats, drifts>>,
         faults' \in 0 .. MaxFaults
  PROVE  IngestInv'
<1>1. /\ s \in Run /\ run \in [Ingesters -> Run] /\ RunOK(r) /\ Stored(r) /\ Holds(r)
      /\ RowsOK /\ StoreOK /\ OneMind /\ ConsumedHasRows
  BY DEF RunOK, IngestInv, Holds
<1>2. /\ run'[i] = s /\ \A k \in Ingesters \ {i} : run'[k] = run[k]
      /\ run' \in [Ingesters -> Run]
  BY <1>1, BecomesValue
<1>3. \A k \in Ingesters : RunOK(run'[k])
  BY <1>2 DEF IngestInv
<1>4. (\A k \in Ingesters : RunOK(run[k]))'
  BY <1>3 DEF RunOK, Holds, InBucket, OneRow, Honest
<1>5. RowsOK' /\ \A m \in Manifests : Blobs(m) = {} \/ m # First(r.todo) => Keeps(m)
  BY <1>1, InsertKeeps
<1>6. OneMind'
  BY <1>1, <1>2 DEF OneMind, Holds, Blobs
<1>7. ConsumedHasRows'
  <2>1. ASSUME NEW m \in consumed \ lost, NEW x \in bucket[m] PROVE HasRow(x)'
    <3>1. m \in Manifests
      BY <1>1 DEF StoreOK, InBucket
    <3>2. Blobs(m) = {} \/ m # First(r.todo)
      BY <1>1, <2>1 DEF OneMind
    <3>3. Keeps(m)
      BY <1>5, <3>1, <3>2
    <3>4. HasRow(x)
      BY <1>1 DEF ConsumedHasRows
    <3> QED BY <3>3, <3>4, KeepsHasRow
  <2> QED BY <2>1 DEF ConsumedHasRows
<1>8. ASSUME NEW k \in Ingesters \ {i}
      PROVE  Holds(run[k]) /\ First(run[k].todo) \notin lost' =>
               \A t \in Behind(run[k]) : RowsFor(t, run[k].batch) \subseteq rows'[t]
  <2>1. RunOK(run[k]) /\ Stored(run[k])
    BY DEF IngestInv
  <2>2. CASE ~Holds(run[k]) \/ First(run[k].todo) \in lost
    BY <2>2
  <2>3. CASE Holds(run[k]) /\ First(run[k].todo) \notin lost
    <3>1. First(run[k].todo) \in Manifests
      BY <2>1, <2>3, InHandFacts DEF Holds
    <3>2. Blobs(First(run[k].todo)) = {} \/ First(run[k].todo) # First(r.todo)
      BY <1>1, <2>3 DEF OneMind
    <3>3. Keeps(First(run[k].todo))
      BY <1>5, <3>1, <3>2
    <3> QED BY <2>1, <3>3, KeepsStored
  <2> QED BY <2>2, <2>3
<1>9. ASSUME Holds(s), First(s.todo) \notin lost, NEW t \in Behind(s)
      PROVE  RowsFor(t, s.batch) \subseteq rows'[t]
  <2> DEFINE u == Tables[r.at]
  <2>1. /\ u \in Names /\ RowsFor(u, r.batch) \subseteq rows'[u]
        /\ u # "raw_artifacts" => rows'[u] = rows[u] \cup RowsFor(u, r.batch)
        /\ \A v \in Names \ {u} : rows'[v] = rows[v]
    BY <1>1, InsertedFacts
  <2> HIDE DEF u
  <2>2. t \in Behind(r) \cup {u} /\ s.batch = r.batch /\ s.todo = r.todo
    BY <1>9 DEF u
  <2>3. CASE t = u
    BY <2>1, <2>2, <2>3
  <2>4. CASE t # u
    <3>1. RowsFor(t, r.batch) \subseteq rows[t] /\ t \in Names
      BY <1>1, <1>9, <2>2, <2>4 DEF Stored, Behind
    <3> QED BY <2>1, <2>2, <2>4, <3>1
  <2> QED BY <2>3, <2>4
<1>10. \A k \in Ingesters : Holds(run'[k]) /\ First(run'[k].todo) \notin lost' =>
         \A t \in Behind(run'[k]) : RowsFor(t, run'[k].batch) \subseteq rows'[t]
  BY <1>2, <1>8, <1>9
<1>11. (\A k \in Ingesters : Stored(run[k]))'
  BY <1>10 DEF Stored, Holds, Behind, RowsFor
<1>12. StoreOK'
  BY <1>1 DEF StoreOK, InBucket
<1> QED BY <1>2, <1>4, <1>5, <1>6, <1>7, <1>11, <1>12 DEF IngestInv


\* What the model calls held, by process.
LEMMA HeldFacts ==
  /\ \A m : m \in Held <=> \E i \in Ingesters : Holds(run[i]) /\ m = First(run[i].todo)
  /\ \A i \in Ingesters, t \in Names : Past(i, t) <=> t \in Behind(run[i])
BY DEF Held, InHand, Past, Behind, Holds

\* A run that has read a manifest, field by field.
LEMMA ReadRecord ==
  ASSUME NEW r \in Run, NEW b \in SUBSET Line
  PROVE  LET s == [r EXCEPT !.pc = "insert", !.at = 1, !.batch = b] IN
         s \in Run /\ s.pc = "insert" /\ s.at = 1 /\ s.batch = b /\ s.todo = r.todo
<1> DEFINE s == [r EXCEPT !.pc = "insert", !.at = 1, !.batch = b]
<1>1. \A x \in Run : [x EXCEPT !.pc = "insert"] \in Run
  BY DEF Run, Steps
<1>2. \A x \in Run : [x EXCEPT !.at = 1] \in Run
  BY DEF Run
<1>3. \A x \in Run : [x EXCEPT !.batch = b] \in Run
  BY DEF Run
<1>4. s = [[[r EXCEPT !.pc = "insert"] EXCEPT !.at = 1] EXCEPT !.batch = b]
  BY DEF Run
<1>5. s \in Run
  BY <1>1, <1>2, <1>3, <1>4
<1>6. s.pc = "insert" /\ s.at = 1 /\ s.batch = b /\ s.todo = r.todo
  BY DEF Run
<1> QED BY <1>5, <1>6

LEMMA ReadStep ==
  ASSUME ConstantsAssumption, IngestInv, NEW i \in Ingesters, Read(i)
  PROVE  IngestInv'
<1> DEFINE r == run[i]
           m == First(r.todo)
<1>1. /\ r.pc = "read" /\ RunOK(r) /\ r \in Run /\ run \in [Ingesters -> Run]
      /\ RowsOK /\ StoreOK /\ OneMind /\ ConsumedHasRows
  BY DEF IngestInv, Read, RunOK
<1>2. m \in Manifests /\ bucket[m] \in SUBSET Records /\ bucket[m] \in SUBSET Content[m]
  BY <1>1, InHandFacts DEF StoreOK
<1>3. PICK unread \in SUBSET (bucket[m] \cap Unreadable) :
        /\ faults + Cardinality(unread) <= MaxFaults
        /\ faults' = faults + Cardinality(unread)
        /\ Becomes(i, [r EXCEPT !.pc = "insert", !.at = 1,
             !.batch = {<<x, IF x \in unread THEN NoWorkflow ELSE WorkflowOf[x]>> : x \in bucket[m]}])
  BY DEF Read
<1> DEFINE row(x) == <<x, IF x \in unread THEN NoWorkflow ELSE WorkflowOf[x]>>
           b == {row(x) : x \in bucket[m]}
           s == [r EXCEPT !.pc = "insert", !.at = 1, !.batch = b]
<1>4. /\ b \in SUBSET Line /\ OneRow(b) /\ bucket[m] = {l[1] : l \in b}
      /\ \A l \in b : l[1] \in Content[m] /\ Honest(l)
  <2>1. \A x \in bucket[m] : row(x) \in Line
    BY <1>2 DEF Line, Workflows
  <2>2. \A x \in bucket[m] : row(x)[1] = x /\ Honest(row(x))
    BY DEF Honest
  <2> HIDE DEF row
  <2> QED BY <1>2, <2>1, <2>2 DEF OneRow
<1> HIDE DEF b
<1>5. s \in Run /\ s.pc = "insert" /\ s.at = 1 /\ s.batch = b /\ s.todo = r.todo
  <2> HIDE DEF r
  <2> QED BY <1>1, <1>4, ReadRecord
<1>6. Becomes(i, s)
  BY <1>3 DEF b
<1> HIDE DEF s, r
<1>7. /\ run'[i] = s /\ \A k \in Ingesters \ {i} : run'[k] = run[k]
      /\ run' \in [Ingesters -> Run]
  BY <1>1, <1>5, <1>6, BecomesValue
<1>8. /\ UNCHANGED <<bucket, consumed, engine, rows, repeats, drifts>>
      /\ lost' = IF Blobs(m) # {} /\ m \in consumed \cup Held THEN lost \cup {m} ELSE lost
  BY DEF Read, Blobs, m, r
<1>9. lost \subseteq lost' /\ lost' \subseteq Manifests
  BY <1>1, <1>2, <1>8 DEF StoreOK
<1>10. RunOK(s)
  BY <1>1, <1>4, <1>5 DEF RunOK, Holds
<1>11. \A k \in Ingesters : RunOK(run'[k])
  BY <1>7, <1>10 DEF IngestInv
<1>12. (\A k \in Ingesters : RunOK(run[k]))'
  BY <1>8, <1>9, <1>11 DEF RunOK, Holds, InBucket, OneRow, Honest
<1>13. Behind(s) = {}
  BY <1>5 DEF Behind
<1>14. \A k \in Ingesters : Stored(run'[k])
  BY <1>7, <1>13 DEF Stored, IngestInv
<1>15. (\A k \in Ingesters : Stored(run[k]))'
  BY <1>8, <1>9, <1>14 DEF Stored, Holds, Behind, RowsFor
<1>16. OneMind'
  <2>1. SUFFICES ASSUME NEW k \in Ingesters, Holds(run'[k]), Blobs(First(run'[k].todo)) # {},
                        First(run'[k].todo) \notin lost'
                 PROVE  /\ First(run'[k].todo) \notin consumed
                        /\ \A j \in Ingesters \ {k} :
                             Holds(run'[j]) => First(run'[j].todo) # First(run'[k].todo)
    BY <1>8 DEF OneMind, Holds, Blobs
  <2>2. First(s.todo) = m
    BY <1>5
  <2>3. CASE k = i
    <3>1. m \notin consumed /\ m \notin Held
      BY <1>7, <1>8, <2>1, <2>2, <2>3
    <3> QED BY <1>7, <2>2, <2>3, <3>1, HeldFacts
  <2>4. CASE k # i
    <3>1. /\ Holds(run[k]) /\ Blobs(First(run[k].todo)) # {} /\ First(run[k].todo) \notin lost
      BY <1>7, <1>9, <2>1, <2>4
    <3>2. /\ First(run[k].todo) \notin consumed
          /\ \A j \in Ingesters \ {k} : Holds(run[j]) => First(run[j].todo) # First(run[k].todo)
      BY <1>1, <3>1 DEF OneMind
    <3>3. m # First(run[k].todo)
      <4>1. First(run[k].todo) \in Held
        BY <3>1, HeldFacts
      <4> QED BY <1>7, <1>8, <2>1, <2>4, <3>1, <4>1
    <3> QED BY <1>7, <2>2, <2>4, <3>2, <3>3
  <2> QED BY <2>3, <2>4
<1>17. ConsumedHasRows'
  BY <1>1, <1>8, <1>9 DEF ConsumedHasRows, HasRow, RowsFor
<1>18. RowsOK'
  BY <1>1, <1>8 DEF RowsOK, RowOf, Line, Workflows, OneRow, Honest
<1>19. faults' \in 0 .. MaxFaults
  <2>1. IsFiniteSet(unread)
    <3>1. IsFiniteSet(Content[m]) /\ unread \in SUBSET Content[m]
      BY <1>2 DEF ConstantsAssumption
    <3> QED BY <3>1, FS_Subset
  <2>2. Cardinality(unread) \in Nat
    BY <2>1, FS_CardinalityType
  <2> QED BY <1>1, <1>3, <2>2 DEF StoreOK, ConstantsAssumption
<1>20. StoreOK'
  BY <1>1, <1>8, <1>9, <1>19 DEF StoreOK, InBucket
<1> QED BY <1>7, <1>12, <1>15, <1>16, <1>17, <1>18, <1>20 DEF IngestInv

LEMMA MarkStep ==
  ASSUME ConstantsAssumption, IngestInv, NEW i \in Ingesters, Mark(i)
  PROVE  IngestInv'
<1> DEFINE r == run[i]
           m == First(r.todo)
           left == r.todo \ {m}
           s == IF left = {} THEN Idle
                ELSE [r EXCEPT !.pc = "read", !.todo = left, !.batch = {}]
<1>1. /\ r.pc = "mark" /\ RunOK(r) /\ r \in Run /\ run \in [Ingesters -> Run]
      /\ RowsOK /\ StoreOK /\ OneMind /\ ConsumedHasRows /\ Stored(r)
  BY DEF IngestInv, Mark, RunOK
<1>2. m \in InBucket /\ r.todo \subseteq InBucket
  BY <1>1, InHandFacts DEF RunOK
<1>3. /\ consumed' = consumed \cup {m} /\ Becomes(i, s)
      /\ UNCHANGED <<bucket, engine, rows, lost, repeats, drifts, faults>>
  BY DEF Mark
<1>4. RunOK(s) /\ ~Holds(s) /\ s \in Run
  <2>1. CASE left = {}
    BY <2>1, IdleOK DEF RunOK
  <2>2. CASE left # {}
    <3>1. left \in SUBSET Manifests /\ left \subseteq InBucket
      BY <1>2 DEF InBucket
    <3> HIDE DEF left
    <3>2. s \in Run
      BY <1>1, <2>2, <3>1 DEF Run, Steps
    <3>3. s.pc = "read" /\ s.todo = left
      BY <1>1, <2>2 DEF Run
    <3> HIDE DEF s
    <3> QED BY <2>2, <3>1, <3>2, <3>3 DEF RunOK, Holds
  <2> QED BY <2>1, <2>2
<1> HIDE DEF s, left
<1>5. /\ run'[i] = s /\ \A k \in Ingesters \ {i} : run'[k] = run[k]
      /\ run' \in [Ingesters -> Run]
  BY <1>1, <1>3, <1>4, BecomesValue
<1>6. \A k \in Ingesters : RunOK(run'[k]) /\ Stored(run'[k])
  BY <1>4, <1>5 DEF IngestInv, Stored
<1>7. (\A k \in Ingesters : RunOK(run[k]))'
  BY <1>3, <1>6 DEF RunOK, Holds, InBucket, OneRow, Honest
<1>8. (\A k \in Ingesters : Stored(run[k]))'
  BY <1>3, <1>6 DEF Stored, Holds, Behind, RowsFor
<1>9. OneMind'
  <2>1. SUFFICES ASSUME NEW k \in Ingesters, Holds(run'[k]), Blobs(First(run'[k].todo)) # {},
                        First(run'[k].todo) \notin lost
                 PROVE  /\ First(run'[k].todo) \notin consumed \cup {m}
                        /\ \A j \in Ingesters \ {k} :
                             Holds(run'[j]) => First(run'[j].todo) # First(run'[k].todo)
    BY <1>3 DEF OneMind, Holds, Blobs
  <2>2. k # i /\ run'[k] = run[k]
    BY <1>4, <1>5, <2>1
  <2>3. /\ First(run[k].todo) \notin consumed
        /\ \A j \in Ingesters \ {k} : Holds(run[j]) => First(run[j].todo) # First(run[k].todo)
    BY <1>1, <2>1, <2>2 DEF OneMind
  <2>4. First(run[k].todo) # m
    BY <1>1, <2>2, <2>3 DEF Holds
  <2> QED BY <1>4, <1>5, <2>2, <2>3, <2>4
<1>10. ASSUME m \notin lost, NEW x \in bucket[m] PROVE HasRow(x)
  <2>1. Holds(r) /\ Behind(r) = Names
    BY <1>1 DEF Holds, Behind
  <2>2. PICK l \in r.batch : l[1] = x
    BY <1>1, <1>10, <2>1 DEF RunOK
  <2>3. r.batch \in SUBSET Line
    BY <1>1 DEF Run
  <2>4. \A t \in Names : RowsFor(t, {l}) \subseteq RowsFor(t, r.batch)
    BY <2>2, <2>3, RowsForFacts
  <2>5. \A t \in Names : RowsFor(t, r.batch) \subseteq rows[t]
    BY <1>1, <1>10, <2>1 DEF Stored
  <2>6. l \in rows["raw_artifacts"]
    BY <2>2, <2>3, <2>5, TablesFacts, RowsForFacts
  <2> QED BY <2>2, <2>4, <2>5, <2>6 DEF HasRow
<1>11. ConsumedHasRows'
  <2>1. \A c \in (consumed \cup {m}) \ lost : \A x \in bucket[c] : HasRow(x)
    BY <1>1, <1>10 DEF ConsumedHasRows
  <2> QED BY <1>3, <2>1 DEF ConsumedHasRows, HasRow, RowsFor
<1>12. RowsOK'
  BY <1>1, <1>3 DEF RowsOK, RowOf, Line, Workflows, OneRow, Honest
<1>13. StoreOK'
  BY <1>1, <1>2, <1>3 DEF StoreOK, InBucket
<1> QED BY <1>5, <1>7, <1>8, <1>9, <1>11, <1>12, <1>13 DEF IngestInv

LEMMA DropStep ==
  ASSUME ConstantsAssumption, IngestInv, NEW i \in Ingesters, Drop(i)
  PROVE  IngestInv'
<1> DEFINE r == run[i]
<1>1. /\ r.pc = "drop" /\ RunOK(r) /\ r \in Run /\ run \in [Ingesters -> Run]
      /\ RowsOK /\ StoreOK /\ OneMind
  BY DEF IngestInv, Drop, RunOK
<1>2. PICK t \in r.stale :
       /\ engine' = [engine EXCEPT ![t] = "absent"]
       /\ rows' = [rows EXCEPT ![t] = {}]
       /\ lost' = lost \cup consumed
                      \cup UNION {InHand(k) : k \in {j \in Ingesters : Past(j, t)}}
       /\ Becomes(i, [r EXCEPT !.stale = @ \ {t},
                        !.pc = IF r.stale = {t} THEN "recreate" ELSE "drop"])
  BY DEF Drop
<1>3. UNCHANGED <<bucket, consumed, repeats, drifts, faults>> /\ t \in Names
  BY <1>1 DEF Drop, Run
<1> DEFINE pc == IF r.stale = {t} THEN "recreate" ELSE "drop"
           s == [r EXCEPT !.stale = @ \ {t}, !.pc = pc]
<1>4. pc \in {"recreate", "drop"}
  OBVIOUS
<1>5. Becomes(i, s)
  BY <1>2
<1> HIDE DEF pc
<1>6. s \in Run /\ s.pc = pc /\ s.todo = r.todo
  BY <1>1, <1>4 DEF Run, Steps
<1> HIDE DEF s
<1>7. RunOK(s) /\ ~Holds(s)
  BY <1>1, <1>4, <1>6 DEF RunOK, Holds
<1>8. /\ run'[i] = s /\ \A k \in Ingesters \ {i} : run'[k] = run[k]
      /\ run' \in [Ingesters -> Run]
  BY <1>1, <1>5, <1>6, BecomesValue
<1>9. /\ lost \subseteq lost' /\ consumed \subseteq lost'
      /\ \A k \in Ingesters : Holds(run[k]) /\ t \in Behind(run[k]) => First(run[k].todo) \in lost'
  <2>1. ASSUME NEW k \in Ingesters, Holds(run[k]), t \in Behind(run[k])
        PROVE  First(run[k].todo) \in lost'
    <3>1. Past(k, t)
      BY <1>3, <2>1, HeldFacts
    <3>2. InHand(k) = {First(run[k].todo)}
      BY <2>1 DEF InHand, Holds
    <3> QED BY <1>2, <3>1, <3>2
  <2> QED BY <1>2, <2>1
<1>10. lost' \subseteq Manifests
  <2>1. \A k \in Ingesters : InHand(k) \subseteq Manifests
    <3>1. ASSUME NEW k \in Ingesters, Holds(run[k]) PROVE First(run[k].todo) \in Manifests
      BY <3>1, InHandFacts DEF IngestInv, Holds
    <3> QED BY <3>1 DEF InHand, Holds
  <2> QED BY <1>1, <1>2, <2>1 DEF StoreOK, InBucket
<1>11. DOMAIN rows' = Names /\ rows'[t] = {} /\ \A u \in Names \ {t} : rows'[u] = rows[u]
  BY <1>1, <1>2, <1>3 DEF RowsOK
<1>12. \A k \in Ingesters : RunOK(run'[k])
  BY <1>7, <1>8 DEF IngestInv
<1>13. (\A k \in Ingesters : RunOK(run[k]))'
  BY <1>3, <1>9, <1>12 DEF RunOK, Holds, InBucket, OneRow, Honest
<1>14. ASSUME NEW k \in Ingesters, Holds(run'[k]), First(run'[k].todo) \notin lost',
              NEW u \in Behind(run'[k])
       PROVE  RowsFor(u, run'[k].batch) \subseteq rows'[u]
  <2>1. run'[k] = run[k] /\ Stored(run[k])
    BY <1>7, <1>8, <1>14 DEF IngestInv
  <2>2. u # t /\ u \in Names
    BY <1>9, <1>14, <2>1 DEF Behind
  <2> QED BY <1>9, <1>11, <1>14, <2>1, <2>2 DEF Stored
<1>15. (\A k \in Ingesters : Stored(run[k]))'
  BY <1>14 DEF Stored, Holds, Behind, RowsFor
<1>16. OneMind'
  BY <1>1, <1>3, <1>7, <1>8, <1>9 DEF OneMind, Holds, Blobs
<1>17. ConsumedHasRows'
  BY <1>3, <1>9 DEF ConsumedHasRows
<1>18. RowsOK'
  <2>1. \A u \in Names : rows'[u] \subseteq RowOf(u)
    BY <1>1, <1>11 DEF RowsOK
  <2>2. OneRow(rows'["raw_artifacts"]) /\ \A l \in rows'["raw_artifacts"] : Honest(l)
    BY <1>1, <1>11, TablesFacts DEF RowsOK, OneRow
  <2> QED BY <1>11, <2>1, <2>2 DEF RowsOK, RowOf, Line, Workflows, OneRow, Honest
<1>19. StoreOK'
  BY <1>1, <1>2, <1>3, <1>10 DEF StoreOK, InBucket
<1> QED BY <1>8, <1>13, <1>15, <1>16, <1>17, <1>18, <1>19 DEF IngestInv


\* A flush: the part of one manifest appears or is replaced by the whole.
LEMMA BucketStep ==
  ASSUME ConstantsAssumption, IngestInv, NEW m \in Manifests, NEW lines \in SUBSET Content[m],
         lines # {}, bucket' = [bucket EXCEPT ![m] = lines],
         UNCHANGED <<consumed, engine, rows, run, drifts, faults>>,
         repeats' \in 0 .. MaxRepeats,
         lost \subseteq lost', lost' \subseteq Manifests,
         m \in consumed \cup Held => m \in lost'
  PROVE  IngestInv'
<1>1. RowsOK /\ StoreOK /\ OneMind /\ ConsumedHasRows
  BY DEF IngestInv
<1>2. \A k \in Manifests \ {m} : bucket'[k] = bucket[k]
  BY <1>1 DEF StoreOK
<1>3. bucket'[m] = lines
  BY <1>1 DEF StoreOK
<1>4. InBucket \subseteq InBucket'
  BY <1>2, <1>3 DEF InBucket
<1>5. StoreOK'
  <2>1. bucket' \in [Manifests -> SUBSET Records]
    BY <1>1 DEF StoreOK, ConstantsAssumption
  <2>2. \A k \in Manifests : bucket'[k] \subseteq Content[k]
    BY <1>1, <1>2, <1>3 DEF StoreOK
  <2> QED BY <1>1, <1>4, <2>1, <2>2 DEF StoreOK
<1>6. ASSUME NEW i \in Ingesters, Holds(run[i]), First(run[i].todo) \notin lost'
      PROVE  /\ First(run[i].todo) \in Manifests \ {m}
             /\ bucket'[First(run[i].todo)] = bucket[First(run[i].todo)]
  <2>1. First(run[i].todo) \in Held
    BY <1>6, HeldFacts
  <2>2. First(run[i].todo) \in Manifests
    BY <1>6, InHandFacts DEF IngestInv, Holds
  <2> QED BY <1>2, <1>6, <2>1, <2>2
<1>7. ASSUME NEW i \in Ingesters
      PROVE  /\ run[i] \in Run /\ run[i].todo \subseteq InBucket'
             /\ run[i].pc \in {"read", "insert", "mark"} => run[i].todo # {}
             /\ Holds(run[i]) =>
                  /\ \A l \in run[i].batch : l[1] \in Content[First(run[i].todo)] /\ Honest(l)
                  /\ OneRow(run[i].batch)
                  /\ First(run[i].todo) \notin lost' =>
                       bucket'[First(run[i].todo)] = {l[1] : l \in run[i].batch}
  <2>1. RunOK(run[i])
    BY DEF IngestInv
  <2>2. Holds(run[i]) /\ First(run[i].todo) \notin lost' =>
          bucket'[First(run[i].todo)] = {l[1] : l \in run[i].batch}
    BY <1>6, <2>1 DEF RunOK
  <2> QED BY <1>4, <2>1, <2>2 DEF RunOK
<1>8. (\A i \in Ingesters : RunOK(run[i]))'
  BY <1>7 DEF RunOK, Holds, OneRow, Honest
<1>9. (\A i \in Ingesters : Stored(run[i]))'
  BY DEF IngestInv, Stored, Holds, Behind, RowsFor
<1>10. OneMind'
  BY <1>1, <1>6 DEF OneMind, Holds, Blobs
<1>11. ConsumedHasRows'
  <2>1. \A c \in consumed \ lost' : c \in Manifests \ {m}
    BY <1>1 DEF StoreOK, InBucket
  <2>2. \A c \in consumed \ lost' : \A x \in bucket'[c] : HasRow(x)
    BY <1>1, <1>2, <2>1 DEF ConsumedHasRows
  <2> QED BY <2>2 DEF ConsumedHasRows, HasRow, RowsFor
<1>12. RowsOK'
  BY <1>1 DEF RowsOK, RowOf, Line, Workflows, OneRow, Honest
<1>13. (run \in [Ingesters -> Run])'
  BY DEF IngestInv
<1> QED BY <1>5, <1>8, <1>9, <1>10, <1>11, <1>12, <1>13 DEF IngestInv

LEMMA WorldStep ==
  ASSUME ConstantsAssumption, IngestInv,
         \/ \E m \in Manifests : Put(m) \/ PutUncertain(m) \/ PutAgain(m)
         \/ \E t \in Names : Drift(t)
  PROVE  IngestInv'
<1>1. RowsOK /\ StoreOK /\ OneMind /\ ConsumedHasRows
  BY DEF IngestInv
<1>2. ASSUME NEW m \in Manifests, bucket[m] = {} PROVE m \notin consumed \cup Held
  <2>1. \A k \in Held : bucket[k] # {}
    BY HeldFacts, InHandFacts DEF IngestInv, Holds
  <2> QED BY <1>1, <1>2, <2>1 DEF StoreOK, InBucket
<1>3. ASSUME NEW m \in Manifests, Put(m) PROVE IngestInv'
  <2>1. /\ bucket[m] = {} /\ bucket' = [bucket EXCEPT ![m] = Content[m]]
        /\ UNCHANGED <<consumed, engine, rows, run, lost, repeats, drifts, faults>>
    BY <1>3 DEF Put
  <2>2. Content[m] # {}
    BY DEF ConstantsAssumption
  <2>3. lost' = lost /\ lost' \subseteq Manifests /\ repeats' \in 0 .. MaxRepeats
    BY <1>1, <2>1 DEF StoreOK
  <2> QED BY <1>2, <2>1, <2>2, <2>3, BucketStep
<1>4. ASSUME NEW m \in Manifests, PutUncertain(m) PROVE IngestInv'
  <2>1. PICK some \in (SUBSET Content[m]) \ {{}, Content[m]} :
          bucket' = [bucket EXCEPT ![m] = some]
    BY <1>4 DEF PutUncertain
  <2>2. /\ bucket[m] = {} /\ repeats < MaxRepeats /\ repeats' = repeats + 1
        /\ UNCHANGED <<consumed, engine, rows, run, lost, drifts, faults>>
    BY <1>4 DEF PutUncertain
  <2>3. lost' = lost /\ lost' \subseteq Manifests /\ repeats' \in 0 .. MaxRepeats
    BY <1>1, <2>2 DEF StoreOK, ConstantsAssumption
  <2> QED BY <1>2, <2>1, <2>2, <2>3, BucketStep
<1>5. ASSUME NEW m \in Manifests, PutAgain(m) PROVE IngestInv'
  <2>1. /\ bucket' = [bucket EXCEPT ![m] = Content[m]]
        /\ lost' = lost \cup ({m} \cap (consumed \cup Held))
        /\ UNCHANGED <<consumed, engine, rows, run, repeats, drifts, faults>>
    BY <1>5 DEF PutAgain
  <2>2. Content[m] # {}
    BY DEF ConstantsAssumption
  <2>3. /\ lost \subseteq lost' /\ lost' \subseteq Manifests /\ repeats' \in 0 .. MaxRepeats
        /\ m \in consumed \cup Held => m \in lost'
    BY <1>1, <2>1 DEF StoreOK
  <2> QED BY <2>1, <2>2, <2>3, BucketStep
<1>6. ASSUME NEW t \in Names, Drift(t) PROVE IngestInv'
  <2>1. /\ drifts < MaxDrifts /\ drifts' = drifts + 1
        /\ engine' = [engine EXCEPT ![t] = "stale"]
        /\ UNCHANGED <<bucket, consumed, rows, run, lost, repeats, faults>>
    BY <1>6 DEF Drift
  <2>2. StoreOK'
    BY <1>1, <2>1 DEF StoreOK, InBucket, ConstantsAssumption
  <2>3. RowsOK' /\ OneMind' /\ ConsumedHasRows' /\ (run \in [Ingesters -> Run])'
    BY <1>1, <2>1 DEF IngestInv, RowsOK, RowOf, Line, Workflows, OneRow, Honest, OneMind, Holds,
                      Blobs, ConsumedHasRows, HasRow, RowsFor
  <2>4. (\A i \in Ingesters : RunOK(run[i]))'
    BY <2>1 DEF IngestInv, RunOK, Holds, InBucket, OneRow, Honest
  <2>5. (\A i \in Ingesters : Stored(run[i]))'
    BY <2>1 DEF IngestInv, Stored, Holds, Behind, RowsFor
  <2> QED BY <2>2, <2>3, <2>4, <2>5 DEF IngestInv
<1> QED BY <1>3, <1>4, <1>5, <1>6

\* The steps of a run that leave it with nothing in hand.
LEMMA QuietSteps ==
  ASSUME ConstantsAssumption, IngestInv, NEW i \in Ingesters,
         \/ Begin(i) \/ Compare(i) \/ Recreate(i) \/ List(i) \/ NoTable(i)
         \/ Abort(i) /\ rows' = rows
  PROVE  IngestInv'
<1> DEFINE r == run[i]
<1>1. RunOK(r) /\ StoreOK /\ r \in Run /\ r.todo \subseteq InBucket
  BY DEF IngestInv, RunOK
<1>2. \/ UNCHANGED engine
      \/ CreateAbsent
  BY DEF Begin, Compare, Recreate, List, NoTable, Abort
<1>3. engine' \in [Names -> {"absent", "current", "stale"}]
  BY <1>1, <1>2 DEF StoreOK, CreateAbsent
<1>4. /\ UNCHANGED <<bucket, rows, lost, consumed>>
      /\ UNCHANGED <<repeats, drifts>> /\ faults' \in 0 .. MaxFaults
  BY <1>1 DEF Begin, Compare, Recreate, List, NoTable, Abort, StoreOK, ConstantsAssumption
<1>5. \E s : Becomes(i, s) /\ RunOK(s) /\ ~Holds(s)
  <2>1. ASSUME NEW pc \in {"compare", "list"}
        PROVE  RunOK([r EXCEPT !.pc = pc]) /\ ~Holds([r EXCEPT !.pc = pc])
    <3> DEFINE s == [r EXCEPT !.pc = pc]
    <3>0. pc \in Steps
      BY DEF Steps
    <3>1. s \in Run /\ s.pc = pc /\ s.todo = r.todo
      <4> HIDE DEF r
      <4> QED BY <1>1, <3>0, GotoFacts
    <3> HIDE DEF s
    <3>2. RunOK(s) /\ ~Holds(s)
      BY <1>1, <3>1 DEF RunOK, Holds
    <3> QED BY <3>2 DEF s
  <2>2. CASE Begin(i) \/ Recreate(i)
    BY <2>1, <2>2 DEF Begin, Recreate, Goto
  <2>3. CASE Compare(i)
    <3> DEFINE stale == {t \in Names : engine[t] = "stale"}
               pc == IF stale = {} THEN "list" ELSE "drop"
               s == [r EXCEPT !.stale = stale, !.pc = pc]
    <3>1. Becomes(i, s)
      BY <2>3 DEF Compare
    <3>2. pc \in {"list", "drop"} /\ stale \in SUBSET Names
      OBVIOUS
    <3> HIDE DEF pc, stale
    <3>3. s \in Run /\ s.pc = pc /\ s.todo = r.todo
      BY <1>1, <3>2 DEF Run, Steps
    <3> HIDE DEF s
    <3>4. RunOK(s) /\ ~Holds(s)
      BY <1>1, <3>2, <3>3 DEF RunOK, Holds
    <3> QED BY <3>1, <3>4
  <2>4. CASE List(i) /\ New # {}
    <3> DEFINE todo == FirstFew(New)
               s == [r EXCEPT !.pc = "read", !.todo = todo]
    <3>1. Becomes(i, s)
      BY <2>4 DEF List
    <3>2. New \in SUBSET Manifests /\ New \subseteq InBucket
      BY DEF New, InBucket
    <3>3. todo \in SUBSET Manifests /\ todo # {} /\ todo \subseteq InBucket
      BY <2>4, <3>2, FirstFewFacts
    <3> HIDE DEF todo
    <3>4. s \in Run /\ s.pc = "read" /\ s.todo = todo
      BY <1>1, <3>3 DEF Run, Steps
    <3> HIDE DEF s
    <3>5. RunOK(s) /\ ~Holds(s)
      BY <3>3, <3>4 DEF RunOK, Holds
    <3> QED BY <3>1, <3>5
  <2>5. CASE (List(i) /\ New = {}) \/ NoTable(i) \/ Abort(i)
    BY <2>5, IdleOK DEF List, NoTable, Abort
  <2> QED BY <2>2, <2>3, <2>4, <2>5
<1> QED BY <1>3, <1>4, <1>5, QuietStep

LEMMA InsertStep ==
  ASSUME ConstantsAssumption, NoSharedBlob, IngestInv, NEW i \in Ingesters,
         Insert(i) \/ Abort(i)
  PROVE  IngestInv'
<1> DEFINE r == run[i]
<1>1. RunOK(r) /\ StoreOK /\ r \in Run
  BY DEF IngestInv, RunOK
<1>2. CASE Abort(i) /\ rows' = rows
  BY <1>2, QuietSteps
<1>3. CASE Abort(i) /\ rows' # rows
  <2>1. r.pc = "insert" /\ rows' = Inserted(i)
    BY <1>3 DEF Abort
  <2>2. Becomes(i, Idle) /\ UNCHANGED <<bucket, lost, consumed, engine, repeats, drifts>>
        /\ faults' \in 0 .. MaxFaults
    BY <1>1, <1>3 DEF Abort, StoreOK, ConstantsAssumption
  <2> QED BY <2>1, <2>2, IdleOK, InsertedStep
<1>4. CASE Insert(i)
  <2>1. /\ r.pc = "insert" /\ rows' = Inserted(i) /\ After(i)
        /\ UNCHANGED <<bucket, lost, consumed, engine, repeats, drifts>>
        /\ faults' \in 0 .. MaxFaults
    BY <1>1, <1>4 DEF Insert, StoreOK
  <2>2. r.at \in 1 .. 5
    BY <1>1 DEF Run
  <2>3. CASE r.at < 5
    <3> DEFINE s == [r EXCEPT !.at = @ + 1]
    <3>1. Becomes(i, s)
      BY <2>1, <2>3 DEF After
    <3>2. r.at + 1 \in 1 .. 5
      BY <2>2, <2>3
    <3>3. s \in Run /\ s.pc = r.pc /\ s.at = r.at + 1 /\ s.todo = r.todo /\ s.batch = r.batch
      BY <1>1, <3>2 DEF Run
    <3> HIDE DEF s
    <3>4. RunOK(s) /\ Behind(s) \subseteq Behind(r) \cup {Tables[r.at]}
      BY <1>1, <2>1, <3>3, BehindFacts DEF RunOK, Holds
    <3> QED BY <2>1, <3>1, <3>3, <3>4, InsertedStep
  <2>4. CASE ~(r.at < 5)
    <3> DEFINE s == [r EXCEPT !.pc = "mark"]
    <3>1. Becomes(i, s)
      BY <2>1, <2>4 DEF After
    <3>2. s \in Run /\ s.pc = "mark" /\ s.todo = r.todo /\ s.batch = r.batch
      BY <1>1 DEF Run, Steps
    <3>3. r.at = 5
      BY <2>2, <2>4
    <3> HIDE DEF s
    <3>4. RunOK(s) /\ Behind(s) \subseteq Behind(r) \cup {Tables[r.at]}
      BY <1>1, <2>1, <3>2, <3>3, BehindFacts DEF RunOK, Holds
    <3> QED BY <2>1, <3>1, <3>2, <3>4, InsertedStep
  <2> QED BY <2>3, <2>4
<1> QED BY <1>2, <1>3, <1>4

LEMMA IngestStep ==
  ASSUME ConstantsAssumption, NoSharedBlob, IngestInv, [Next]_vars
  PROVE  IngestInv'
<1>1. CASE UNCHANGED vars
  <2> USE <1>1 DEF vars
  <2>1. StoreOK' /\ RowsOK' /\ OneMind' /\ ConsumedHasRows' /\ (run \in [Ingesters -> Run])'
    BY DEF IngestInv, StoreOK, InBucket, RowsOK, RowOf, Line, Workflows, OneRow, Honest, OneMind,
           Holds, Blobs, ConsumedHasRows, HasRow, RowsFor
  <2>2. (\A i \in Ingesters : RunOK(run[i]))'
    BY DEF IngestInv, RunOK, Holds, InBucket, OneRow, Honest
  <2>3. (\A i \in Ingesters : Stored(run[i]))'
    BY DEF IngestInv, Stored, Holds, Behind, RowsFor
  <2> QED BY <2>1, <2>2, <2>3 DEF IngestInv
<1>2. CASE Next
  BY <1>2, QuietSteps, DropStep, ReadStep, InsertStep, MarkStep, WorldStep DEF Next, Proceed
<1> QED BY <1>1, <1>2

LEMMA IngestInit ==
  ASSUME ConstantsAssumption, Init
  PROVE  IngestInv
<1>1. \A i \in Ingesters : run[i] = Idle
  BY DEF Init
<1>2. StoreOK
  BY DEF Init, StoreOK, ConstantsAssumption, InBucket
<1>3. RowsOK
  BY TablesFacts DEF Init, RowsOK, OneRow
<1>4. run \in [Ingesters -> Run]
  BY IdleOK DEF Init, RunOK
<1>5. \A i \in Ingesters : RunOK(run[i]) /\ Stored(run[i]) /\ ~Holds(run[i])
  BY <1>1, IdleOK DEF Stored
<1>6. OneMind /\ ConsumedHasRows
  BY <1>5 DEF Init, OneMind, ConsumedHasRows
<1> QED BY <1>2, <1>3, <1>4, <1>5, <1>6 DEF IngestInv

----------------------------------------------------------------------------
\* The theorems.

\* The inductive invariant holds, whatever the ingesters, the fetchers that
\* flush and the releases that change an engine do, in any order.
THEOREM IngestInvHolds ==
  ASSUME NoSharedBlob
  PROVE  Spec => []IngestInv
<1> USE ConstantsAssumption
<1>1. Init => IngestInv
  BY IngestInit
<1>2. IngestInv /\ [Next]_vars => IngestInv'
  BY IngestStep
<1> QED BY <1>1, <1>2, PTL DEF Spec

\* Every variable has its type, and a run that reads, inserts or marks has a
\* manifest to do it with.
THEOREM Typed ==
  ASSUME NoSharedBlob
  PROVE  Spec => []TypeOK
<1>1. IngestInv => TypeOK
  BY DEF IngestInv, StoreOK, RowsOK, RunOK, InBucket, TypeOK
<1> QED BY <1>1, IngestInvHolds, PTL

\* What is marked consumed and not lost is in every table: raw_artifacts has one
\* row for each line and the derived tables what that row names, for any number
\* of ingesters that overlap, die between two tables, load a manifest twice or
\* have a table dropped under them.
THEOREM ConsumedLoaded ==
  ASSUME NoSharedBlob
  PROVE  Spec => []ConsumedIsLoaded
<1>1. ASSUME RowsOK, NEW r \in Records, HasRow(r) PROVE Loaded(r)
  <2>1. PICK l \in rows["raw_artifacts"] :
          l[1] = r /\ \A t \in Names : RowsFor(t, {l}) \subseteq rows[t]
    BY <1>1 DEF HasRow
  <2>2. l \in Line
    BY <1>1, TablesFacts DEF RowsOK, RowOf
  <2>3. l = <<r, l[2]>> /\ l[2] \in Workflows \cup {NoWorkflow}
    BY <2>1, <2>2 DEF Line
  <2>4. {k \in rows["raw_artifacts"] : k[1] = r} = {<<r, l[2]>>}
    BY <1>1, <2>1, <2>3 DEF RowsOK, OneRow
  <2>5. ASSUME l[2] # NoWorkflow
        PROVE  /\ <<r, l[2]>> \in rows["derived_artifact_workflows"]
               /\ \A t \in {"derived_workflows", "derived_workflow_nodes",
                            "derived_workflow_bindings"} : l[2] \in rows[t]
    <3>1. /\ "derived_artifact_workflows" \in Names
          /\ {"derived_workflows", "derived_workflow_nodes",
              "derived_workflow_bindings"} \subseteq Names
      <4>1. /\ Tables[2] = "derived_workflows" /\ Tables[3] = "derived_artifact_workflows"
            /\ Tables[4] = "derived_workflow_nodes" /\ Tables[5] = "derived_workflow_bindings"
        BY DEF Tables
      <4>2. \A n \in 1 .. 5 : Tables[n] \in Names
        BY TablesFacts
      <4>3. 2 \in 1 .. 5 /\ 3 \in 1 .. 5 /\ 4 \in 1 .. 5 /\ 5 \in 1 .. 5
        OBVIOUS
      <4> QED BY <4>1, <4>2, <4>3
    <3>2. /\ RowsFor("derived_artifact_workflows", {l}) = {l}
          /\ \A t \in {"derived_workflows", "derived_workflow_nodes",
                       "derived_workflow_bindings"} : RowsFor(t, {l}) = {l[2]}
      <4>1. {x \in {l} : x[2] # NoWorkflow} = {l}
        BY <2>5
      <4> QED BY <4>1 DEF RowsFor
    <3> QED BY <2>1, <2>3, <3>1, <3>2
  <2> QED BY <2>3, <2>4, <2>5 DEF Loaded
<1>2. IngestInv => ConsumedIsLoaded
  <2>1. SUFFICES ASSUME IngestInv, NEW m \in consumed \ lost, NEW r \in bucket[m] PROVE Loaded(r)
    BY DEF ConsumedIsLoaded
  <2>2. RowsOK /\ HasRow(r) /\ m \in Manifests /\ bucket[m] \in SUBSET Records
    BY <2>1 DEF IngestInv, ConsumedHasRows, StoreOK, InBucket
  <2> QED BY <1>1, <2>2
<1> QED BY <1>2, IngestInvHolds, PTL

\* What can cost a row for good is a changed engine, a repeated part or a blob
\* that cannot be read, and nothing else: without them a rebuild loses nothing.
THEOREM OtherwiseNothingIsLost ==
  ASSUME MaxDrifts = 0, MaxRepeats = 0, Unreadable = {}
  PROVE  Spec => []RebuildLosesNothing
<1> DEFINE Unchanged == \A t \in Names : engine[t] # "stale"
           Whole     == \A m \in Manifests : bucket[m] \in {{}, Content[m]}
           NoDrop    == \A i \in Ingesters : run[i].stale = {}
           J == lost = {} /\ Unchanged /\ Whole /\ NoDrop
<1> USE ConstantsAssumption
<1>0. NoSharedBlob
  BY DEF NoSharedBlob
<1>1. Init => J
  BY DEF Init, Idle
<1>2. IngestInv /\ J /\ [Next]_vars => J'
  <2> SUFFICES ASSUME IngestInv, J, Next PROVE J'
    BY DEF vars
  <2>1. StoreOK /\ run \in [Ingesters -> Run]
    BY DEF IngestInv
  <2>2. ASSUME NEW i \in Ingesters, NEW r, Becomes(i, r), r.stale = {} PROVE NoDrop'
    BY <2>1, <2>2 DEF Becomes
  <2>3. Idle.stale = {}
    BY DEF Idle
  <2>4. ASSUME NEW i \in Ingesters, Begin(i) \/ Recreate(i) PROVE J'
    <3>1. run[i].stale = {} /\ run[i] \in Run
      BY <2>1
    <3>2. NoDrop'
      BY <2>2, <2>4, <3>1 DEF Begin, Recreate, Goto, Run
    <3>3. Unchanged'
      BY <2>4 DEF Begin, Recreate, CreateAbsent
    <3> QED BY <2>4, <3>2, <3>3 DEF Begin, Recreate
  <2>5. ASSUME NEW i \in Ingesters, Compare(i) PROVE J'
    <3>1. {t \in Names : engine[t] = "stale"} = {}
      OBVIOUS
    <3>2. [run[i] EXCEPT !.stale = {}, !.pc = "list"].stale = {}
      BY <2>1 DEF Run
    <3>3. NoDrop'
      BY <2>2, <2>5, <3>1, <3>2 DEF Compare
    <3> QED BY <2>5, <3>3 DEF Compare
  <2>6. ASSUME NEW i \in Ingesters, Drop(i) PROVE FALSE
    BY <2>6 DEF Drop
  <2>7. ASSUME NEW i \in Ingesters, List(i) \/ NoTable(i) \/ Abort(i) \/ Mark(i) PROVE J'
    <3>1. run[i].stale = {} /\ run[i] \in Run
      BY <2>1
    <3>2. NoDrop'
      BY <2>2, <2>3, <2>7, <3>1 DEF List, NoTable, Abort, Mark, Run
    <3> QED BY <2>7, <3>2 DEF List, NoTable, Abort, Mark
  <2>8. ASSUME NEW i \in Ingesters, Read(i) PROVE J'
    <3>1. run[i].stale = {} /\ run[i] \in Run
      BY <2>1
    <3>2. NoDrop'
      BY <2>2, <2>8, <3>1 DEF Read, Run
    <3>3. lost' = lost
      BY <2>8 DEF Read
    <3> QED BY <2>8, <3>2, <3>3 DEF Read
  <2>9. ASSUME NEW i \in Ingesters, Insert(i) PROVE J'
    <3>1. run[i].stale = {} /\ run[i] \in Run
      BY <2>1
    <3>2. NoDrop'
      BY <2>2, <2>9, <3>1 DEF Insert, After, Run
    <3> QED BY <2>9, <3>2 DEF Insert
  <2>10. ASSUME NEW m \in Manifests, Put(m) PROVE J'
    BY <2>1, <2>10 DEF Put, StoreOK
  <2>11. ASSUME NEW m \in Manifests, PutUncertain(m) PROVE FALSE
    BY <2>1, <2>11 DEF PutUncertain, StoreOK
  <2>12. ASSUME NEW m \in Manifests, PutAgain(m) PROVE FALSE
    BY <2>12 DEF PutAgain
  <2>13. ASSUME NEW t \in Names, Drift(t) PROVE FALSE
    BY <2>1, <2>13 DEF Drift, StoreOK
  <2> QED BY <2>4, <2>5, <2>6, <2>7, <2>8, <2>9, <2>10, <2>11, <2>12, <2>13 DEF Next, Proceed
<1>3. J /\ ConsumedIsLoaded => RebuildLosesNothing
  BY DEF ConsumedIsLoaded, RebuildLosesNothing
<1>4. Spec => []IngestInv /\ []ConsumedIsLoaded
  BY <1>0, IngestInvHolds, ConsumedLoaded, PTL
<1> QED BY <1>1, <1>2, <1>3, <1>4, PTL DEF Spec
=============================================================================
