------------------------------- MODULE Ingest -------------------------------
(***************************************************************************)
(* `lake ingest`: reconcile the ClickHouse tables, list the manifests in   *)
(* the bucket that are not in the consumed set, and for each, in key       *)
(* order, read it, derive its rows, insert them table by table and mark    *)
(* it consumed.  Any call may raise and the run may be killed at any time. *)
(*                                                                         *)
(* Keys embed a random uuid, so they are numbers that arrive in any order. *)
(* The tables are ReplacingMergeTrees: a row replaces the one with its key.*)
(***************************************************************************)
EXTENDS Naturals, FiniteSets

CONSTANTS
  Ingesters,    \* pods that may run `lake ingest`
  Manifests,    \* manifest keys, in sort order
  Records,      \* manifest lines
  Content,      \* manifest -> the lines it comes to hold
  NoWorkflow,   \* the empty workflow_id
  WorkflowOf,   \* line -> hash of the workflow in its payload; NoWorkflow
                \* when there is none, or derive raises on it
  Unreadable,   \* lines whose blob a read of the bucket may fail to return
  Limit,        \* --limit: most manifests a run takes
  MaxRepeats,   \* bound: uncertain flushes that were repeated
  MaxDrifts,    \* bound: changes of a table's engine in schema.sql
  MaxFaults     \* bound: calls that raise, blobs that cannot be read, and kills

Workflows == {WorkflowOf[r] : r \in Records} \ {NoWorkflow}

\* TABLES, in the order transform's dict keeps and run inserts.
Tables == <<"raw_artifacts", "derived_workflows", "derived_artifact_workflows",
            "derived_workflow_nodes", "derived_workflow_bindings">>
Names  == {Tables[n] : n \in 1 .. 5}

ASSUME ConstantsAssumption ==
  /\ Manifests \subseteq Nat \ {0} /\ Limit \in Nat \ {0}
  /\ Content \in [Manifests -> SUBSET Records]
  /\ \A m \in Manifests : Content[m] # {} /\ IsFiniteSet(Content[m])
  /\ Unreadable \subseteq Records
  /\ MaxRepeats \in Nat /\ MaxDrifts \in Nat /\ MaxFaults \in Nat

VARIABLES
  bucket,    \* manifest -> lines the object holds, {} when there is none
  consumed,  \* ingest_manifest
  engine,    \* table -> "absent", "current" or, since schema.sql changed, "stale"
  rows,      \* table -> its rows
  run,       \* each ingester's process
  lost,      \* auxiliary: manifests of which a rebuild, a repeated part or a blob
             \* that one of two runs could not read may cost rows for good
  repeats, drifts, faults

vars == <<bucket, consumed, engine, rows, run, lost, repeats, drifts, faults>>

\* A raw row is a line with its workflow_id, a link a workflow with a line;
\* the other tables have the rows of a workflow.
Line  == Records \X (Workflows \cup {NoWorkflow})
RowOf(t) == CASE t = "raw_artifacts"              -> Line
              [] t = "derived_artifact_workflows" -> Records \X Workflows
              [] OTHER                            -> Workflows

Steps == {"idle", "compare", "drop", "recreate", "list", "read", "insert", "mark"}
Run == [pc : Steps, stale : SUBSET Names, todo : SUBSET Manifests,
        batch : SUBSET Line, at : 1 .. 5]

Idle == [pc |-> "idle", stale |-> {}, todo |-> {}, batch |-> {}, at |-> 1]

Init ==
  /\ bucket = [m \in Manifests |-> {}] /\ consumed = {}
  /\ engine = [t \in Names |-> "absent"] /\ rows = [t \in Names |-> {}]
  /\ run = [i \in Ingesters |-> Idle] /\ lost = {}
  /\ repeats = 0 /\ drifts = 0 /\ faults = 0

Becomes(i, r) == run' = [run EXCEPT ![i] = r]
Goto(i, s)    == Becomes(i, [run[i] EXCEPT !.pc = s])

----------------------------------------------------------------------------
\* ensure_schema.

\* Mutant of CreateAbsent: nothing creates the tables, as before ensure_schema.
CreateNothing == engine' = engine

\* CREATE TABLE IF NOT EXISTS takes any engine for the one it wants.
CreateAbsent ==
  engine' = [t \in Names |-> IF engine[t] = "absent" THEN "current" ELSE engine[t]]

Begin(i) ==
  /\ run[i].pc = "idle"
  /\ CreateAbsent
  /\ Goto(i, "compare")
  /\ UNCHANGED <<bucket, consumed, rows, lost, repeats, drifts, faults>>

Compare(i) ==
  LET stale == {t \in Names : engine[t] = "stale"} IN
  /\ run[i].pc = "compare"
  /\ Becomes(i, [run[i] EXCEPT !.stale = stale,
                               !.pc = IF stale = {} THEN "list" ELSE "drop"])
  /\ UNCHANGED <<bucket, consumed, engine, rows, lost, repeats, drifts, faults>>

\* The first of these keys, in sort order.
First(keys) == CHOOSE m \in keys : \A k \in keys : m <= k

\* What run i has read and not yet marked, and whether t is behind it.
InHand(i)   == IF run[i].pc \in {"insert", "mark"} THEN {First(run[i].todo)} ELSE {}
Past(i, t)  == \/ run[i].pc = "mark"
               \/ run[i].pc = "insert" /\ \E n \in 1 .. run[i].at - 1 : Tables[n] = t

Held == UNION {InHand(i) : i \in Ingesters}

\* DROP TABLE IF EXISTS.
Drop(i) ==
  /\ run[i].pc = "drop"
  /\ \E t \in run[i].stale :
       /\ engine' = [engine EXCEPT ![t] = "absent"]
       /\ rows' = [rows EXCEPT ![t] = {}]
       /\ lost' = lost \cup consumed
                      \cup UNION {InHand(k) : k \in {j \in Ingesters : Past(j, t)}}
       /\ Becomes(i, [run[i] EXCEPT !.stale = @ \ {t},
                        !.pc = IF run[i].stale = {t} THEN "recreate" ELSE "drop"])
  /\ UNCHANGED <<bucket, consumed, repeats, drifts, faults>>

Recreate(i) ==
  /\ run[i].pc = "recreate"
  /\ CreateAbsent
  /\ Goto(i, "list")
  /\ UNCHANGED <<bucket, consumed, rows, lost, repeats, drifts, faults>>

----------------------------------------------------------------------------
\* run.

InBucket == {m \in Manifests : bucket[m] # {}}

\* Mutant of New: a watermark instead of a set.
NewAboveWatermark == {m \in InBucket : \A c \in consumed : m > c}

New == InBucket \ consumed

FirstFew(keys) == {m \in keys : Cardinality({k \in keys : k < m}) < Limit}

\* Mutant of List: a run goes on with nothing to load.
ListAlways(i) ==
  /\ run[i].pc = "list"
  /\ Becomes(i, [run[i] EXCEPT !.pc = "read", !.todo = FirstFew(New)])
  /\ UNCHANGED <<bucket, consumed, engine, rows, lost, repeats, drifts, faults>>

List(i) ==
  /\ run[i].pc = "list"
  /\ Becomes(i, IF New = {} THEN Idle
                ELSE [run[i] EXCEPT !.pc = "read", !.todo = FirstFew(New)])
  /\ UNCHANGED <<bucket, consumed, engine, rows, lost, repeats, drifts, faults>>

\* read_manifest and transform.  Every line has a raw row; a blob that cannot
\* be read is passed over (blob_json) like one without a workflow.
Read(i) ==
  LET m     == First(run[i].todo)
      lines == bucket[m]
  IN
  /\ run[i].pc = "read"
  /\ \E unread \in SUBSET (lines \cap Unreadable) :
       /\ faults + Cardinality(unread) <= MaxFaults
       /\ faults' = faults + Cardinality(unread)
       /\ Becomes(i, [run[i] EXCEPT
            !.pc = "insert", !.at = 1,
            !.batch = {<<r, IF r \in unread THEN NoWorkflow ELSE WorkflowOf[r]>> : r \in lines}])
  /\ lost' = IF lines \cap Unreadable # {} /\ m \in consumed \cup Held
             THEN lost \cup {m} ELSE lost
  /\ UNCHANGED <<bucket, consumed, engine, rows, repeats, drifts>>

\* The rows a batch has for a table.
RowsFor(t, batch) ==
  LET derived == {l \in batch : l[2] # NoWorkflow} IN
  CASE t = "raw_artifacts"              -> batch
    [] t = "derived_artifact_workflows" -> derived
    [] OTHER                            -> {l[2] : l \in derived}

\* Table t once it has merged new rows: only raw rows can differ under a key.
Merged(t, new) ==
  IF t = "raw_artifacts"
  THEN {l \in rows[t] : \A n \in new : n[1] # l[1]} \cup new
  ELSE rows[t] \cup new

\* The rows run i inserts next, and the tables once it has.
Rows(i) == RowsFor(Tables[run[i].at], run[i].batch)
Inserted(i) ==
  [rows EXCEPT ![Tables[run[i].at]] = Merged(Tables[run[i].at], Rows(i))]

\* An insert without rows sends nothing; one into a dropped table raises.
Possible(i) == Rows(i) = {} \/ engine[Tables[run[i].at]] # "absent"

\* Mutant of After: the last table is forgotten.
AfterShort(i) == Becomes(i, IF run[i].at < 4 THEN [run[i] EXCEPT !.at = @ + 1]
                            ELSE [run[i] EXCEPT !.pc = "mark"])

After(i) == Becomes(i, IF run[i].at < 5 THEN [run[i] EXCEPT !.at = @ + 1]
                       ELSE [run[i] EXCEPT !.pc = "mark"])

\* Mutant of Insert: an insert that fails is passed over.
InsertOrSkip(i) ==
  /\ run[i].pc = "insert"
  /\ rows' \in {rows, Inserted(i)}
  /\ After(i)
  /\ UNCHANGED <<bucket, consumed, engine, lost, repeats, drifts, faults>>

Insert(i) ==
  /\ run[i].pc = "insert" /\ Possible(i)
  /\ rows' = Inserted(i)
  /\ After(i)
  /\ UNCHANGED <<bucket, consumed, engine, lost, repeats, drifts, faults>>

\* mark_consumed, and on to the next manifest.
Mark(i) ==
  LET left == run[i].todo \ {First(run[i].todo)} IN
  /\ run[i].pc = "mark"
  /\ consumed' = consumed \cup {First(run[i].todo)}
  /\ Becomes(i, IF left = {} THEN Idle
                ELSE [run[i] EXCEPT !.pc = "read", !.todo = left, !.batch = {}])
  /\ UNCHANGED <<bucket, engine, rows, lost, repeats, drifts, faults>>

\* The table has been dropped by another run.
NoTable(i) ==
  /\ run[i].pc = "insert" /\ ~Possible(i)
  /\ Becomes(i, Idle)
  /\ UNCHANGED <<bucket, consumed, engine, rows, lost, repeats, drifts, faults>>

\* A call raises or the pod is killed: the run ends.
\* An insert that raised may have been done all the same.
Abort(i) ==
  /\ run[i].pc # "idle" /\ faults < MaxFaults /\ faults' = faults + 1
  /\ rows' \in {rows} \cup IF run[i].pc = "insert" /\ Possible(i)
                           THEN {Inserted(i)} ELSE {}
  /\ Becomes(i, Idle)
  /\ UNCHANGED <<bucket, consumed, engine, lost, repeats, drifts>>

----------------------------------------------------------------------------
\* The world outside the runs.

\* A fetcher's flush.
Put(m) ==
  /\ bucket[m] = {}
  /\ bucket' = [bucket EXCEPT ![m] = Content[m]]
  /\ UNCHANGED <<consumed, engine, rows, run, lost, repeats, drifts, faults>>

\* A flush whose put raised though it had stored the part...
PutUncertain(m) ==
  /\ bucket[m] = {} /\ repeats < MaxRepeats /\ repeats' = repeats + 1
  /\ \E some \in (SUBSET Content[m]) \ {{}, Content[m]} :
       bucket' = [bucket EXCEPT ![m] = some]
  /\ UNCHANGED <<consumed, engine, rows, run, lost, drifts, faults>>

\* ... is repeated under the same key, with what was written since.
PutAgain(m) ==
  /\ bucket[m] \notin {{}, Content[m]}
  /\ bucket' = [bucket EXCEPT ![m] = Content[m]]
  /\ lost' = lost \cup ({m} \cap (consumed \cup Held))
  /\ UNCHANGED <<consumed, engine, rows, run, repeats, drifts, faults>>

\* A release is deployed whose schema.sql wants another engine for t.
Drift(t) ==
  /\ engine[t] = "current" /\ drifts < MaxDrifts /\ drifts' = drifts + 1
  /\ engine' = [engine EXCEPT ![t] = "stale"]
  /\ UNCHANGED <<bucket, consumed, rows, run, lost, repeats, faults>>

----------------------------------------------------------------------------
Proceed(i) == \/ Begin(i) \/ Compare(i) \/ Drop(i) \/ Recreate(i)
              \/ List(i) \/ Read(i) \/ Insert(i) \/ NoTable(i) \/ Mark(i)

Next == \/ \E i \in Ingesters : Proceed(i) \/ Abort(i)
        \/ \E m \in Manifests : Put(m) \/ PutUncertain(m) \/ PutAgain(m)
        \/ \E t \in Names : Drift(t)

Spec == Init /\ [][Next]_vars

\* The CronJob ticks and a live pod executes.
FairSpec == Spec /\ \A i \in Ingesters : WF_vars(Proceed(i))

----------------------------------------------------------------------------
\* Properties.

\* Every variable has its type, and a run with a manifest in hand has one.
TypeOK ==
  /\ bucket \in [Manifests -> SUBSET Records]
  /\ consumed \subseteq Manifests /\ lost \subseteq Manifests
  /\ engine \in [Names -> {"absent", "current", "stale"}]
  /\ \A t \in Names : rows[t] \subseteq RowOf(t)
  /\ run \in [Ingesters -> Run]
  /\ \A i \in Ingesters : run[i].pc \in {"read", "insert", "mark"} => run[i].todo # {}
  /\ repeats \in 0 .. MaxRepeats /\ drifts \in 0 .. MaxDrifts /\ faults \in 0 .. MaxFaults

\* A line is loaded when it has one raw row, and the workflow that row names is
\* in every derived table and linked to the line.
Loaded(r) ==
  \E w \in Workflows \cup {NoWorkflow} :
    /\ {l \in rows["raw_artifacts"] : l[1] = r} = {<<r, w>>}
    /\ w # NoWorkflow =>
         /\ <<r, w>> \in rows["derived_artifact_workflows"]
         /\ \A t \in {"derived_workflows", "derived_workflow_nodes",
                      "derived_workflow_bindings"} : w \in rows[t]

\* The lines of a consumed manifest are loaded, whatever run died between two
\* tables, loaded a manifest twice, raced another or met a table dropped under
\* it: "resumes after the last manifest it actually finished", and what is
\* consumed is never read again.  Not so for what is lost, see there.
ConsumedIsLoaded == \A m \in consumed \ lost : \A r \in bucket[m] : Loaded(r)

\* Every manifest in the bucket is consumed in the end, in whatever order the
\* random keys arrive: the consumed set replaced a watermark that dropped them.
AllConsumed == \A m \in Manifests : [](bucket[m] # {} => <>(m \in consumed))

----------------------------------------------------------------------------
\* A claim of the repository that the code does not keep.

\* "A rebuild costs a re-read and loses nothing": what is marked consumed is
\* loaded also when a table has been dropped and recreated.
RebuildLosesNothing == \A m \in consumed : \A r \in bucket[m] : Loaded(r)
=============================================================================
