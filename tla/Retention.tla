----------------------------- MODULE Retention -----------------------------
(***************************************************************************)
(* Blobs and how they go: `BlobWriter.put` looks a digest up in the index, *)
(* stores the blob and records it, a prefix with the day it expires;       *)
(* `lake gc` lists what has expired and, one by one, deletes the object    *)
(* and forgets the row.  Bucket and index are two systems, and a job may   *)
(* die between any two calls.                                              *)
(***************************************************************************)
EXTENDS Naturals, FiniteSets

CONSTANTS
  Fetchers,    \* pods that write blobs
  Collectors,  \* pods that run `lake gc`
  Blobs,       \* digests
  Prefixes,    \* those of kind "prefix"; the others are kept for ever
  NoBlob,
  Limit,       \* --limit
  MaxFaults    \* bound: kills and calls that raise

\* What the parameters have to be.
Parameters ==
  /\ Fetchers \cap Collectors = {} /\ Prefixes \subseteq Blobs /\ NoBlob \notin Blobs
  /\ Limit \in Nat \ {0} /\ MaxFaults \in Nat

VARIABLES
  strict,  \* whether the store's delete raises on an object that is gone (GCS)
  stored,  \* objects in the bucket
  index,   \* the blob table: "none", "kept" for ever, "fresh", or "expired"
  job,     \* each pod's process
  faults

vars == <<strict, stored, index, job, faults>>

Steps == {"off", "ready", "put", "record", "list", "delete", "forget"}
Job   == [pc : Steps, blob : Blobs \cup {NoBlob}, expired : SUBSET Blobs]
Off   == [pc |-> "off", blob |-> NoBlob, expired |-> {}]

Init ==
  /\ strict \in BOOLEAN
  /\ stored = {} /\ index = [b \in Blobs |-> "none"]
  /\ job = [p \in Fetchers \cup Collectors |-> Off]
  /\ faults = 0

Becomes(p, j) == job' = [job EXCEPT ![p] = j]
Goto(p, s)    == Becomes(p, [job[p] EXCEPT !.pc = s])
Fault == faults < MaxFaults /\ faults' = faults + 1

----------------------------------------------------------------------------
\* The job begins, and ends.

Start(p) ==
  /\ job[p].pc = "off"
  /\ Goto(p, IF p \in Fetchers THEN "ready" ELSE "list")
  /\ UNCHANGED <<strict, stored, index, faults>>

Finish(p) ==
  /\ p \in Fetchers /\ job[p].pc = "ready"
  /\ Becomes(p, Off)
  /\ UNCHANGED <<strict, stored, index, faults>>

----------------------------------------------------------------------------
\* BlobWriter.put.

\* blob_exists: a row is all it asks for, whatever its expiry.
BlobExists(p, b) ==
  /\ p \in Fetchers /\ job[p].pc = "ready"
  /\ index[b] = "none"
  /\ Becomes(p, [job[p] EXCEPT !.pc = "put", !.blob = b])
  /\ UNCHANGED <<strict, stored, index, faults>>

StorePut(p) ==
  /\ job[p].pc = "put"
  /\ stored' = stored \cup {job[p].blob}
  /\ Goto(p, "record")
  /\ UNCHANGED <<strict, index, faults>>

\* Mutant of Row: the expiry is set for every kind.
RowExpires(b) == "fresh"

\* expires_at of a new row.
Row(b) == IF b \in Prefixes THEN "fresh" ELSE "kept"

\* record_blob: ON CONFLICT DO NOTHING.
RecordBlob(p) ==
  LET b == job[p].blob IN
  /\ job[p].pc = "record"
  /\ index' = [index EXCEPT ![b] = IF @ = "none" THEN Row(b) ELSE @]
  /\ Becomes(p, [job[p] EXCEPT !.pc = "ready", !.blob = NoBlob])
  /\ UNCHANGED <<strict, stored, faults>>

\* Mutant of PutFails: the exception of a put is swallowed.
PutSwallowed(p) ==
  /\ job[p].pc \in {"put", "record"} /\ Fault
  /\ Goto(p, "record")
  /\ UNCHANGED <<strict, stored, index>>

\* A call raises, when the store may have the object all the same; fetch fails
\* the artifact and goes on.
PutFails(p) ==
  /\ job[p].pc \in {"put", "record"} /\ Fault
  /\ stored' \in {stored} \cup IF job[p].pc = "put" THEN {stored \cup {job[p].blob}} ELSE {}
  /\ Becomes(p, [job[p] EXCEPT !.pc = "ready", !.blob = NoBlob])
  /\ UNCHANGED <<strict, index>>

\* now() passes expires_at.  Retention is longer than a put: one that found no
\* row is over before the row another run inserted meanwhile expires.
Expire(b) ==
  /\ index[b] = "fresh"
  /\ \A p \in Fetchers : job[p].blob # b
  /\ index' = [index EXCEPT ![b] = "expired"]
  /\ UNCHANGED <<strict, stored, job, faults>>

----------------------------------------------------------------------------
\* cmd_gc.

Expired == {b \in Blobs : index[b] = "expired"}

\* Mutant of List: everything that may expire is taken for expired.
ListFresh(p) ==
  /\ job[p].pc = "list"
  /\ Becomes(p, [job[p] EXCEPT !.pc = "delete",
                   !.expired = {b \in Blobs : index[b] \in {"fresh", "expired"}}])
  /\ UNCHANGED <<strict, stored, index, faults>>

\* Mutant of List: one row fewer than the limit.
ListOneFewer(p) ==
  /\ job[p].pc = "list"
  /\ \E some \in SUBSET Expired :
       /\ some = Expired \/ (some \subseteq Expired /\ Cardinality(some) = Limit - 1)
       /\ Cardinality(some) < Limit
       /\ Becomes(p, IF some = {} THEN Off
                     ELSE [job[p] EXCEPT !.pc = "delete", !.expired = some])
  /\ UNCHANGED <<strict, stored, index, faults>>

\* expired_blobs: any of them, as many as the limit allows.
List(p) ==
  /\ job[p].pc = "list"
  /\ \E some \in SUBSET Expired :
       /\ some = Expired \/ (some \subseteq Expired /\ Cardinality(some) = Limit)
       /\ Cardinality(some) <= Limit
       /\ Becomes(p, IF some = {} THEN Off
                     ELSE [job[p] EXCEPT !.pc = "delete", !.expired = some])
  /\ UNCHANGED <<strict, stored, index, faults>>

\* store.delete, of any of the rows left.
Delete(p) ==
  /\ job[p].pc = "delete"
  /\ \E b \in job[p].expired :
       /\ b \in stored \/ ~strict
       /\ stored' = stored \ {b}
       /\ Becomes(p, [job[p] EXCEPT !.pc = "forget", !.blob = b])
  /\ UNCHANGED <<strict, index, faults>>

\* GCS's delete of an object that is gone raises, and that ends the run.
DeleteFails(p) ==
  /\ job[p].pc = "delete"
  /\ strict /\ job[p].expired \ stored # {}
  /\ Becomes(p, Off)
  /\ UNCHANGED <<strict, stored, index, faults>>

\* forget_blob.
Forget(p) ==
  LET left == job[p].expired \ {job[p].blob} IN
  /\ job[p].pc = "forget"
  /\ index' = [index EXCEPT ![job[p].blob] = "none"]
  /\ Becomes(p, IF left = {} THEN Off
                ELSE [pc |-> "delete", blob |-> NoBlob, expired |-> left])
  /\ UNCHANGED <<strict, stored, faults>>

\* The pod is gone, or a statement of gc raises, which ends it as well.
Crash(p) ==
  /\ job[p].pc # "off" /\ Fault
  /\ Becomes(p, Off)
  /\ UNCHANGED <<strict, stored, index>>

----------------------------------------------------------------------------
Writing(p)    == \/ \E b \in Blobs : BlobExists(p, b)
                 \/ StorePut(p) \/ RecordBlob(p) \/ PutFails(p) \/ Finish(p)
Collecting(p) == List(p) \/ Delete(p) \/ DeleteFails(p) \/ Forget(p)

Next == \/ \E p \in Fetchers \cup Collectors : Start(p) \/ Writing(p) \/ Collecting(p) \/ Crash(p)
        \/ \E b \in Blobs : Expire(b)

Spec == Init /\ [][Next]_vars

----------------------------------------------------------------------------
\* Properties.

\* Every variable has its type.
TypeOK ==
  /\ strict \in BOOLEAN /\ stored \subseteq Blobs
  /\ index \in [Blobs -> {"none", "kept", "fresh", "expired"}]
  /\ \A b \in Blobs \ Prefixes : index[b] \in {"none", "kept"}
  /\ job \in [Fetchers \cup Collectors -> Job]
  /\ \A p \in Fetchers \cup Collectors :
       job[p].blob # NoBlob <=> job[p].pc \in {"put", "record", "forget"}
  /\ faults \in 0 .. MaxFaults

\* What a put trusts when it skips the upload: a row that has not expired names
\* an object in the bucket, whoever died between the two systems.
IndexResolves == \A b \in Blobs : index[b] \in {"kept", "fresh"} => b \in stored

\* An object leaves the bucket only once it has expired, though gc works from a
\* list it read before; a workflow never does: "workflow blobs are kept forever".
OnlyExpiredGo ==
  [][\A b \in stored \ stored' : b \in Prefixes /\ index[b] = "expired"]_vars

\* A row whose object is gone and which no gc is about to forget: on a strict
\* store gc stops there, every time.
Stuck == /\ strict
         /\ \E b \in Expired \ stored : \A p \in Collectors : job[p].blob # b
=============================================================================
