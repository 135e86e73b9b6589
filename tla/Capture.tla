------------------------------ MODULE Capture ------------------------------
(***************************************************************************)
(* `lake fetch`: a run leases a batch of the crawl queue, captures each    *)
(* artifact's bytes and, when it can pay, its API record, writes blobs and *)
(* manifest parts to the bucket, and marks queue rows.  The queue and the  *)
(* blob index are Postgres tables, every statement its own transaction;    *)
(* the bucket is a separate store.  A run may die between any two calls.   *)
(*                                                                         *)
(* A fetcher is a slot a CronJob pod runs in; one run at a time per slot.  *)
(* The source's contents are fixed: what an artifact holds is a constant,  *)
(* what a request answers is not.                                          *)
(***************************************************************************)
EXTENDS Naturals, FiniteSets

CONSTANTS
  Artifacts,    \* ids in the crawl queue
  Fetchers,     \* pods that may run `lake fetch`
  NoFetcher,    \* no live run holds the row
  NoArtifact,   \* the run has no artifact in hand
  Batch,        \* --batch: most rows one claim leases
  FlushEvery,   \* FLUSH_EVERY: artifacts that share a manifest part
  Rank,         \* ORDER BY priority DESC, published_at DESC
  BytesHold,    \* payload kinds the served bytes of an artifact carry
  ApiHold,      \* payload kinds the source's API has for it
  HasMeta,      \* artifacts whose listing had has_meta
  Barren,       \* artifacts whose url names a barren container
  Gone,         \* artifacts the source has really deleted
  Digest,       \* sha256 of a piece: <<artifact, channel, kind>> -> digest
  MaxFaults     \* bound: crashes, early stops, refusals and failed calls

Kinds    == {"workflow", "prompt"}
Pieces   == {"prefix"} \cup Kinds
Channels == {"bytes", "api"}
States   == {"pending", "leased", "done", "skipped", "failed"}
Errors   == {"none", "gone", "barren", "exception"}

ASSUME ConstantsAssumption ==
  /\ NoFetcher \notin Fetchers /\ NoArtifact \notin Artifacts
  /\ Batch \in Nat /\ FlushEvery \in Nat /\ MaxFaults \in Nat
  /\ Rank \in [Artifacts -> Nat]
  /\ BytesHold \in [Artifacts -> SUBSET Kinds]
  /\ ApiHold \in [Artifacts -> SUBSET Kinds]

\* A manifest line. "none" is the negative: the artifact holds nothing.
Records == [of : Artifacts, channel : Channels, kind : Kinds \cup {"none"}]

DigestOf(r) == Digest[<<r.of, r.channel, r.kind>>]

VARIABLES
  row,      \* crawl_queue, by artifact; `holder` is auxiliary: the live run
            \* whose claim leased the row
  stored,   \* digests of the blobs in the bucket
  indexed,  \* digests in the blob table
  durable,  \* manifest lines in the bucket
  run,      \* each fetcher's process
  sealed,   \* auxiliary: the complete record sets captured of each artifact
  faults    \* faults so far

vars == <<row, stored, indexed, durable, run, sealed, faults>>

Steps == {"idle", "loop", "resolve", "bytes", "put", "index", "api", "seal",
          "flush", "mark", "lastflush", "lastmark", "release", "commit"}

\* The steps at which the run has an artifact in hand.
InHand == {"resolve", "bytes", "put", "index", "api", "seal", "flush", "mark"}

\* todo: claimed rows the loop has not reached.  unprocessed: claimed rows
\* not in `processed`.  pieces: payloads of the channel still to be written.
\* wrote: records of the artifact in hand.  marking: what is left of a pass
\* over `undurable`.  stranded: auxiliary, rows that are in `processed` though
\* the statement that was to finish them raised.
Run == [pc : Steps, todo : SUBSET Artifacts, unprocessed : SUBSET Artifacts,
        cur : Artifacts \cup {NoArtifact}, channel : Channels,
        pieces : SUBSET Pieces, wrote : SUBSET Records,
        buffer : SUBSET Records, undurable : SUBSET Artifacts,
        marking : SUBSET Artifacts, stranded : SUBSET Artifacts]

Idle == [pc |-> "idle", todo |-> {}, unprocessed |-> {}, cur |-> NoArtifact,
         channel |-> "bytes", pieces |-> {}, wrote |-> {}, buffer |-> {},
         undurable |-> {}, marking |-> {}, stranded |-> {}]

Row == [state : States, lapsed : BOOLEAN, error : Errors,
        holder : Fetchers \cup {NoFetcher}]

Init ==
  /\ row = [a \in Artifacts |-> [state |-> "pending", lapsed |-> FALSE,
                                 error |-> "none", holder |-> NoFetcher]]
  /\ stored = {} /\ indexed = {} /\ durable = {}
  /\ run = [f \in Fetchers |-> Idle]
  /\ sealed = [a \in Artifacts |-> {}]
  /\ faults = 0

----------------------------------------------------------------------------
\* The frontier (lake/db.py).

\* Mutant of Claimable: leases are never reclaimed.
ClaimablePending == {a \in Artifacts : row[a].state = "pending"}

Claimable == {a \in Artifacts :
                \/ row[a].state = "pending"
                \/ row[a].state = "leased" /\ row[a].lapsed}

\* frontier.finish: neither the state nor the lease's owner is looked at.
Finish(a, s, e) ==
  row' = [row EXCEPT ![a] = [state |-> s, lapsed |-> FALSE, error |-> e,
                             holder |-> NoFetcher]]

Leased(a, f) == [row[a] EXCEPT !.state = "leased", !.lapsed = FALSE, !.holder = f]

\* Mutant of ReleaseRows: the guard on the state is gone.
ReleaseAnyRow(as) ==
  row' = [a \in Artifacts |-> IF a \in as THEN [Leased(a, NoFetcher) EXCEPT !.state = "pending"]
                             ELSE row[a]]

\* frontier.release: only rows still leased, whoever leased them.
ReleaseRows(as) ==
  row' = [a \in Artifacts |->
            IF a \in as /\ row[a].state = "leased"
            THEN [Leased(a, NoFetcher) EXCEPT !.state = "pending"]
            ELSE row[a]]

\* lease_until passes.
Lapse(a) ==
  /\ row[a].state = "leased" /\ ~row[a].lapsed
  /\ row' = [row EXCEPT ![a].lapsed = TRUE]
  /\ UNCHANGED <<stored, indexed, durable, run, sealed, faults>>

Fault == faults < MaxFaults /\ faults' = faults + 1

Becomes(f, r) == run' = [run EXCEPT ![f] = r]
Goto(f, s)    == Becomes(f, [run[f] EXCEPT !.pc = s])

\* r with the artifact in hand put down.
PutDown(r, s) == [r EXCEPT !.pc = s, !.cur = NoArtifact, !.channel = "bytes",
                           !.pieces = {}, !.wrote = {}, !.marking = {}]

----------------------------------------------------------------------------
\* The loop of fetch.run.

\* A run that finds nothing to claim ends at once.
Claim(f) ==
  /\ run[f].pc = "idle"
  /\ \E batch \in SUBSET Claimable :
       /\ batch # {} /\ Cardinality(batch) <= Batch
       /\ batch = Claimable \/ Cardinality(batch) = Batch
       /\ \A a \in batch, b \in Claimable \ batch : Rank[a] >= Rank[b]
       /\ row' = [a \in Artifacts |-> IF a \in batch THEN Leased(a, f)
                                      ELSE row[a]]
       /\ Becomes(f, [Idle EXCEPT !.pc = "loop", !.todo = batch,
                                  !.unprocessed = batch])
  /\ UNCHANGED <<stored, indexed, durable, sealed, faults>>

\* Mutant of Pick: the row picked stays on the list.
PickAgain(f) ==
  /\ run[f].pc = "loop"
  /\ \E a \in run[f].todo :
       Becomes(f, [run[f] EXCEPT !.pc = "resolve", !.cur = a])
  /\ UNCHANGED <<row, stored, indexed, durable, sealed, faults>>

Pick(f) ==
  /\ run[f].pc = "loop"
  /\ \E a \in run[f].todo :
       Becomes(f, [run[f] EXCEPT !.pc = "resolve", !.cur = a,
                                 !.todo = @ \ {a}])
  /\ UNCHANGED <<row, stored, indexed, durable, sealed, faults>>

\* The batch is done, or SIGTERM or the deadline ends the loop early.
EndLoop(f) ==
  /\ run[f].pc = "loop"
  /\ \/ run[f].todo = {} /\ UNCHANGED faults
     \/ run[f].todo # {} /\ Fault
  /\ Goto(f, "lastflush")
  /\ UNCHANGED <<row, stored, indexed, durable, sealed>>

\* image.get answered with a record, so the url is known.
Resolve(f) ==
  LET a == run[f].cur IN
  /\ run[f].pc = "resolve" /\ a \notin Gone
  /\ \/ a \notin Barren /\ Goto(f, "bytes") /\ UNCHANGED row
     \/ /\ a \in Barren
        /\ Finish(a, "skipped", "barren")
        /\ Becomes(f, [PutDown(run[f], "loop") EXCEPT
                         !.unprocessed = @ \ {a}])
  /\ UNCHANGED <<stored, indexed, durable, sealed, faults>>

\* image_get returned None: a 404, but also a timeout, a 429 within the
\* budget or a 5xx, all of which it swallows.
NoRecord(f) ==
  /\ run[f].pc = "resolve"
  /\ Finish(run[f].cur, "skipped", "gone")
  /\ Becomes(f, PutDown(run[f], "loop"))
  /\ UNCHANGED <<stored, indexed, durable, sealed, faults>>

\* Where the loop body goes once `pieces` of `channel` remain to be written
\* for artifact a and `wrote` is written (should_try_api).
After(a, channel, pieces, wrote) ==
  CASE pieces # {} -> "put"
    [] /\ pieces = {} /\ channel = "bytes" /\ a \in HasMeta
       /\ \A r \in wrote : r.kind # "workflow" -> "api"
    [] OTHER -> "seal"

\* Channel c answered with these pieces.
Answered(f, c, got) ==
  Becomes(f, [run[f] EXCEPT !.pieces = got, !.channel = c,
                            !.pc = After(run[f].cur, c, got, run[f].wrote)])

\* fetch_bytes.  An error status ends it with what the windows so far held,
\* never a workflow, and no prefix; a refused tail leaves out only the tail.
FetchBytes(f) ==
  LET a == run[f].cur IN
  /\ run[f].pc = "bytes"
  /\ \E got \in {{"prefix"} \cup BytesHold[a]} \cup
                SUBSET ({"prefix"} \cup (BytesHold[a] \ {"workflow"})) :
       Answered(f, "bytes", got)
  /\ UNCHANGED <<row, stored, indexed, durable, sealed, faults>>

\* _api_channel.  generation_data turns every failure but a refusal into None.
AskApi(f) ==
  LET a == run[f].cur IN
  /\ run[f].pc = "api"
  /\ \E got \in {ApiHold[a], {}} : Answered(f, "api", got)
  /\ UNCHANGED <<row, stored, indexed, durable, sealed, faults>>

FirstOf(pieces) == IF "prefix" \in pieces THEN "prefix"
                   ELSE IF "workflow" \in pieces THEN "workflow" ELSE "prompt"

\* The piece of the artifact in hand that is written next.
Piece(f) == [of |-> run[f].cur, channel |-> run[f].channel,
             kind |-> FirstOf(run[f].pieces)]

\* Its manifest line; a prefix has none of its own.
Lines(f) == {p \in {Piece(f)} : p.kind # "prefix"}

\* The run once that piece is written.
Written(f) ==
  LET p    == Piece(f)
      left == run[f].pieces \ {p.kind}
      all  == run[f].wrote \cup Lines(f)
  IN [run[f] EXCEPT !.pieces = left, !.buffer = @ \cup Lines(f), !.wrote = all,
                    !.pc = After(p.of, p.channel, left, all)]

\* Mutant of Put: a store.put that raises is taken for a success.
PutUnstored(f) ==
  /\ run[f].pc = "put"
  /\ \/ Becomes(f, Written(f)) /\ UNCHANGED stored
     \/ /\ stored' = stored \cup {DigestOf(Piece(f))}
        /\ Goto(f, "index")
  /\ UNCHANGED <<row, indexed, durable, sealed, faults>>

\* BlobWriter.put: skip what the blob table has, else store and then record.
Put(f) ==
  /\ run[f].pc = "put"
  /\ \/ DigestOf(Piece(f)) \in indexed /\ Becomes(f, Written(f)) /\ UNCHANGED stored
     \/ /\ DigestOf(Piece(f)) \notin indexed
        /\ stored' = stored \cup {DigestOf(Piece(f))}
        /\ Goto(f, "index")
  /\ UNCHANGED <<row, indexed, durable, sealed, faults>>

RecordBlob(f) ==
  /\ run[f].pc = "index"
  /\ indexed' = indexed \cup {DigestOf(Piece(f))}
  /\ Becomes(f, Written(f))
  /\ UNCHANGED <<row, stored, durable, sealed, faults>>

Negative(a) == [of |-> a, channel |-> "bytes", kind |-> "none"]

\* Mutant of Seal: the row is marked done before its records are flushed.
SealDone(f) ==
  LET a == run[f].cur
      w == run[f].wrote
      recs == IF w = {} THEN {Negative(a)} ELSE w
  IN
  /\ run[f].pc = "seal"
  /\ Finish(a, "done", "none")
  /\ Becomes(f, [PutDown(run[f], "loop") EXCEPT !.buffer = @ \cup recs,
                                                !.unprocessed = @ \ {a}])
  /\ sealed' = [sealed EXCEPT ![a] = @ \cup {recs}]
  /\ UNCHANGED <<stored, indexed, durable, faults>>

\* Mutant of Seal: an artifact that holds nothing leaves no negative record.
SealUnrecorded(f) ==
  LET a == run[f].cur
      w == run[f].wrote
  IN
  /\ run[f].pc = "seal"
  /\ Becomes(f, [PutDown(run[f], "loop") EXCEPT !.undurable = @ \cup {a},
                                                !.unprocessed = @ \ {a}])
  /\ sealed' = [sealed EXCEPT ![a] = @ \cup {IF w = {} THEN {Negative(a)} ELSE w}]
  /\ UNCHANGED <<row, stored, indexed, durable, faults>>

\* The artifact is captured; it is not marked done before its records are
\* durable.
Seal(f) ==
  LET a    == run[f].cur
      w    == run[f].wrote
      recs == IF w = {} THEN {Negative(a)} ELSE w
      und  == run[f].undurable \cup {a}
      full == Cardinality(und) >= FlushEvery
  IN
  /\ run[f].pc = "seal"
  /\ Becomes(f, [(IF full THEN [run[f] EXCEPT !.pc = "flush"]
                          ELSE PutDown(run[f], "loop"))
                   EXCEPT !.buffer = IF w = {} THEN @ \cup recs ELSE @,
                          !.undurable = und, !.unprocessed = @ \ {a}])
  /\ sealed' = [sealed EXCEPT ![a] = @ \cup {recs}]
  /\ UNCHANGED <<row, stored, indexed, durable, faults>>

----------------------------------------------------------------------------
\* Flushing and marking, in the loop and in its `finally`.

\* manifest.flush puts the buffer as one part.
Flush(f) ==
  /\ run[f].pc \in {"flush", "lastflush"}
  /\ durable' = durable \cup run[f].buffer
  /\ Becomes(f, [run[f] EXCEPT
                   !.buffer = {}, !.wrote = {}, !.marking = run[f].undurable,
                   !.pc = CASE run[f].pc = "flush" -> "mark"
                            [] run[f].pc = "lastflush"
                               /\ run[f].undurable = {} -> "release"
                            [] OTHER -> "lastmark"])
  /\ UNCHANGED <<row, stored, indexed, sealed, faults>>

\* Mutant of Mark: the rows are marked in any order.
MarkUnordered(f) ==
  /\ run[f].pc \in {"mark", "lastmark"}
  /\ \E a \in run[f].marking :
       LET left == run[f].marking \ {a} IN
       /\ Finish(a, "done", "none")
       /\ IF left # {}
          THEN Becomes(f, [run[f] EXCEPT !.marking = left])
          ELSE Becomes(f, [PutDown(run[f], IF run[f].pc = "mark"
                                           THEN "loop" ELSE "release")
                             EXCEPT !.undurable = {}])
  /\ UNCHANGED <<stored, indexed, durable, sealed, faults>>

\* One finish per row of `undurable`, in list order, which in the loop puts
\* the artifact in hand last; then the list is cleared.
Mark(f) ==
  /\ run[f].pc \in {"mark", "lastmark"}
  /\ \E a \in run[f].marking :
       LET left == run[f].marking \ {a} IN
       /\ run[f].pc = "mark" /\ a = run[f].cur => left = {}
       /\ Finish(a, "done", "none")
       /\ IF left # {}
          THEN Becomes(f, [run[f] EXCEPT !.marking = left])
          ELSE Becomes(f, [PutDown(run[f], IF run[f].pc = "mark"
                                           THEN "loop" ELSE "release")
                             EXCEPT !.undurable = {}])
  /\ UNCHANGED <<stored, indexed, durable, sealed, faults>>

\* A put that raises may have stored the part all the same.
PartUncertain(f) ==
  durable' \in {durable} \cup IF run[f].pc \in {"flush", "lastflush"}
                             THEN {durable \cup run[f].buffer} ELSE {}

\* A flush or a mark in the `finally` raises: the handler prints it, and the
\* rows are left to release.
LastFails(f) ==
  /\ run[f].pc \in {"lastflush", "lastmark"} /\ Fault
  /\ PartUncertain(f)
  /\ Becomes(f, PutDown(run[f], "release"))
  /\ UNCHANGED <<row, stored, indexed, sealed>>

\* Mutant of Release: rows whose flush failed are forgotten.
ReleaseUnprocessed(f) ==
  /\ run[f].pc = "release"
  /\ ReleaseRows(run[f].unprocessed)
  /\ Goto(f, "commit")
  /\ UNCHANGED <<stored, indexed, durable, sealed, faults>>

\* The rows of this run that are still leased go back.
Release(f) ==
  /\ run[f].pc = "release"
  /\ ReleaseRows(run[f].unprocessed \cup run[f].undurable)
  /\ Goto(f, "commit")
  /\ UNCHANGED <<stored, indexed, durable, sealed, faults>>

\* The process is gone, and with it what it held in memory.
Die(f) ==
  /\ Becomes(f, Idle)
  /\ row' = [a \in Artifacts |-> IF row[a].holder = f
                                 THEN [row[a] EXCEPT !.holder = NoFetcher]
                                 ELSE row[a]]

\* manifest.commit flushes again what a failed flush left in the buffer, and
\* the run ends.
Commit(f) ==
  /\ run[f].pc = "commit"
  /\ durable' = durable \cup run[f].buffer
  /\ Die(f)
  /\ UNCHANGED <<stored, indexed, sealed, faults>>

----------------------------------------------------------------------------
\* What goes wrong.

Risky == InHand \ {"seal"}

\* A request, a blob write, a statement or an in-loop flush raises: the row
\* becomes `failed` and the loop goes on.  What the artifact had put into the
\* buffer and into `undurable` stays there.
Fail(f) ==
  LET a == run[f].cur IN
  /\ run[f].pc \in Risky /\ Fault
  /\ Finish(a, "failed", "exception")
  /\ PartUncertain(f)
  /\ Becomes(f, [PutDown(run[f], "loop") EXCEPT !.unprocessed = @ \ {a}])
  /\ UNCHANGED <<stored, indexed, sealed>>

\* As Fail, but the handler's own finish raises too, which ends the loop.
FailTwice(f) ==
  /\ run[f].pc \in Risky /\ Fault
  /\ PartUncertain(f)
  /\ Becomes(f, PutDown(run[f], "lastflush"))
  /\ UNCHANGED <<row, stored, indexed, sealed>>

\* AuthRequired or HostBlocked: the row goes back and the run ends.
Refused(f) ==
  LET a == run[f].cur IN
  /\ run[f].pc \in {"resolve", "bytes", "api"} /\ Fault
  /\ Finish(a, "pending", "none")
  /\ Becomes(f, [PutDown(run[f], "lastflush") EXCEPT !.unprocessed = @ \ {a}])
  /\ UNCHANGED <<stored, indexed, durable, sealed>>

\* As Refused, but the statement that hands the row back raises: the loop
\* ends all the same, with the row in `processed` and still leased.
RefusedTwice(f) ==
  LET a == run[f].cur IN
  /\ run[f].pc \in {"resolve", "bytes", "api"} /\ Fault
  /\ Becomes(f, [PutDown(run[f], "lastflush") EXCEPT !.unprocessed = @ \ {a},
                                                     !.stranded = @ \cup {a}])
  /\ UNCHANGED <<row, stored, indexed, durable, sealed>>

\* SIGKILL, node loss, out of memory.
Crash(f) ==
  /\ run[f].pc # "idle" /\ Fault
  /\ Die(f)
  /\ UNCHANGED <<stored, indexed, durable, sealed>>

\* The connection to Postgres is lost for good: every later statement raises,
\* the one in the handler too.  The `finally` still flushes, then the release
\* raises and the job fails.
LoseDatabase(f) ==
  /\ run[f].pc \notin {"idle", "release", "commit"} /\ Fault
  /\ durable' = durable \cup run[f].buffer
  /\ Die(f)
  /\ UNCHANGED <<stored, indexed, sealed>>

----------------------------------------------------------------------------
\* What a run does by itself; Claim is the CronJob's tick.
Proceed(f) ==
  \/ Pick(f) \/ EndLoop(f) \/ Resolve(f) \/ NoRecord(f) \/ FetchBytes(f)
  \/ Put(f) \/ RecordBlob(f) \/ AskApi(f) \/ Seal(f)
  \/ Flush(f) \/ Mark(f) \/ Release(f) \/ Commit(f)

Disturb(f) == \/ LastFails(f) \/ Fail(f) \/ FailTwice(f) \/ Refused(f)
              \/ RefusedTwice(f) \/ Crash(f) \/ LoseDatabase(f)

Next == \/ \E f \in Fetchers : Claim(f) \/ Proceed(f) \/ Disturb(f)
        \/ \E a \in Artifacts : Lapse(a)

Spec == Init /\ [][Next]_vars

\* A live pod keeps executing, CronJobs keep ticking, and clocks advance.
FairSpec == /\ Spec
            /\ \A f \in Fetchers : WF_vars(Claim(f)) /\ WF_vars(Proceed(f))
            /\ \A a \in Artifacts : WF_vars(Lapse(a))

----------------------------------------------------------------------------
\* Properties.

\* A run has an artifact in hand from the step that picks it to the one that
\* is through with it; that artifact has left `todo`, whose rows are all still
\* to be processed (`for row in items`); marking is over `undurable`.
WellFormed(r) ==
  /\ r.pc \in InHand => r.cur # NoArtifact
  /\ r.cur \notin r.todo /\ r.todo \subseteq r.unprocessed
  /\ r.marking \subseteq r.undurable

\* Every variable has its type, and every process is well formed.
TypeOK ==
  /\ row \in [Artifacts -> Row]
  /\ durable \subseteq Records
  /\ run \in [Fetchers -> Run]
  /\ sealed \in [Artifacts -> SUBSET SUBSET Records]
  /\ faults \in 0 .. MaxFaults
  /\ \A f \in Fetchers : WellFormed(run[f])

\* Artifacts some complete capture of which is in the bucket.
Captured == {a \in Artifacts : \E recs \in sealed[a] : recs \subseteq durable}

\* A row marked done has all records of some complete capture of it in the
\* bucket, whatever run died, flushed late or marked twice: FLUSH_EVERY's
\* "records are flushed, then their artifacts are marked done, never the
\* other way round".
DoneIsDurable == \A a \in Artifacts : row[a].state = "done" => a \in Captured

\* No manifest line in the bucket names a payload the bucket lacks, also when
\* the blob was skipped because the index has it (BlobWriter.put's order).
RecordsResolve ==
  \A r \in durable : r.kind # "none" => DigestOf(r) \in stored

\* When a run has released its rows the only ones it can still hold leased are
\* those whose refusal it could not record: every other "goes straight back
\* to pending", so that the next tick need not wait for a lease to expire.
\* `processed` and `undurable` do not cover every row the loop did not finish:
\* the refusal handler adds its row to `processed` before the statement that
\* hands it back, and when that raises the `finally` passes the row over.
CleanExitHoldsNoLease ==
  \A f \in Fetchers : run[f].pc = "commit" =>
    \A a \in Artifacts : row[a].state = "leased" /\ row[a].holder = f =>
                           a \in run[f].stranded

\* With one fetcher, a row that was captured or skipped is never handed out
\* or rewritten again, though no statement of the code looks at the state it
\* overwrites.
Concluded == {"done", "skipped"}
ConcludedIsFinal ==
  [][\A a \in Artifacts : row[a].state \in Concluded =>
                            row'[a].state = row[a].state]_vars

\* Once faults stop, every row is eventually concluded or failed for good: a
\* dead run's rows come back with the lease, released rows at the next tick.
Drained == <>[](\A a \in Artifacts : row[a].state \in Concluded \cup {"failed"})

\* With one fetcher the whole machinery of leases, buffers and re-claims keeps
\* the promise of CaptureContract.
Contract == INSTANCE CaptureContract WITH
  verdict  <- [a \in Artifacts |-> IF row[a].state \in {"pending", "leased"}
                                   THEN "open" ELSE row[a].state],
  captured <- Captured
KeepsContract == Contract!Spec

----------------------------------------------------------------------------
\* The inductive invariant behind the safety properties.

\* Rows a run may mark done have a complete capture that is durable, or will
\* be with the next flush; while rows are being marked nothing is buffered.
Buffered(r) ==
  /\ r.wrote \subseteq r.buffer
  /\ r.pc \in {"mark", "lastmark"} => r.buffer = {}
  /\ \A a \in r.undurable : \E recs \in sealed[a] :
       recs \subseteq durable \cup r.buffer
UndurableIsBuffered == \A f \in Fetchers : Buffered(run[f])

\* Blobs are stored before they are indexed, and indexed before a record
\* that names them is buffered.
BlobsFirst ==
  /\ indexed \subseteq stored
  /\ \A f \in Fetchers :
       /\ \A r \in run[f].buffer : r.kind # "none" => DigestOf(r) \in stored
       /\ run[f].pc = "index" => DigestOf(Piece(f)) \in stored

\* Every row a live run leased and has not finished is one it has not
\* processed, one it has yet to mark, or the one it stranded.
Owed(r) == r.unprocessed \cup (IF r.pc \in {"mark", "lastmark"} THEN r.marking
                               ELSE r.undurable)
LeasesAreOwed ==
  \A f \in Fetchers, a \in Artifacts :
    row[a].state = "leased" /\ row[a].holder = f =>
      /\ run[f].pc # "idle"
      /\ \/ a \in run[f].stranded
         \/ run[f].pc # "commit" /\ a \in Owed(run[f])

IInv == /\ TypeOK /\ DoneIsDurable /\ RecordsResolve
        /\ UndurableIsBuffered /\ BlobsFirst /\ LeasesAreOwed

----------------------------------------------------------------------------
\* A claim of the repository that the code does not keep.

\* image_get: "Returns None only when the id is genuinely gone."
GoneOnlyIfGone == \A a \in Artifacts : row[a].error = "gone" => a \in Gone
=============================================================================
