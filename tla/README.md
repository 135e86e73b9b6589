# Verification of workflow-lake

TLA+ modules, TLC configurations and TLAPS proofs for the crawler and ingester
in this repository. Paths such as `pipeline/fetch.py` are below `src/`.

## 1. The system

Seven subcommands of `lake` run as Kubernetes CronJobs or by hand. They share
no memory: everything they tell each other goes through a Postgres database
(the *frontier*, `lake/db.py`), a bucket, and ClickHouse.

```
 source API --> discover-tip, discover-backlog --> crawl_queue, crawl_partition
 source API + CDN --> fetch --> bucket: blobs/ and raw/ (manifest parts)
                        |  leases and marks rows of crawl_queue, indexes in blob
 bucket --> ingest --> ClickHouse tables    (ingest_manifest: consumed keys)
 blob (expires_at) --> gc --> bucket
 every request --> PoliteClient --> crawl_host_health, crawl_latch, crawl_host_backoff
```

Every `Frontier` method is one transaction; between two of them anything may
happen: another job's step, a raising call, a pod killed. That is where the
hard behaviours are, and where this project looks.

| Component | State | Operations | What is hard | What makes it correct |
|---|---|---|---|---|
| **fetch** (`pipeline/fetch.py`, `lake/capture.py`) | per run: claimed items, `processed`, `undurable`, the manifest buffer | claim, per artifact resolve / bytes / API / write / mark, the `finally` | database and bucket are two systems; one exception handler for every call; SIGTERM, kill, lost connection | done rows are durable; records name blobs that exist; a run that ends gives its rows back, but for a refusal it could not record; conclusions are final |
| **frontier: crawl_queue** (`lake/db.py` 56-154) | one row per artifact: state, lease, error | enqueue, claim, finish, release | leases expire under a live run; finish does not look at what it overwrites | no row is lost, none stays leased for ever |
| **storage** (`lake/storage.py`) | the bucket; the `blob` index; the manifest writer's part and buffer | `BlobWriter.put`, `ManifestWriter.write/flush/commit` | three writes make one capture; a put that raises may have stored | blob before index before record |
| **politeness** (`lake/polite.py`, `lake/latch.py`, `lake/db.py` 352-492) | latch, refusal tally and backoff per host; a budget per run | `get` with retries, record_refusal / success / transient, the gate, `lake unlatch` | jobs share the rows; the gate is several queries; retries spend what was checked once | a refusing host is latched and left alone; a failing one is asked again some day |
| **ingest** (`pipeline/ingest.py`) | consumed set, five ClickHouse tables | ensure_schema, list, read, derive, insert by table, mark | kill between two inserts; keys in no order; overlapping runs; a table dropped | what is consumed is loaded; everything is consumed |
| **discovery** (`pipeline/discover.py`, `lake/civitai.py`, `lake/db.py` 56-90, 156-295) | the tip cursor, partitions with cursor and lease, new rows | discover_tip, discover_backlog, enqueue, add / claim / update_partition | stopping rule by dry pages; cursor advanced before the page is queued; one-per-post by read then insert | no listed artifact is skipped for good |
| **blob retention** (`pipeline/cli.py` 122-140, `lake/db.py` 316-348) | the blob index with `expires_at`, the bucket | put: look up, store, record; `lake gc`: list expired, delete, forget | kills between two systems; a put that trusts a row gc is working on | only expired prefixes disappear, a live row names an object, what expired goes |
| **migrations** (`lake/migrate.py`) | `schema_migrations`, the advisory lock | run before every job: lock, create the table, compare, apply, unlock | all jobs tick at once; releases are rolled out and back; a kill holds the lock | each applied once, in order, before the job that needs it |
| **ranged fetch** (`lake/capture.py` 55-116, `lake/wfmeta.py`) | per artifact: the bytes held, the window asked for | head window, escalation, tail; four container walks | windows cut a file anywhere; a server may ignore the range | escalation finds what one large request would, but for two named cases; both ends of a video are looked at; what is kept re-parses |
| **derive** (`lake/derive.py`) | none | canonical and structural form, loader bindings, attribution | two shapes of one graph; ids and order change with every save | equal forms are equal workflows; both shapes agree |
| **devalue** (`lake/devalue.py`) | none | decoding | ill-formed input | - |
| **config, CLI, status, selftest** | none | environment and reporting | - | - |

`PROJECT.json` lists these components with their status, and under `hazards`
every place where the code can go wrong in a way a unit test would hardly
reach, each at its line.

## 2. Modules

| Module | Models | Status |
|---|---|---|
| `Capture` | `lake fetch` with the rows of crawl_queue, the blob index and the bucket it works on | written, checked, proved |
| `CaptureContract` | what one fetcher at a time promises about the queue; `Capture` refines it | written, checked, refinement proved |
| `CaptureProofs` | the theorems about `Capture` | proved |
| `MCCapture` | instances of `Capture` | |
| `Politeness` | `PoliteClient.get`, tally, latch, backoff, gate, unlatch, under the three jobs that make requests | written, checked, proved |
| `PolitenessProofs` | the theorems about `Politeness` | proved |
| `MCPoliteness` | instances of `Politeness` | |
| `Ingest` | `lake ingest` with the consumed set, the tables and what arrives in the bucket | written, checked, proved |
| `IngestProofs` | the theorems about `Ingest` | proved |
| `MCIngest` | instances of `Ingest` | |
| `Discovery` | `lake discover-tip` and `lake discover-backlog` with crawl_partition, the rows they queue and the source's listing | written, checked, proved |
| `DiscoveryProofs` | the theorems about `Discovery` | proved |
| `MCDiscovery` | instances of `Discovery` | |
| `Migrate` | `lake migrate` run by the pods of several releases | written, checked, proved |
| `Retention` | `BlobWriter.put` and `lake gc` on index and bucket | written, checked, proved |
| `Deployment` | a pod as it is deployed: `Migrate`, then a job that writes or collects blobs (`Retention`) | written, checked, proved |
| `MigrateProofs`, `RetentionProofs`, `DeploymentProofs` | the theorems about each | proved |
| `MCDeployment` | an instance of `Deployment` | |
| `Ranges` | `fetch_bytes`, window by window, over the layout of a file | written, checked, proved |
| `Derive` | `canonical_form` and the loader bindings, as operators | written, checked, proved |
| `Extract` | `Ranges` and `Derive` composed: artifacts fetched, workflows derived, between two shares of a workflow | written, checked, proved |
| `ExtractProofs` | the theorems about `Ranges`, `Derive` and `Extract` | proved |
| `MCExtract` | an instance of `Extract` | |

### Capture

| Model | Code |
|---|---|
| `row` | crawl_queue: state, last_error; `lapsed` says `lease_until < now()`; `holder` is auxiliary, the live run whose claim leased the row |
| `stored`, `durable` | blobs and manifest lines in the bucket |
| `indexed` | the blob table |
| `run[f]` | the local variables of `fetch.run` and of its ManifestWriter: `todo` the rest of `items`, `unprocessed` the items not in `processed`, `buffer`, `undurable`, and a program counter |
| `sealed` | auxiliary: the complete record sets captured of each artifact, which says what "captured" means when an artifact is captured twice |
| `Claim` | `Frontier.claim`, one statement with SKIP LOCKED, so one step; an empty claim is a stutter |
| `Pick`, `EndLoop` | the head of the loop: next item, or `stop` / deadline |
| `Resolve`, `NoRecord`, `FetchBytes`, `AskApi` | the requests, each with every outcome its function lets through |
| `Put`, `RecordBlob` | the two halves of `BlobWriter.put`, separate because a run may die between them |
| `Seal` | the end of the try block: the negative record, `undurable.append`, FLUSH_EVERY |
| `Flush`, `Mark`, `LastFails`, `Release`, `Commit` | flushing in the loop and in the `finally`, one `finish` at a time |
| `Fail`, `FailTwice`, `Refused`, `RefusedTwice` | the exception handlers; with `Twice`, the handler's own statement raises |
| `Crash`, `LoseDatabase` | kill; a connection that is gone for good |
| `Lapse` | a lease expires: any leased row, at any time |

Contents are constants: which payload kinds the bytes and the API hold for each
artifact, and which pieces share a sha256 (`Digest`). A request's outcome is
not: `FetchBytes` may return everything, or, after an error status, what the
windows before it held; `AskApi` may find nothing, since generation_data turns
failures into None. `keep_prefix` and `use_api` are on, as the CLI defaults
have them. Left out: `attempts` (written, never read), crawl_run accounting,
statistics. One simplification: the windows of the ranged fetch are the set of
pieces they find (`Ranges` has the windows). A put that raises may or may not
have stored (`PartUncertain`). The refusal handler adds its row to `processed`
before the statement that hands the row back, so when that raises the `finally`
passes the row over: `stranded`, auxiliary, names it, and CleanExitHoldsNoLease
says that such rows are the only ones a run keeps.

### Politeness

| Model | Code |
|---|---|
| `latch` | crawl_latch: no row, active, or cleared |
| `tally`, `outages`, `quiet` | consecutive_refusals, consecutive_transient, time to backoff_until |
| `run[j]` | one job's process: at the gate, ready, out with a request, or in one of the sinks of `get`; its attempt, its `forbidden` counts |
| `stood` | auxiliary: blocks that have stood ever since the run began |
| `Start`, `Check` | `gate`: latched of every host, then backing_off of every host, one query each |
| `Ask`, `Answer...`, `NoAnswer` | the loop of `get`, by class of answer |
| `RecordRefusal`, `RecordSuccess`, `ClearTransient`, `RecordTransient` | the sinks, one transaction each |
| `Ends`, `Return` | what the three jobs do with the outcome: fetch swallows most, the tip nothing, the backlog everything |
| `StatementFails`, `Crash`, `Unlatch`, `Tick` | faults, the human, time |

Time is in ticks of TRANSIENT_BASE_SECONDS. Two counters saturate where the
code can no longer tell them apart: consecutive_transient once the delay has
reached its cap, consecutive_refusals above the threshold. Left out: the token
bucket that spaces requests and the sleeps between retries. Redirects are
counted under the host that was asked, as `get` does. A run that finds nothing
to ask is a stutter.

### Ingest

| Model | Code |
|---|---|
| `bucket` | manifest parts; keys are numbers, and arrive in any order since they embed a uuid4 |
| `consumed` | ingest_manifest |
| `engine`, `rows` | each table's engine in ClickHouse (against schema.sql) and its rows |
| `Begin`, `Compare`, `Drop`, `Recreate` | `ensure_schema`, by statement |
| `List` | listing, consumed_manifests, the difference, `--limit` |
| `Read` | read_manifest and transform; any blob read may fail and be passed over |
| `Insert`, `NoTable`, `Abort` | the five inserts in order; a table that is not there; a raising call (which may have inserted) or a kill |
| `Mark` | mark_consumed |
| `Put`, `PutUncertain`, `PutAgain` | what fetchers do to the bucket: a flush, or one whose put raised and is repeated under the same key |
| `Drift` | a release with another engine for a table |

A row keeps what the properties tell apart: a raw row its line and the
workflow it names, a link row both, the others the workflow. ReplacingMergeTree
is taken to have merged. Listing and reading the consumed set are one step:
only one key set is subtracted from the other, and a mark that comes in between
only makes a manifest be loaded twice, which the run does anyway.

`lost` is auxiliary: the manifests whose rows the code can no longer account
for. A manifest enters it when its table is dropped after it was consumed or
while a run has already passed that table, when its part is written again with
more lines after a run has read it, and when a second run reads it with an
unreadable blob after the first had it. ConsumedIsLoaded exempts these and no
others; RebuildLosesNothing is the promise that the first of the three never
happens.

### Discovery

| Model | Code |
|---|---|
| `published` | the source; artifacts are numbers in the order of publication, so a listing only grows at its new end |
| `NextPage`, `NextCursor` | `page_images`: a page of what is older than the cursor, and the cursor behind it |
| `queue`, `abandoned` | rows of crawl_queue; those that `posts_already_captured` does not count |
| `part` | crawl_partition; `known`, the user's newest artifact when the row was inserted, is auxiliary |
| `unswept`, `swept` | the order of `claim_partition`: never swept by discovered_at, then the others by swept_at |
| `run` | a pod: its page, cursor, dry pages and, at `ReadPosts`, the posts it has read as captured |
| `StartTip`, `ReadPage`, `AddPartitions`, `ReadPosts`, `Enqueue`, `CaughtUp` | the tip's loop by transaction |
| `ClaimPartition`, `ReadPage`, `ReadPosts`, `Enqueue`, `UpdatePartition` | the backlog's |
| `Lapse` | lease_until passes, also under a sweep that goes on |
| `Raises`, `Crash`, `Abandon` | a raising call, a kill, an artifact that fetch skips or fails |

`missed` is auxiliary: the artifacts of pages that a sweep read and did not
queue, since a call raised, behind which the partition's cursor already stood. A cursor of NULL, the source's
"no next page" and "from the newest" are one value in the code and in the
model, so a sweep that raises on its last page starts over. Left out: the tip's
frontier_id and the counters, which decide nothing; crawl_run; the 4,400-item
cap of the cursor, which TIP_PAGE_CAP keeps the tip from; the gate, the latch
and the request budget (`Politeness`). Between two partitions a backlog run
carries no state, so each round of its loop is a sweep of its own and
`--partitions` is no bound of the model.

### Migrate, Retention, Deployment

| Model | Code |
|---|---|
| `release`, `Ships` | the image the manifests name; a release is the checksum of each file it ships, files being numbers in the order of their names |
| `table`, `recorded` | schema_migrations and its rows; `applied`, auxiliary, is the SQL that committed, in order |
| `lock` | pg_advisory_lock: held by a session, which may outlive its pod (`Reap`) |
| `Begin`, `Acquire`, `Bootstrap`, `Create`, `Pending`, `Apply`, `Unlock` | `migrate.run` by statement; CREATE TABLE IF NOT EXISTS is two steps, as its comment says |
| `StatementFails`, `Crash`, `Deploy` | a raising statement and its rollback, a kill, a rollout or rollback |
| `index`, `stored` | the blob table (no row, kept, not yet expired, expired) and the bucket's objects |
| `BlobExists`, `StorePut`, `RecordBlob`, `PutFails` | `BlobWriter.put` |
| `Expire`, `List`, `Delete`, `DeleteFails`, `Forget` | `expires_at < now()`, and `cmd_gc` by call |
| `strict` | GCS: `delete` of an object that is gone raises |
| `Launch`, `Work`, `Kill` | the initContainer has exited 0; the job runs; a pod is killed, in one or the other |

`load` refuses an image without migrations before any statement, so every
release ships one. What a migration's SQL does is abstracted; whether a job's
statements suit a *newer* schema than its own is a question about SQL that the
model does not ask. One gc pod is deployed (`Forbid`); with two, each working
from a list of its own, IndexResolves and OnlyExpiredGo fail. A prefix is taken
to live longer than a put lasts, so LAKE_KEEP_PREFIX_DAYS = 0 is not covered.

### Ranges, Derive, Extract

| Model | Code |
|---|---|
| a file | its container and a sequence of chunks; a chunk has a role, a size in units of a header, and the payloads it holds |
| `StopsAt`, `Concludes`, `Truncated` | the walks of `_parse_png`, `_parse_webp`, `_parse_jpeg`, `_parse_isobmff`: where they stop on a slice, for good or for want of bytes |
| `Found`, `FoundInTail`, `NeedsTail` | what `_take` has been given by then; a slice of a video's end; `needs_tail` |
| `start`, `end`, `held`, `total`, `found`, `prefix` | the locals of `fetch_bytes`; `good`, auxiliary, is how many of the bytes held are the file's |
| `Partial`, `Whole`, `Error`, `TailPartial`, `TailRefused` | a 206, a 200, another status, and the tail's |
| a graph | nodes in the order of the file with id, class and widget value; links; whether the frontend lists unlinked widgets |
| `RankAt`, `RankOf`, `AtRank`, `Bag`, `Says`, `CanonicalForm` | the stable sort, `rank.get(id, -1)`, `order`, a sorted list as how often each element occurs, what an edge says of its slots (a canvas: output slot, input slot, type; a prompt: output slot, input name), `canon_nodes` and `edges` |
| `SaveBindings`, `ApiBindings` | `_save_bindings`, and the bindings of `_derive_api` |
| `Sent`, `Written`, `Executed` | external: how ComfyUI turns the canvas into a prompt |
| `Share`, `Ask`, `Answer`, `Load` | a workflow is saved again or changed; a fetch; a reply; transform |

Bytes that are not the file's, behind a 200 to a continuation, may look like
anything to a walk but hold no payload. A slice is never shorter than asked,
unless the file ends. A node has one loader widget; muted nodes, reroutes,
attribution and the counts are left out. `Virtual` are the classes the frontend
resolves before it sends a prompt; `FRONTEND_NATIVE` also names some that the
server has (core_nodes.json lists PrimitiveInt and its like), and nothing is
assumed of the two sets.

## 3. Runs

| Run | Question | Instance |
|---|---|---|
| `faults` | Does one fetcher lose, forge or take back a capture, whatever goes wrong? TypeOK, DoneIsDurable, RecordsResolve, CleanExitHoldsNoLease, ConcludedIsFinal, KeepsContract | three artifacts (workflow in the bytes; only in the API, byte-identical to the first; barren), batch 3, FLUSH_EVERY 2, two faults |
| `rivals` | Does safety need one fetcher at a time (IInv), and does the queue drain (Drained)? | two fetchers, two artifacts, batch 1, FLUSH_EVERY 1 (so that flushing and marking in the loop happen), one fault, leases that lapse under live runs |
| `refusals` | Is a refusing host latched, and how often is it asked meanwhile? TypeOK, LatchedAtThreshold, RefusalStreakBounded, RefusalsPerRunBounded | fetch and the tip, one host, thresholds 2, one retry, budget 3, one fault |
| `gate` | Does a run slip through a gate that was closed (ClosedGateHolds)? Can an outage retire the source (NotRetired)? | fetch and the backlog, two hosts, one unlatch |
| `ingest` | Is what was marked consumed loaded (ConsumedIsLoaded), and is every manifest consumed (AllConsumed)? TypeOK | two ingesters, two manifests in any order, limit 1, a part written twice, an unreadable blob, a table dropped and recreated, one fault |
| `sweep` | Is an exhausted partition swept to its end (ExhaustedIsSwept), has a tip that says it is caught up queued what it passed (CaughtUpIsQueued), and is every partition exhausted in the end (AllSwept)? TypeOK | a tip and two backlog pods, four artifacts of two users, two of them in one post and one of these one that fetch may give up, the newest wanted by neither job, pages of two, at most two pages to a tip and one to a sweep, two dry pages to stop as in the code, one fault |
| `deploy` | Does migrating on every tick work: BootstrapAlone, AppliedOnce, InOrder, SchemaCatchesUp, JobHasItsSchema? Do index and bucket agree (IndexResolves), does only what expired go (OnlyExpiredGo), and does it go (PrefixesAgeOut)? DeploymentTypeOK | a fetch and a gc pod, two prefixes and a workflow, a `--limit` of one, three releases (the second with a migration that sorts first, the third with an edited one), one rollout, one fault in a migration or in a job, somebody running --check in the fetch pod's place |
| `extract` | Does escalation find what one large request would but for two named cases (HeadReach), at either end of a video (VideoReach), and do the kept bytes re-parse (PrefixReparses)? Do forms tell workflows apart (CanonicalDecides), do canvas and prompt agree (BindingsAgree)? ExtractTypeOK | fourteen files of up to twelve units, windows of 2 and 8, tail of 2; three workflows of three nodes, saved again in any numbering and order with at most one change |

Four more runs each show a promise of the repository that the code does not
keep; `PROJECT.json` quotes the line of each under `findings`.

| Run | What TLC finds |
|---|---|
| `gone` | `image_get` returns None for a timeout or a 5xx as well, and fetch then skips a live artifact for good as "gone (404)" |
| `relatch` | `clear_latch` keeps the row and `record_refusal` inserts ON CONFLICT DO NOTHING, so a host that was unlatched once is never latched again |
| `backlog` | discover-backlog catches HostBlocked with every other exception of a partition and asks the latched host again for the next one |
| `rebuild` | ensure_schema drops a table but not the consumed set, so its rows never come back |

Other disagreements met on the way are in `hazards`, with the modules that show
them when their bounds are changed:

* *Overlapping fetchers.* `finish` and `release` do not look at the lease's
  owner. With `Fetchers = {f1, f2}` ConcludedIsFinal fails: a run whose lease
  lapsed takes back the other's conclusion. `lake/config.py` line 58 says one
  pod per host, and the property is checked under that.
* *Negatives.* A CDN error status or a failed API call ends in a negative
  record and a done row, like an artifact that holds nothing.
* *Backoff.* It is read at the gate alone; the run under way goes on knocking
  and doubles it with each failed request.
* *Pages lost to a raising enqueue.* A sweep's cursor stands behind the page in
  hand, so a sweep that is resumed passes it over and may still end exhausted.
  ExhaustedIsSwept exempts these artifacts (`missed`) and no others.
* *Unreadable blobs and repeated parts.* A blob that cannot be read is passed
  over and reported nowhere; a part whose put raised after storing it may be
  consumed before it is written again with more lines. Both are in `lost`.
* *The tip's stopping rule.* Two pages that queue nothing new end a tip run;
  `discover.py` line 141 says "Two in a row means we are past the new work."
  Pages that the backlog, or a tip run cut off by max_pages, has queued are dry
  too, and so are pages with no artifact the tip wants; new artifacts of other
  users below them wait for their own partition's sweep.
* *gc on GCS.* `cli.py` line 13 calls every subcommand an idempotent batch.
  After a kill between delete and forget the object is gone and its row is not;
  GCS's delete then raises in every run, and the rows behind are not collected
  by a run that meets that one first. PrefixesAgeOut exempts it (`Stuck`).
* *gc's limit.* `expired_blobs` (`db.py` lines 337-341) is a LIMIT without ORDER
  BY. While more rows are expired than the limit takes, which ones go is
  Postgres' choice: a row may be passed over for ever as others are collected,
  put again and expire. PrefixesAgeOut is a promise to a row only once the limit
  takes all that are expired.
* *A refusal that cannot be recorded.* `fetch.py` line 248 adds the row to
  `processed` before line 252 hands it back; if that raises, the row is neither
  marked nor released and waits for its lease.
* *Objects without a row.* A put that dies before it is recorded leaves an
  object that no gc knows. A dedup does not extend `expires_at`.
* *WebP.* `capture.py` line 97 says "Video parks its metadata at the end of the
  file; so does WebP", and the tail of a WebP is fetched, but a slice without a
  signature is only ever searched for MP4 boxes: EXIF beyond MAX_HEAD is lost. A
  chunk that ends exactly where a window does, short of MAX_HEAD, reads as the end
  of the file and stops the escalation (`EndsOnWindow`, exempt from HeadReach).
* *PNG.* `capture.py` line 84 parses once more, past the pixels, for what
  "happened to land inside the window"; whether there is another window is the
  first parse's affair, and that concludes at IDAT (`wfmeta.py` line 161). A text
  chunk behind the pixels and past the last window is not found, where one
  large request would have it (`OutOfWindow`, exempt from HeadReach).
* *Video.* A `data` box in the tail is found only with the header of its list; a
  box that straddles the end of the head, or the start of the tail, is lost. A
  prompt found in the head is not in the bytes kept when the tail was.
* *A server that ignores ranges.* The 200 to a continuation is the file from its
  start, appended behind the first window.
* *Slots.* A canvas names an input by its slot (`derive.py` line 451). A frontend
  that lists a widget in front of a linked input shifts the slot, and the same
  workflow gets another canonical hash; a prompt, which has the name, keeps its
  own. CanonicalDecides takes such a save for a change of the workflow.
* *Ties.* `derive.py` line 416 says that the canonical form "Strips everything a
  re-share mutates". Nodes with equal class and values keep the order of the
  file, and links name them by rank, so a graph with such nodes may change its
  hash when it is only saved again. Without widget values all nodes of a class
  tie: two shares with one canonical hash may have two structural hashes.

### Bounds, and why they are enough

* Artifacts, fetchers: the races of the capture are between one run and its own
  past (a failed flush, a re-claim) or between two runs; a second artifact is
  needed for a full buffer, a third for a row the loop has not reached. The
  proofs cover any number.
* `MaxFaults` bounds crashes, stops, refusals and failing calls. Two are needed
  for the deepest scenario known (a mark pass that fails in the loop, then a
  second failure in the `finally`). Requests that fail and are swallowed cost
  no fault and happen without bound.
* Thresholds of 2 instead of 3, a cap of one to three ticks instead of 48
  doublings, one retry instead of three: each keeps "below, at, above".
* The `gate` run has MaxRetries 0, a budget of 1 and a cap of 1 tick: its
  properties do not depend on how a request ends but on which host is blocked
  when; `refusals` has the larger values with one host.
* Two manifests and a limit of one: one in the batch and one that waits.
* `gc`'s limit of one is below the two prefixes, so that what one run leaves the
  next one takes, and `DRY_PAGES` is the code's own two: a dry page followed by one
  that queues something does not stop the tip. Its second page is its last.
* In `sweep` one user's three artifacts are two pages, so that a sweep is cut
  off and resumed (also by another pod, or from an overwritten cursor); the
  other user's is published while the jobs run and wanted by nobody, so its
  partition is added and swept for nothing. Fetch may give up the newer artifact
  of the shared post only (`Perishable`): giving up decides whether another
  artifact of the post may be queued, and so nothing for one alone in its post.
* In `deploy` the second release adds a migration below an applied one, so that
  order, rollback and catching up meet; two pods suffice for a race for the lock.
  MaxFaults bounds what goes wrong in a migration and in a job together.
* In `extract` a unit is a chunk header; files end inside, at and behind each
  window and chunks are cut by each. Three nodes of two real classes and a
  primitive give ties, dangling links and links of every kind.
* Runs stop when faults and work are used up, so CHECK_DEADLOCK is FALSE where
  they do.

### Fairness

Weak fairness, of each process as a whole: a pod that is alive executes its
next statement and its requests are answered or time out; a CronJob ticks
(`Claim`, `Start`, `Begin`, `ClaimPartition`); clocks advance (`Lapse`, `Tick`). Nothing is
assumed of the outcome of a request, of which of several answers is given or of
the order in which pods run; AllSwept asks nothing of the tip at all. In
`deploy` two steps of the gc pod are strongly fair: `Acquire`, since Postgres
grants a lock in the order of its queue, and `Begin` without --check, since the
CronJob ticks whatever someone runs by hand. The fetch pod need not tick at all:
one CronJob is enough for the schema to catch up. Drained is about finitely many faults: nothing in
the code limits the attempts of an artifact that kills its run.

## 4. Proofs

`CaptureProofs` proves, for any artifacts, fetchers, contents, digests, batch,
FLUSH_EVERY and number of faults (`ConstantsAssumption`, which only types the
constants):

| Theorem | States |
|---|---|
| `TypeCorrect` | `Spec => []TypeOK` |
| `DoneDurable` | `Spec => []DoneIsDurable` |
| `RecordsResolved` | `Spec => []RecordsResolve` |
| `CleanExit` | `Spec => []CleanExitHoldsNoLease` |
| `Invariant` | `Spec => []IInv` |

None of these assumes one fetcher at a time: leases may lapse under live runs.
Two more do (`OneFetcher`; `lake/config.py` line 58: one pod per host), since a
second run takes back what the first concluded (section 3):

| Theorem | States |
|---|---|
| `ContractKept` | `Spec => KeepsContract`, the refinement of CaptureContract |
| `ConclusionsFinal` | `Spec => ConcludedIsFinal` |

The properties are not inductive by themselves. `IInv` adds

* `UndurableIsBuffered`: each row in `undurable` has a complete capture in the
  bucket or in that run's buffer, and while rows are being marked the buffer is
  empty. Without it nothing connects the row that `Mark` finishes with the
  part that `Flush` put, several steps earlier, possibly for artifacts that
  have since failed.
* `BlobsFirst`: blobs are stored before they are indexed and before a record
  that names them is buffered, whatever run stored them. It carries
  RecordsResolve through a dedup against the index.
* `LeasesAreOwed`: a leased row that a live run holds is one it has not
  processed, has yet to mark, or has stranded. It gives CleanExitHoldsNoLease at
  `Release`.

The refinement adds `Owning`: a row that a run may still skip, fail or hand back
is leased, and nothing it may mark done was ever skipped; it stands in for the
guards that no statement has. Then `NextContract` takes each action of Capture to an action of CaptureContract or a
stutter, and finality is a fact about the contract alone.

The proof has a typing lemma for each action, then one lemma for each conjunct
with a step for each action that can disturb it. TLC checks IInv (run
`rivals`), and the theorems hold of the same definitions.

`MigrateProofs`, `RetentionProofs` and `DeploymentProofs` prove, for any pods,
releases, migrations, blobs and number of rollouts, kills and failing calls:

| Theorem | States |
|---|---|
| `Migrates` | `Spec => []MigrateInv`, of Migrate |
| `BootstrapsAlone`, `AppliesOnce`, `AppliesInOrder` | `Spec => []BootstrapAlone`, `[]AppliedOnce`, `[]InOrder` |
| `RowsResolve`, `OnlyExpiredLeave` | `Spec => []IndexResolves`, `OnlyExpiredGo`, of Retention |
| `ImplementsMigrate`, `ImplementsRetention` | `DeploymentSpec` implies the `Spec` of each part |
| `JobsHaveTheirSchema` | `DeploymentSpec => []JobHasItsSchema` |
| `DeploymentRowsResolve`, `DeploymentOnlyExpiredLeave`, `DeploymentTypeCorrect` | `DeploymentSpec => []IndexResolves`, `OnlyExpiredGo`, `[]DeploymentTypeOK` |

* They rest on `ReleasesAssumption` (a release ships something; migrations are
  numbers in the order of their names, so any of them have a first) and on `Parameters`. What is
  said of blobs supposes one gc at a time (`OneCollector`: a CronJob with
  `concurrencyPolicy: Forbid` does not overlap itself); the number of fetchers
  is free.
* `MigrateInv` adds `LockHeld` (a pod between lock and unlock holds the lock,
  also when an earlier pod's session outlived it), `Progress` (what `pending`
  found missing is missing until this pod applies it, what is not in its list is
  there with its text, and a pod that succeeded was served) and `History` (what
  was applied is recorded, with all its release has below it). Progress is what
  makes ON CONFLICT DO NOTHING redundant: under the lock it never hides anything.
* `RetentionInv` says of each job that what a fetcher is about to record is in
  the bucket, that nobody writes what has expired, and that the list gc works
  from still consists of expired rows. Without the second nothing keeps a put
  from recording a blob that gc is deleting.
* `JobsHaveTheirSchema` combines `Progress` with `Gated`: a pod whose job runs is
  one that finished its initContainer and has not been replaced since.

TLC checked MigrateInv on three pods with two rollouts and two faults, and
RetentionInv with two fetchers, before they were proved.

`PolitenessProofs` proves, for any jobs, hosts, thresholds, retries, budgets and
backoff caps (`ConstantsAssumption`):

| Theorem | States |
|---|---|
| `PoliteInvHolds` | `Spec => []PoliteInv` |
| `Typed`, `GateHolds`, `RefusalsBounded` | `Spec => []TypeOK`, `[]ClosedGateHolds`, `[]RefusalsPerRunBounded` |
| `LatchedUntilUnlatched` | `Spec => [](unlatches = 0 => LatchedAtThreshold)` |
| `StreakBounded` | no job is a backlog drain: `Spec => [](unlatches = 0 => RefusalStreakBounded)` |
| `ClearedForGood` | `Spec => OnlyHumansClear`: who may change a latch |

* The two hypotheses are the code's own limits and have a run each that shows
  why: after an unlatch nothing latches the host (`relatch`), and the backlog
  swallows HostBlocked and asks again (`backlog`).
* `StoodOK` ties a run at a check of the gate to the blocks that have stood since
  it began: none of them is among the checks behind it. `RunOK` bounds a run's
  refusals by its attempt. `Counted` is what makes the streak inductive: from the
  threshold on, the tally plus the jobs an active latch no longer stops stays below
  threshold plus jobs; a refusal adds one to the first and ends a job of the second.

`IngestProofs` proves, for any ingesters, manifests, records and limits, in any
order of arrival, with any number of repeated parts, drifts and faults:

| Theorem | States |
|---|---|
| `IngestInvHolds`, `Typed`, `ConsumedLoaded` | `NoSharedBlob`: `Spec => []IngestInv`, `[]TypeOK`, `[]ConsumedIsLoaded` |
| `OtherwiseNothingIsLost` | no drift, no repeat, nothing unreadable: `Spec => []RebuildLosesNothing` |

* `NoSharedBlob` is what the proof found that the runs had not: the key of a raw
  row (`schema.sql` line 72) has the second of its capture (`capture.py` line 149),
  so an artifact that is captured twice within one second has one line in two
  manifests. If its blob cannot be read by the run that loads the second, the row
  of the first is replaced by one without a workflow. The theorems need that no
  such line has an unreadable blob.
* `Stored` says what a run between two inserts has behind it, table by table,
  unless its manifest is in `lost`; `OneMind` says that a manifest with an
  unreadable blob is in one run's hands only, and not consumed, or it is in `lost`.
  Without the second a run could overwrite what the other has loaded.
* The second theorem is the converse of the finding of run `rebuild`: the
  promise fails for the reasons named and for no other.

`DiscoveryProofs` proves, for any listing, users, page size, DRY_PAGES, pods and
faults:

| Theorem | States |
|---|---|
| `SweepInvHolds`, `ExhaustedSwept`, `CaughtUpQueued` | `Spec => []SweepInv`, `[]ExhaustedIsSwept`, `[]CaughtUpIsQueued` |
| `Typed` | `Spec => []TypeOK` |

* `SweepInv` says of every cursor, a partition's or a run's, that what the job
  wants of what was published when it began, from the cursor on up, is queued,
  represented by an artifact of its post, missed, or on the page in hand. A cursor moves before its
  page is queued, so the page has to be in the invariant; several runs sweep one
  partition, so what counts as settled may never be taken back (`Grows`).

`ExtractProofs` proves, for every file, every HEAD_WINDOW, MAX_HEAD and
TAIL_WINDOW (`WindowsAssumption`) and every workflow (`GraphsAssumption`):

| Theorem | States |
|---|---|
| `ExtractInvHolds`, `Typed` | `ExtractSpec => []ExtractInv`, `[]ExtractTypeOK` |
| `HeadReaches`, `VideoReaches`, `PrefixesReparse` | `ExtractSpec => []HeadReach`, `[]VideoReach`, `[]PrefixReparses` |
| `CanonicalDecided`, `BindingsAgreed` | `ExtractSpec => []CanonicalDecides`, `[]BindingsAgree` |

* `FetchInv` is `Asking` (a window begins where the one before ended, and an
  honest server has filled what lies before it), `Finds` (what has been found is
  what the parser makes of the bytes held) and `Reaches` (a fetch that is over
  has found what one request would). The argument about escalation is that a walk
  over a slice that reached its conclusion passes the same chunks as the walk over
  any longer one (`ConclusionStands`), and that a walk which claims to be through
  has reached it (`HonestStop`). A PNG's walk concludes at its pixels, so what the
  second parse adds is split there (`BeforePixels`, `CutPasses`). They rest on the layout of chunks (`LayOut`,
  `OffsetGrows`), proved by induction over their list.
* Equal forms are equal workflows because the stable sort is a permutation:
  `Ahead` is a strict total order, so `RankAt` is one-to-one from the nodes to the
  numbers below their count, and by counting onto them. The nodes of two equal
  forms that have one rank match (`Matches`), and their bags of links are the same
  bag under one renaming (`BagsAlike`). Conversely a matching keeps the keys, and where no
  two keys are equal it keeps the ranks (`MatchFollowsSort`). The proof is about the
  operators (`FormsDecide`); the invariant only says that a row is of its graph.
* The bindings are proved graph by graph: node ids are unique, so what a row says
  of a node is what `SaveBindings` or `ApiBindings` says of it.
* The attempt corrected the model. HeadReach exempted only a WebP chunk that ends
  on the first window; with windows of 1 and 16 any window will do. The bytes held
  may reach three times MAX_HEAD, not twice, when MAX_HEAD is no HEAD_WINDOW times
  a power of four and a server ignores ranges. And canvas and prompt agree on
  literals only for nodes that are executed.

Inductive invariants were checked by TLC on small instances before they were
proved (with windows 2/8/2, 1/16/1 and 1/5/1 for FetchInv).

Induction is used in the form of the least counterexample: `NatHasLeast` follows
from the well-foundedness of < (WellFoundedInduction), without an operator as a
parameter. What a recursive function computes (`Offsets`) is proved that way, from
the existence of the function; operators of the library that are RECURSIVE inside
(SelectSeq among them) are avoided where something is proved: `Without` in
Discovery is two SubSeqs, and the nodes of a prompt are a function on their places
in the file. A leaf whose fate depends on how fast the provers run is broken down
further: every proof also goes through at two fifths of the time the provers have
by default.

Only model-checked: Drained, NotRetired, AllConsumed, AllSwept, SchemaCatchesUp
and PrefixesAgeOut: liveness, which is out of this prover's reach.

## 5. Not modelled, and the plan

Next:

* `Lake`: the promises of Capture and Ingest composed: a captured workflow is
   in the tables in the end.

Not modelled, and not planned: the decoding of a chunk's own bytes (zlib, EXIF,
JSON) and devalue's references; pack attribution, counts and model edges in
derive, which are sums over one node or one line; the configuration, status and
selftest (no state, no concurrency).
