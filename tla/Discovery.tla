----------------------------- MODULE Discovery -----------------------------
(***************************************************************************)
(* `lake discover-tip` pages the source's newest listing until two pages   *)
(* in a row add nothing; `lake discover-backlog` sweeps partitions, one    *)
(* user's listing each, under a lease and from where the last sweep left   *)
(* off.  Both put artifacts into crawl_queue, one per post.                *)
(*                                                                         *)
(* Every database call is a transaction of its own, and between two calls  *)
(* the other job, a fetcher or the source may move.  An artifact is the    *)
(* number of its place in the order of publication, so the listing only    *)
(* grows at its new end; a cursor is the artifact the last page ended on.  *)
(***************************************************************************)
EXTENDS Naturals, FiniteSets, Sequences

CONSTANTS
  LastItem,       \* bound: artifacts the source ever publishes
  Initial,        \* artifacts it has published before the crawler starts
  UserOf, PostOf, \* the user and the post of an artifact
  Tips, Drainers, \* pods that may run discover-tip, discover-backlog
  NoUser,         \* no partition is being swept
  TipWants,       \* artifacts `wanted` keeps in the tip's mode
  BacklogWants,   \* and in the backlog's: comfy, complete and all are nested
  Perishable,     \* artifacts that fetch may skip or fail
  PageSize,       \* limit
  TipPages,       \* max_pages
  SweepPages,     \* max_pages_per_partition
  DryPages,       \* DRY_PAGES_TO_STOP
  MaxFaults       \* bound: crashes, calls that raise, artifacts fetch gives up

Items == 1 .. LastItem
Users == {UserOf[i] : i \in Items}
Posts == {PostOf[i] : i \in Items}
Jobs  == Tips \cup Drainers

ASSUME ConstantsAssumption ==
  /\ LastItem \in Nat /\ Initial \in 0 .. LastItem
  /\ DOMAIN UserOf = Items /\ DOMAIN PostOf = Items
  /\ Tips \cap Drainers = {} /\ NoUser \notin Users
  /\ TipWants \subseteq Items /\ BacklogWants \subseteq Items
  /\ Perishable \subseteq Items
  /\ TipWants \subseteq BacklogWants \/ BacklogWants \subseteq TipWants
  /\ {PageSize, TipPages, SweepPages, DryPages} \subseteq Nat \ {0}
  /\ MaxFaults \in Nat

\* A cursor that is NULL: start from the newest.  The source gives the same
\* for "there is no next page".
NoCursor == 0
Cursors  == Items \cup {NoCursor}

VARIABLES
  published,  \* the newest artifact listed
  queue,      \* artifacts with a row in crawl_queue
  abandoned,  \* those of them that are skipped or failed
  part,       \* crawl_partition; `known` is auxiliary: the newest artifact of the
              \* user when the row was inserted, 0 while there is none
  unswept,    \* partitions never swept, by discovered_at
  swept,      \* the others, by swept_at
  run,        \* each job's process
  missed,     \* auxiliary: artifacts of pages a sweep has read and not queued
  faults

vars == <<published, queue, abandoned, part, unswept, swept, run, missed, faults>>
partitions == <<part, unswept, swept>>

Partition == [known : Cursors, cursor : Cursors, exhausted : BOOLEAN,
              leased : BOOLEAN]

\* The pages a run reads at most.
Cap(j) == IF j \in Tips THEN TipPages ELSE SweepPages

\* page: what the run has of the page in hand still to queue.  seen: posts it
\* has read as captured.  pages, dry: pages, and dry pages in a row, so far.
\* from: auxiliary: what was published when the run began.
Steps == {"idle", "page", "partitions", "posts", "enqueue", "update", "caughtup"}
Run == [pc : Steps, user : Users \cup {NoUser}, cursor : Cursors,
        page : SUBSET Items, seen : SUBSET Posts, pages : Nat,
        dry : 0 .. DryPages, done : BOOLEAN, from : Cursors]

Idle == [pc |-> "idle", user |-> NoUser, cursor |-> NoCursor, page |-> {},
         seen |-> {}, pages |-> 0, dry |-> 0, done |-> FALSE, from |-> 0]

Init ==
  /\ published = Initial
  /\ queue = {} /\ abandoned = {} /\ missed = {}
  /\ part = [u \in Users |-> [known |-> 0, cursor |-> NoCursor,
                              exhausted |-> FALSE, leased |-> FALSE]]
  /\ unswept = <<>> /\ swept = <<>>
  /\ run = [j \in Jobs |-> Idle]
  /\ faults = 0

Becomes(j, r) == run' = [run EXCEPT ![j] = r]
Fault == faults < MaxFaults /\ faults' = faults + 1

----------------------------------------------------------------------------
\* The source.

Publish ==
  /\ published < LastItem /\ published' = published + 1
  /\ UNCHANGED <<queue, abandoned, partitions, run, missed, faults>>

\* What is older than the cursor in the listing a job pages: everyone's for
\* the tip, one user's for the backlog.
Older(j) == {i \in 1 .. published :
               /\ run[j].cursor = NoCursor \/ i < run[j].cursor
               /\ j \in Drainers => UserOf[i] = run[j].user}

\* The next page of it, and the cursor behind that page.
NextPage(j) == {i \in Older(j) : Cardinality({k \in Older(j) : k > i}) < PageSize}
Oldest(page) == CHOOSE i \in page : \A k \in page : i <= k
NextCursor(j) == IF Older(j) = NextPage(j) THEN NoCursor ELSE Oldest(NextPage(j))

----------------------------------------------------------------------------
\* Partitions (lake/db.py).

\* claim_partition's order: swept_at NULLS FIRST, discovered_at.
Line == unswept \o swept

\* `leased` is lease_until > now(): a lease that has expired is no lease.
Claimable == {u \in Users : part[u].known # 0 /\ ~part[u].exhausted /\ ~part[u].leased}

\* The line without u, which it holds once at most.
Without(s, u) ==
  IF \E n \in DOMAIN s : s[n] = u
  THEN LET n == CHOOSE n \in DOMAIN s : s[n] = u
       IN  SubSeq(s, 1, n - 1) \o SubSeq(s, n + 1, Len(s))
  ELSE s

\* lease_until passes.
Lapse(u) ==
  /\ part[u].leased
  /\ part' = [part EXCEPT ![u].leased = FALSE]
  /\ UNCHANGED <<published, queue, abandoned, unswept, swept, run, missed, faults>>

\* The first of the line that can be claimed.
Turn(u) ==
  \E n \in DOMAIN Line : /\ Line[n] = u /\ u \in Claimable
                         /\ \A m \in 1 .. n - 1 : Line[m] \notin Claimable

\* Mutant of ClaimPartition: every sweep starts from the newest.
ClaimFromTop(j) ==
  /\ j \in Drainers /\ run[j].pc = "idle"
  /\ \E u \in Users :
       /\ Turn(u)
       /\ part' = [part EXCEPT ![u].leased = TRUE]
       /\ Becomes(j, [Idle EXCEPT !.pc = "page", !.user = u])
  /\ UNCHANGED <<published, queue, abandoned, unswept, swept, missed, faults>>

\* The next round of discover_backlog's loop, which it leaves when there is
\* nothing to claim.
ClaimPartition(j) ==
  /\ j \in Drainers /\ run[j].pc = "idle"
  /\ \E u \in Users :
       /\ Turn(u)
       /\ part' = [part EXCEPT ![u].leased = TRUE]
       /\ Becomes(j, [Idle EXCEPT !.pc = "page", !.user = u,
                                  !.cursor = part[u].cursor])
  /\ UNCHANGED <<published, queue, abandoned, unswept, swept, missed, faults>>

\* Mutant of UpdatePartition: a sweep cut off by max_pages counts as the last.
UpdateAtCap(j) ==
  LET r == run[j] IN
  /\ r.pc = "update"
  /\ part' = [part EXCEPT ![r.user] = [@ EXCEPT !.cursor = r.cursor,
                !.exhausted = r.done \/ r.pages = SweepPages, !.leased = FALSE]]
  /\ unswept' = Without(unswept, r.user)
  /\ swept' = Append(Without(swept, r.user), r.user)
  /\ Becomes(j, Idle)
  /\ UNCHANGED <<published, queue, abandoned, missed, faults>>

\* update_partition overwrites the row, whoever holds the lease by now.
UpdatePartition(j) ==
  LET r == run[j] IN
  /\ r.pc = "update"
  /\ part' = [part EXCEPT ![r.user] = [@ EXCEPT !.cursor = r.cursor,
                                        !.exhausted = r.done, !.leased = FALSE]]
  /\ unswept' = Without(unswept, r.user)
  /\ swept' = Append(Without(swept, r.user), r.user)
  /\ Becomes(j, Idle)
  /\ UNCHANGED <<published, queue, abandoned, missed, faults>>

----------------------------------------------------------------------------
\* The loop over pages.

StartTip(j) ==
  /\ j \in Tips /\ run[j].pc = "idle"
  /\ Becomes(j, [Idle EXCEPT !.pc = "page", !.from = published])
  /\ UNCHANGED <<published, queue, abandoned, partitions, missed, faults>>

\* Where a job goes when its loop over the pages ends with r.
Leave(j, r) == Becomes(j, IF j \in Tips THEN Idle ELSE [r EXCEPT !.pc = "update"])

\* page_images answers; the cursor moves with the page.  An empty page ends
\* the listing.
ReadPage(j) ==
  LET r == run[j] IN
  /\ r.pc = "page"
  /\ IF Older(j) = {}
     THEN Leave(j, [r EXCEPT !.cursor = NoCursor, !.done = TRUE])
     ELSE Becomes(j, [r EXCEPT !.page = NextPage(j), !.cursor = NextCursor(j),
                               !.pages = @ + 1,
                               !.pc = IF j \in Tips THEN "partitions" ELSE "posts"])
  /\ UNCHANGED <<published, queue, abandoned, partitions, missed, faults>>

\* Sequences of all elements of a set, in any order.
Orders(S) == {s \in [1 .. Cardinality(S) -> S] : {s[n] : n \in DOMAIN s} = S}

\* The newest artifact of a user who has published one.
NewestOf(u) ==
  CHOOSE i \in 1 .. published :
    UserOf[i] = u /\ \A k \in 1 .. published : UserOf[k] = u => k <= i

\* add_partitions: every user on the page, wanted or not.
AddPartitions(j) ==
  LET new == {UserOf[i] : i \in run[j].page} \ {u \in Users : part[u].known # 0} IN
  /\ run[j].pc = "partitions"
  /\ part' = [u \in Users |-> IF u \in new THEN [part[u] EXCEPT !.known = NewestOf(u)]
                              ELSE part[u]]
  /\ \E s \in Orders(new) : unswept' = unswept \o s
  /\ Becomes(j, [run[j] EXCEPT !.pc = "posts"])
  /\ UNCHANGED <<published, queue, abandoned, swept, missed, faults>>

Wants(j) == IF j \in Tips THEN TipWants ELSE BacklogWants

\* _to_items: posts_already_captured counts no skipped or failed row.
ReadPosts(j) ==
  LET kept == run[j].page \cap Wants(j) IN
  /\ run[j].pc = "posts"
  /\ Becomes(j, [run[j] EXCEPT !.pc = "enqueue", !.page = kept,
                   !.seen = {PostOf[i] : i \in queue \ abandoned}
                              \cap {PostOf[i] : i \in kept}])
  /\ UNCHANGED <<published, queue, abandoned, partitions, missed, faults>>

\* Mutant of OnePerPost: a post that is on the page twice is dropped.
OnlyOfPost(j) ==
  {i \in run[j].page : /\ PostOf[i] \notin run[j].seen
                       /\ \A k \in run[j].page \ {i} : PostOf[k] # PostOf[i]}

\* The first of each post on the page, of posts not seen.
OnePerPost(j) ==
  {i \in run[j].page : /\ PostOf[i] \notin run[j].seen
                       /\ \A k \in run[j].page : k > i => PostOf[k] # PostOf[i]}

\* Mutant of GoesOn: one page more than the cap.
GoesOnOneMore(j, r) == r.cursor # NoCursor /\ r.pages <= Cap(j)

\* Whether the loop goes on behind a page after which the state is r.
GoesOn(j, r) == r.cursor # NoCursor /\ r.pages < Cap(j)

\* enqueue: ON CONFLICT DO NOTHING.  Then the tip counts dry pages.
Enqueue(j) ==
  LET new == OnePerPost(j) \ queue
      dry == IF new = {} THEN run[j].dry + 1 ELSE 0
      r   == [run[j] EXCEPT !.page = {}, !.seen = {},
                            !.dry = IF j \in Tips THEN dry ELSE 0]
  IN
  /\ run[j].pc = "enqueue"
  /\ queue' = queue \cup new
  /\ IF j \in Tips /\ dry = DryPages THEN Becomes(j, [r EXCEPT !.pc = "caughtup"])
     ELSE IF GoesOn(j, r) THEN Becomes(j, [r EXCEPT !.pc = "page"])
     ELSE Leave(j, [r EXCEPT !.done = r.cursor = NoCursor])
  /\ UNCHANGED <<published, abandoned, partitions, missed, faults>>

\* The tip is caught up: the run is finished as such.
CaughtUp(j) ==
  /\ run[j].pc = "caughtup"
  /\ Becomes(j, Idle)
  /\ UNCHANGED <<published, queue, abandoned, partitions, missed, faults>>

----------------------------------------------------------------------------
\* What goes wrong.

\* A request or a statement raises in the loop over the pages: the tip's run
\* ends; a sweep ends with the cursor behind the page it has read, queued or
\* not.
Raises(j) ==
  LET r == run[j] IN
  /\ r.pc \in {"page", "partitions", "posts", "enqueue"} /\ Fault
  /\ Leave(j, [r EXCEPT !.page = {}, !.seen = {}])
  /\ missed' = missed \cup IF j \in Drainers THEN r.page \cap Wants(j) ELSE {}
  /\ UNCHANGED <<published, queue, abandoned, partitions>>

\* The pod is gone, or update_partition raises.
Crash(j) ==
  /\ run[j].pc # "idle" /\ Fault
  /\ Becomes(j, Idle)
  /\ UNCHANGED <<published, queue, abandoned, partitions, missed>>

\* Fetch skips or fails an artifact.
Abandon(i) ==
  /\ i \in (queue \cap Perishable) \ abandoned /\ Fault
  /\ abandoned' = abandoned \cup {i}
  /\ UNCHANGED <<published, queue, partitions, run, missed>>

----------------------------------------------------------------------------
Proceed(j) ==
  \/ StartTip(j) \/ ClaimPartition(j) \/ UpdatePartition(j)
  \/ ReadPage(j) \/ AddPartitions(j) \/ ReadPosts(j) \/ Enqueue(j) \/ CaughtUp(j)

Next == \/ \E j \in Jobs : Proceed(j) \/ Raises(j) \/ Crash(j)
        \/ \E u \in Users : Lapse(u)
        \/ \E i \in Items : Abandon(i)
        \/ Publish

Spec == Init /\ [][Next]_vars

\* The backlog's CronJob ticks, its pods execute and get answers, and clocks
\* advance.  Nothing is asked of the tip's.
FairSpec == /\ Spec
            /\ \A j \in Drainers : WF_vars(Proceed(j))
            /\ \A u \in Users : WF_vars(Lapse(u))

----------------------------------------------------------------------------
\* Properties.

\* Every variable has its type, a run reads no more pages than its cap, and a
\* sweep is of a partition that has a row.
TypeOK ==
  /\ published \in Cursors
  /\ queue \subseteq 1 .. published /\ abandoned \subseteq queue
  /\ missed \subseteq 1 .. published
  /\ part \in [Users -> Partition]
  /\ unswept \in Seq(Users) /\ swept \in Seq(Users)
  /\ run \in [Jobs -> Run] /\ \A j \in Jobs : run[j].pages <= Cap(j)
  /\ \A j \in Drainers : run[j].pc # "idle" => part[run[j].user].known # 0
  /\ faults \in 0 .. MaxFaults

\* Policy: one artifact of a post stands for all of it.
Represented(i) == \E k \in queue : PostOf[k] = PostOf[i]

\* A partition that is called exhausted, and so is never swept again, has been
\* swept to its end: every artifact the backlog wants that its user had
\* published when it was discovered is queued or represented, unless a call
\* that raised lost it - also when the sweep was cut into several runs, resumed
\* after a kill, or swept by two runs since a lease expired.
ExhaustedIsSwept ==
  \A u \in Users : part[u].exhausted =>
    \A i \in BacklogWants : UserOf[i] = u /\ i <= part[u].known =>
      Represented(i) \/ i \in missed

\* Every partition is exhausted in the end, though sweeps are cut short, killed
\* and overwritten by runs whose lease has expired.
AllSwept == <>[](\A u \in Users : part[u].known # 0 => part[u].exhausted)

\* A tip run that stops as caught up has everything queued or represented that
\* it wants from its start down to its cursor, whatever the backlog and fetch
\* did between its reads and its inserts: a gap can only be left below that.
CaughtUpIsQueued ==
  \A j \in Tips : run[j].pc = "caughtup" =>
    \A i \in TipWants : i <= run[j].from /\ i >= run[j].cursor => Represented(i)
=============================================================================
