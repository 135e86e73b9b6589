--------------------------- MODULE DiscoveryProofs ---------------------------
(***************************************************************************)
(* Proofs about Discovery, for any number of tips, drainers, users, posts  *)
(* and artifacts, any page size and limits, and any number of faults.      *)
(***************************************************************************)
EXTENDS Discovery, FiniteSetTheorems, TLAPS

\* What a run is to see to: for the tip what it wants of what was published
\* when it began, for a sweep what it wants of what the user had published
\* when the partition was discovered.
Due(j, r) ==
  IF j \in Tips THEN {i \in TipWants : i <= r.from}
  ELSE {i \in BacklogWants : UserOf[i] = r.user /\ i <= part[r.user].known}

\* Queued or represented, or lost in a sweep by a call that raised.
Settled(j, i) == Represented(i) \/ (j \in Drainers /\ i \in missed)

\* A run has passed an artifact when its cursor is at or below it; without a
\* cursor, when the listing is at its end rather than not begun.
AtEnd(r) == r.pc \in {"partitions", "posts", "enqueue", "caughtup"} \/ r.done
Passed(r, i) == r.cursor <= i /\ (r.cursor = NoCursor => AtEnd(r))

\* The run by itself, and with what is published and queued.
RunOK(j, r) ==
  /\ r \in Run
  /\ r.page \subseteq 1 .. published /\ r.from <= published
  /\ r.pc \in {"idle", "page", "update", "caughtup"} => r.page = {}
  /\ r.pages <= Cap(j) /\ (r.pc = "page" => r.pages < Cap(j))
  /\ r.pc # "caughtup" => r.dry < DryPages
  /\ r.done => r.pc = "update" /\ r.cursor = NoCursor
  /\ r.pc = "enqueue" => r.page \subseteq Wants(j)
  /\ \A p \in r.seen : \E k \in queue : PostOf[k] = p
  /\ j \in Tips => r.pc # "update"
  /\ j \in Drainers /\ r.pc # "idle" => r.user \in Users /\ part[r.user].known # 0

\* What a run has passed is settled or on the page in hand.
Covers(j, r) ==
  r.pc # "idle" => \A i \in Due(j, r) : Passed(r, i) => i \in r.page \/ Settled(j, i)

RunInv(j, r) == RunOK(j, r) /\ Covers(j, r)

\* A partition by itself, and what its cursor has passed.
PartOK(u) ==
  /\ part[u].known <= published
  /\ part[u].known = 0 => part[u].cursor = NoCursor
  /\ part[u].exhausted => part[u].known # 0 /\ part[u].cursor = NoCursor
PartCovers(u) ==
  \A i \in BacklogWants :
    /\ UserOf[i] = u /\ i <= part[u].known /\ part[u].cursor <= i
    /\ part[u].cursor = NoCursor => part[u].exhausted
    => Represented(i) \/ i \in missed

TablesOK ==
  /\ published \in Cursors
  /\ queue \subseteq 1 .. published /\ abandoned \subseteq queue
  /\ missed \subseteq 1 .. published
  /\ part \in [Users -> Partition]
  /\ faults \in 0 .. MaxFaults

\* The inductive invariant.
SweepInv ==
  /\ TablesOK
  /\ \A u \in Users : PartOK(u) /\ PartCovers(u)
  /\ run \in [Jobs -> Run]
  /\ \A j \in Jobs : RunInv(j, run[j])

\* The line is of partitions.
LineOK == unswept \in Seq(Users) /\ swept \in Seq(Users)

\* Nothing a run or a partition counts on is taken back.
Grows ==
  /\ published <= published' /\ queue \subseteq queue' /\ missed \subseteq missed'
  /\ \A u \in Users : part[u].known # 0 => part[u].known = part'[u].known

----------------------------------------------------------------------------
\* The operators.

\* Any numbers have a least one, by the well-foundedness of <.
LEMMA NatHasLeast ==
  ASSUME NEW S \in SUBSET Nat, S # {}
  PROVE  \E m \in S : \A k \in S : m <= k
<1> DEFINE Less == OpToRel(<, Nat)
<1>1. IsWellFoundedOn(Less, Nat)
  BY NatLessThanWellFounded
<1>2. PICK m \in S : \A k \in S : <<k, m>> \notin Less
  <2> HIDE DEF Less
  <2> QED BY <1>1, WFMin
<1>3. \A k \in S : ~(k < m)
  BY <1>2 DEF OpToRel
<1> QED BY <1>3

\* Some artifacts have a newest.
LEMMA HasNewest ==
  ASSUME ConstantsAssumption, NEW S \in SUBSET Items, S # {}
  PROVE  \E m \in S : \A k \in S : k <= m
<1> DEFINE T == {LastItem - i : i \in S}
<1>1. LastItem \in Nat /\ \A i \in S : i \in Nat /\ i <= LastItem
  BY DEF ConstantsAssumption, Items
<1>2. T \in SUBSET Nat /\ T # {}
  BY <1>1
<1>3. PICK t \in T : \A k \in T : t <= k
  <2> HIDE DEF T
  <2> QED BY <1>2, NatHasLeast
<1>4. PICK m \in S : t = LastItem - m
  OBVIOUS
<1>5. ASSUME NEW k \in S PROVE k <= m
  <2>1. LastItem - m <= LastItem - k
    BY <1>3, <1>4
  <2> QED BY <2>1, <1>1
<1> QED BY <1>5

\* A user who has published something has a newest artifact.
LEMMA NewestOfIs ==
  ASSUME ConstantsAssumption, published \in Cursors, NEW u,
         \E i \in 1 .. published : UserOf[i] = u
  PROVE  NewestOf(u) \in 1 .. published
<1> DEFINE S == {i \in 1 .. published : UserOf[i] = u}
<1>1. S \in SUBSET Items /\ S # {}
  BY DEF ConstantsAssumption, Cursors, Items, NoCursor
<1>2. PICK m \in S : \A k \in S : k <= m
  BY <1>1, HasNewest
<1>3. \E i \in 1 .. published :
        UserOf[i] = u /\ \A k \in 1 .. published : UserOf[k] = u => k <= i
  BY <1>2
<1> QED BY <1>3 DEF NewestOf

\* A page is the newest of what is older than the cursor; the cursor behind it
\* has passed nothing of that but the page.
LEMMA PageFacts ==
  ASSUME ConstantsAssumption, published \in Cursors, NEW j \in Jobs, Older(j) # {}
  PROVE  /\ NextPage(j) \subseteq Older(j)
         /\ NextCursor(j) \in Cursors
         /\ NextCursor(j) = NoCursor => NextPage(j) = Older(j)
         /\ \A i \in Older(j) : NextCursor(j) <= i => i \in NextPage(j)
<1> DEFINE S == Older(j)
           P == NextPage(j)
           Newer(i) == {k \in S : k > i}
<1>1. LastItem \in Nat /\ published \in Nat /\ published <= LastItem
  BY DEF ConstantsAssumption, Cursors, Items, NoCursor
<1>2. S \in SUBSET Items
  BY <1>1 DEF Older, Items
<1>3. \A i \in S : i \in Nat /\ i <= LastItem /\ i # 0
  BY <1>2, <1>1 DEF Items
<1>4. P \subseteq S /\ \A i \in S : i \in P <=> Cardinality(Newer(i)) < PageSize
  BY DEF NextPage
<1>5. IsFiniteSet(S)
  BY <1>1, <1>3, FS_BoundedSetOfNaturals
<1>6. P # {}
  <2>1. PICK m \in S : \A k \in S : k <= m
    BY <1>2, HasNewest
  <2>2. Newer(m) = {}
    <3> SUFFICES ASSUME NEW k \in S PROVE ~(k > m)
      OBVIOUS
    <3> QED BY <2>1, <1>3
  <2>3. Cardinality(Newer(m)) = 0
    BY <2>2, FS_EmptySet
  <2> QED BY <2>1, <2>3, <1>4 DEF ConstantsAssumption
<1>7. \A i \in S, p \in P : p <= i => i \in P
  <2> SUFFICES ASSUME NEW i \in S, NEW p \in P, p <= i PROVE i \in P
    OBVIOUS
  <2>1. p \in S /\ p \in Nat /\ i \in Nat
    BY <1>3, <1>4
  <2>2. Newer(i) \in SUBSET Newer(p)
    <3> SUFFICES ASSUME NEW k \in S, k > i PROVE k > p
      OBVIOUS
    <3>1. k \in Nat /\ p \in Nat /\ i \in Nat
      BY <2>1, <1>3
    <3> QED BY <3>1
  <2>3. IsFiniteSet(Newer(p))
    BY <1>5, FS_Subset
  <2>4. /\ Cardinality(Newer(i)) <= Cardinality(Newer(p))
        /\ Cardinality(Newer(p)) \in Nat /\ IsFiniteSet(Newer(i))
    <3> HIDE DEF Newer
    <3> QED BY <2>2, <2>3, FS_Subset, FS_CardinalityType
  <2>5. Cardinality(Newer(i)) \in Nat /\ Cardinality(Newer(p)) < PageSize
    BY <2>1, <2>4, <1>4, FS_CardinalityType
  <2>6. Cardinality(Newer(i)) < PageSize
    BY <2>4, <2>5 DEF ConstantsAssumption
  <2> QED BY <2>6, <1>4
<1>8. Oldest(P) \in P /\ \A k \in P : Oldest(P) <= k
  <2>1. P \in SUBSET Nat
    BY <1>3, <1>4
  <2>2. \E m \in P : \A k \in P : m <= k
    <3> HIDE DEF P
    <3> QED BY <2>1, <1>6, NatHasLeast
  <2> HIDE DEF P
  <2> QED BY <2>2 DEF Oldest
<1>9. Oldest(P) \in Items /\ Oldest(P) # NoCursor
  BY <1>2, <1>3, <1>4, <1>8 DEF NoCursor
<1>10. CASE S = P
  BY <1>10, <1>4 DEF NextCursor, Cursors
<1>11. CASE S # P
  <2>1. NextCursor(j) = Oldest(P)
    BY <1>11 DEF NextCursor
  <2> QED BY <2>1, <1>4, <1>7, <1>8, <1>9 DEF Cursors
<1> QED BY <1>10, <1>11

\* Of each post on a page that has none yet one artifact is queued.
LEMMA OneOfEachPost ==
  ASSUME ConstantsAssumption, NEW j \in Jobs, run[j].page \subseteq Items,
         NEW i \in run[j].page, PostOf[i] \notin run[j].seen
  PROVE  \E k \in OnePerPost(j) : PostOf[k] = PostOf[i]
<1> DEFINE S == {k \in run[j].page : PostOf[k] = PostOf[i]}
<1>1. S \in SUBSET Items /\ S # {}
  OBVIOUS
<1>2. PICK m \in S : \A k \in S : k <= m
  <2> HIDE DEF S
  <2> QED BY <1>1, HasNewest
<1>3. ASSUME NEW k \in run[j].page, k > m PROVE PostOf[k] # PostOf[m]
  <2>1. k \in Nat /\ m \in Nat
    BY <1>1, <1>2 DEF Items
  <2> QED BY <1>2, <1>3, <2>1
<1> QED BY <1>2, <1>3 DEF OnePerPost

----------------------------------------------------------------------------
\* Steps.

\* A run keeps what it has while the tables grow.
LEMMA RunKeeps ==
  ASSUME ConstantsAssumption, TablesOK, TablesOK', Grows,
         NEW j \in Jobs, NEW r, RunInv(j, r)
  PROVE  RunInv(j, r)'
<1>1. published \in Nat /\ published' \in Nat
  BY DEF TablesOK, Cursors, Items, NoCursor, ConstantsAssumption
<1>2. RunOK(j, r)'
  <2>1. r.from \in Nat /\ r.page \subseteq 1 .. published /\ r.from <= published
    BY DEF RunInv, RunOK, Run, Cursors, Items, NoCursor
  <2>2. r.page \subseteq 1 .. published' /\ r.from <= published'
    BY <2>1, <1>1 DEF Grows
  <2>3. \A p \in r.seen : \E k \in queue' : PostOf[k] = p
    BY DEF Grows, RunInv, RunOK
  <2>4. j \in Drainers /\ r.pc # "idle" => r.user \in Users /\ part'[r.user].known # 0
    BY DEF Grows, RunInv, RunOK
  <2> QED BY <2>2, <2>3, <2>4 DEF RunInv, RunOK, Wants, Cap
<1>3. Covers(j, r)'
  <2>1. \A i : Settled(j, i) => Settled(j, i)'
    BY DEF Grows, Settled, Represented
  <2>2. r.pc # "idle" => Due(j, r)' = Due(j, r)
    <3>1. CASE j \in Tips
      BY <3>1 DEF Due
    <3>2. CASE j \notin Tips
      BY <3>2 DEF Due, Grows, RunInv, RunOK, Jobs
    <3> QED BY <3>1, <3>2
  <2>3. \A i : Passed(r, i)' <=> Passed(r, i)
    BY DEF Passed, AtEnd
  <2> QED BY <2>1, <2>2, <2>3 DEF Covers, RunInv
<1> QED BY <1>2, <1>3 DEF RunInv

\* So does a partition nobody writes.
LEMMA PartKeeps ==
  ASSUME ConstantsAssumption, TablesOK, TablesOK', Grows,
         NEW u \in Users, part'[u] = part[u], PartOK(u), PartCovers(u)
  PROVE  PartOK(u)' /\ PartCovers(u)'
<1>1. published \in Nat /\ published' \in Nat /\ part[u].known \in Nat
  BY DEF TablesOK, Cursors, Items, NoCursor, ConstantsAssumption, Partition
<1>2. PartOK(u)'
  BY <1>1 DEF PartOK, Grows
<1>3. PartCovers(u)'
  <2>1. \A i : Represented(i) \/ i \in missed => Represented(i)' \/ i \in missed'
    BY DEF Grows, Represented
  <2> QED BY <2>1 DEF PartCovers
<1> QED BY <1>2, <1>3

\* What one run does leaves the others as they are.
LEMMA RunSteps ==
  ASSUME ConstantsAssumption, SweepInv, TablesOK', Grows,
         NEW j \in Jobs, NEW r, Becomes(j, r), RunInv(j, r)'
  PROVE  run' \in [Jobs -> Run] /\ \A k \in Jobs : RunInv(k, run[k])'
<1>1. run' = [run EXCEPT ![j] = r] /\ r \in Run
  BY DEF Becomes, RunInv, RunOK
<1>2. run' \in [Jobs -> Run]
  BY <1>1 DEF SweepInv
<1>3. ASSUME NEW k \in Jobs PROVE RunInv(k, run[k])'
  <2>1. CASE k = j
    <3>1. run'[k] = r
      BY <2>1, <1>1 DEF SweepInv
    <3> QED BY <2>1, <3>1 DEF RunInv, RunOK, Covers, Due, Settled, Passed, AtEnd, Wants, Cap
  <2>2. CASE k # j
    <3>1. run'[k] = run[k]
      BY <2>2, <1>1 DEF SweepInv
    <3> DEFINE s == run[k]
    <3>2. RunInv(k, s)
      BY DEF SweepInv
    <3>3. \A q : RunInv(k, q) => RunInv(k, q)'
      BY RunKeeps DEF SweepInv
    <3>4. PICK q : q = run[k]
      OBVIOUS
    <3>5. RunInv(k, q)'
      BY <3>2, <3>3, <3>4
    <3>6. run'[k] = q
      BY <3>1, <3>4
    <3> QED BY <3>5, <3>6 DEF RunInv, RunOK, Covers, Due, Settled, Passed, AtEnd, Wants, Cap
  <2> QED BY <2>1, <2>2
<1> QED BY <1>2, <1>3

\* A step of a run that leaves crawl_partition alone.
LEMMA RunOnlySteps ==
  ASSUME ConstantsAssumption, SweepInv, TablesOK', Grows, part' = part,
         NEW j \in Jobs, NEW r, Becomes(j, r), RunInv(j, r)'
  PROVE  SweepInv'
<1>1. run' \in [Jobs -> Run] /\ \A k \in Jobs : RunInv(k, run[k])'
  BY RunSteps
<1>2. \A u \in Users : PartOK(u)' /\ PartCovers(u)'
  BY PartKeeps DEF SweepInv
<1> QED BY <1>1, <1>2 DEF SweepInv

\* Idle is a run that counts on nothing.
LEMMA IdleInv ==
  ASSUME ConstantsAssumption, TablesOK, NEW j \in Jobs
  PROVE  Idle \in Run /\ RunInv(j, Idle)
<1>1. Idle \in Run
  BY DEF Idle, Run, Steps, Cursors, NoCursor, ConstantsAssumption
<1>2. published \in Nat /\ DryPages \in Nat \ {0} /\ Cap(j) \in Nat \ {0}
  BY DEF TablesOK, Cursors, Items, NoCursor, ConstantsAssumption, Cap
<1>3. RunOK(j, Idle)
  BY <1>1, <1>2 DEF RunOK, Idle, NoCursor
<1>4. Covers(j, Idle)
  BY DEF Covers, Idle
<1> QED BY <1>1, <1>3, <1>4 DEF RunInv

LEMMA InitSwept ==
  ASSUME ConstantsAssumption, Init
  PROVE  SweepInv
<1>1. TablesOK
  <2>1. published \in Cursors /\ 0 \in Cursors
    BY DEF Init, ConstantsAssumption, Cursors, Items, NoCursor
  <2>2. part \in [Users -> Partition]
    BY <2>1 DEF Init, Partition, NoCursor
  <2>3. faults \in 0 .. MaxFaults
    BY DEF Init, ConstantsAssumption
  <2>4. queue = {} /\ abandoned = {} /\ missed = {}
    BY DEF Init
  <2> QED BY <2>1, <2>2, <2>3, <2>4 DEF TablesOK
<1>2. \A u \in Users : PartOK(u) /\ PartCovers(u)
  <2> SUFFICES ASSUME NEW u \in Users PROVE PartOK(u) /\ PartCovers(u)
    OBVIOUS
  <2>1. /\ part[u].known = 0 /\ part[u].cursor = NoCursor /\ part[u].exhausted = FALSE
        /\ published \in Nat
    BY <1>1 DEF Init, TablesOK, Cursors, Items, NoCursor
  <2> QED BY <2>1 DEF PartOK, PartCovers
<1>3. run \in [Jobs -> Run] /\ \A j \in Jobs : run[j] = Idle
  BY <1>1, IdleInv DEF Init
<1>4. \A j \in Jobs : RunInv(j, run[j])
  <2> SUFFICES ASSUME NEW j \in Jobs PROVE RunInv(j, run[j])
    OBVIOUS
  <2>1. RunInv(j, Idle)
    BY <1>1, IdleInv
  <2> QED BY <2>1, <1>3 DEF RunInv, RunOK, Covers, Due, Settled, Passed, AtEnd, Wants, Cap
<1> QED BY <1>1, <1>2, <1>3, <1>4 DEF SweepInv

\* Steps of others than the runs.
LEMMA WorldSteps ==
  ASSUME ConstantsAssumption, SweepInv, TablesOK', Grows, UNCHANGED run,
         \A u \in Users : PartOK(u)' /\ PartCovers(u)'
  PROVE  SweepInv'
<1>1. ASSUME NEW k \in Jobs PROVE RunInv(k, run[k])'
  <2>1. RunInv(k, run[k])
    BY DEF SweepInv
  <2>2. \A q : RunInv(k, q) => RunInv(k, q)'
    BY RunKeeps DEF SweepInv
  <2>3. PICK q : q = run[k]
    OBVIOUS
  <2>4. RunInv(k, q)'
    BY <2>1, <2>2, <2>3
  <2> QED BY <2>3, <2>4 DEF RunInv, RunOK, Covers, Due, Settled, Passed, AtEnd, Wants, Cap
<1> QED BY <1>1 DEF SweepInv

LEMMA PublishKeeps ==
  ASSUME ConstantsAssumption, SweepInv, Publish
  PROVE  SweepInv'
<1>1. published \in Nat /\ published' \in Nat /\ published' <= LastItem /\ published <= published'
  BY DEF SweepInv, TablesOK, Cursors, Items, NoCursor, ConstantsAssumption, Publish
<1>2. TablesOK'
  <2>1. published' \in Cursors
    BY <1>1 DEF Cursors, Items, NoCursor
  <2>2. queue' \subseteq 1 .. published' /\ missed' \subseteq 1 .. published'
    BY <1>1 DEF SweepInv, TablesOK, Publish
  <2> QED BY <2>1, <2>2 DEF SweepInv, TablesOK, Publish, partitions
<1>3. Grows
  BY <1>1 DEF Grows, Publish, partitions
<1>4. UNCHANGED run /\ \A u \in Users : part'[u] = part[u]
  BY DEF Publish, partitions
<1>5. \A u \in Users : PartOK(u)' /\ PartCovers(u)'
  BY <1>2, <1>3, <1>4, PartKeeps DEF SweepInv
<1> QED BY <1>2, <1>3, <1>4, <1>5, WorldSteps

LEMMA AbandonKeeps ==
  ASSUME ConstantsAssumption, SweepInv, NEW i \in Items, Abandon(i)
  PROVE  SweepInv'
<1>1. published \in Nat
  BY DEF SweepInv, TablesOK, Cursors, Items, NoCursor, ConstantsAssumption
<1>2. TablesOK'
  <2>1. faults' \in 0 .. MaxFaults
    BY DEF SweepInv, TablesOK, Abandon, Fault, ConstantsAssumption
  <2> QED BY <2>1 DEF SweepInv, TablesOK, Abandon, partitions
<1>3. Grows
  BY <1>1 DEF Grows, Abandon, partitions
<1>4. UNCHANGED run /\ \A u \in Users : part'[u] = part[u]
  BY DEF Abandon, partitions
<1>5. \A u \in Users : PartOK(u)' /\ PartCovers(u)'
  BY <1>2, <1>3, <1>4, PartKeeps DEF SweepInv
<1> QED BY <1>2, <1>3, <1>4, <1>5, WorldSteps

LEMMA LapseKeeps ==
  ASSUME ConstantsAssumption, SweepInv, NEW u \in Users, Lapse(u)
  PROVE  SweepInv'
<1>1. published \in Nat
  BY DEF SweepInv, TablesOK, Cursors, Items, NoCursor, ConstantsAssumption
<1>2. /\ part' \in [Users -> Partition]
      /\ \A v \in Users : /\ part'[v].known = part[v].known
                          /\ part'[v].cursor = part[v].cursor
                          /\ part'[v].exhausted = part[v].exhausted
  BY DEF SweepInv, TablesOK, Lapse, Partition
<1>3. TablesOK'
  BY <1>2 DEF SweepInv, TablesOK, Lapse
<1>4. Grows
  BY <1>1, <1>2 DEF Grows, Lapse
<1>5. \A v \in Users : PartOK(v)' /\ PartCovers(v)'
  BY <1>2 DEF PartOK, PartCovers, SweepInv, Lapse, Represented
<1> QED BY <1>3, <1>4, <1>5, WorldSteps DEF Lapse

\* A step that writes no table.
LEMMA TablesStay ==
  ASSUME ConstantsAssumption, SweepInv,
         UNCHANGED <<published, queue, abandoned, part, missed, faults>>
  PROVE  TablesOK' /\ Grows
<1>1. published \in Nat
  BY DEF SweepInv, TablesOK, Cursors, Items, NoCursor, ConstantsAssumption
<1> QED BY <1>1 DEF SweepInv, TablesOK, Grows

\* A run that stops.
LEMMA GoesIdle ==
  ASSUME ConstantsAssumption, SweepInv, TablesOK', Grows, part' = part,
         NEW j \in Jobs, Becomes(j, Idle)
  PROVE  SweepInv'
<1>1. RunInv(j, Idle)'
  <2>1. published \in Nat /\ published' \in Nat
    BY DEF SweepInv, TablesOK, Cursors, Items, NoCursor, ConstantsAssumption
  <2>2. RunInv(j, Idle)
    BY IdleInv DEF SweepInv
  <2>3. \A q : RunInv(j, q) => RunInv(j, q)'
    BY RunKeeps DEF SweepInv
  <2>4. PICK q : q = Idle
    OBVIOUS
  <2>5. RunInv(j, q)'
    BY <2>2, <2>3, <2>4
  <2> QED BY <2>4, <2>5 DEF RunInv, RunOK, Covers, Due, Settled, Passed, AtEnd, Wants, Cap
<1>2. \E q : q = Idle /\ RunInv(j, q)'
  BY <1>1 DEF RunInv, RunOK, Covers, Due, Settled, Passed, AtEnd, Wants, Cap
<1> QED BY <1>2, RunOnlySteps

\* A run that begins.
LEMMA Begins ==
  ASSUME ConstantsAssumption, NEW u \in Users \cup {NoUser}, NEW c \in Cursors, NEW f \in Cursors
  PROVE  [pc |-> "page", user |-> u, cursor |-> c, page |-> {}, seen |-> {},
          pages |-> 0, dry |-> 0, done |-> FALSE, from |-> f] \in Run
<1>1. 0 \in Nat /\ 0 \in 0 .. DryPages
  BY DEF ConstantsAssumption
<1> QED BY <1>1 DEF Run, Steps

LEMMA StartTipKeeps ==
  ASSUME ConstantsAssumption, SweepInv, NEW j \in Jobs, StartTip(j)
  PROVE  SweepInv'
<1>1. TablesOK' /\ Grows
  BY TablesStay DEF StartTip, partitions
<1>2. PICK r : r = [Idle EXCEPT !.pc = "page", !.from = published]
  OBVIOUS
<1>3. /\ r.pc = "page" /\ r.user = NoUser /\ r.cursor = NoCursor /\ r.page = {}
      /\ r.seen = {} /\ r.pages = 0 /\ r.dry = 0 /\ r.done = FALSE /\ r.from = published
      /\ r \in Run
  <2>1. r = [pc |-> "page", user |-> NoUser, cursor |-> NoCursor, page |-> {}, seen |-> {},
             pages |-> 0, dry |-> 0, done |-> FALSE, from |-> published]
    BY <1>2 DEF Idle
  <2>2. published \in Cursors /\ NoCursor \in Cursors
    BY DEF SweepInv, TablesOK, Cursors
  <2> QED BY <2>1, <2>2, Begins
<1>4. RunOK(j, r)'
  <2>1. published \in Nat /\ published' = published /\ Cap(j) \in Nat \ {0} /\ DryPages \in Nat \ {0}
    BY DEF SweepInv, TablesOK, Cursors, Items, NoCursor, ConstantsAssumption, StartTip, Cap
  <2>2. j \notin Drainers
    BY DEF StartTip, ConstantsAssumption
  <2> QED BY <1>3, <2>1, <2>2 DEF RunOK
<1>5. Covers(j, r)'
  BY <1>3 DEF Covers, Passed, AtEnd
<1> QED BY <1>1, <1>2, <1>4, <1>5, RunOnlySteps DEF RunInv, StartTip, partitions

LEMMA CaughtUpKeeps ==
  ASSUME ConstantsAssumption, SweepInv, NEW j \in Jobs, CaughtUp(j)
  PROVE  SweepInv'
<1>1. TablesOK' /\ Grows
  BY TablesStay DEF CaughtUp, partitions
<1> QED BY <1>1, GoesIdle DEF CaughtUp, partitions

LEMMA CrashKeeps ==
  ASSUME ConstantsAssumption, SweepInv, NEW j \in Jobs, Crash(j)
  PROVE  SweepInv'
<1>1. published \in Nat /\ faults' \in 0 .. MaxFaults
  BY DEF SweepInv, TablesOK, Cursors, Items, NoCursor, ConstantsAssumption, Crash, Fault
<1>2. TablesOK' /\ Grows
  BY <1>1 DEF SweepInv, TablesOK, Grows, Crash, partitions
<1> QED BY <1>2, GoesIdle DEF Crash, partitions

\* A sweep starts from where the partition's cursor is, which has passed
\* nothing that is not settled.
LEMMA ClaimPartitionKeeps ==
  ASSUME ConstantsAssumption, SweepInv, NEW j \in Jobs, ClaimPartition(j)
  PROVE  SweepInv'
<1>1. PICK u \in Users :
        /\ Turn(u)
        /\ part' = [part EXCEPT ![u].leased = TRUE]
        /\ Becomes(j, [Idle EXCEPT !.pc = "page", !.user = u, !.cursor = part[u].cursor])
  BY DEF ClaimPartition
<1>2. part[u].known # 0 /\ ~part[u].exhausted
  BY <1>1 DEF Turn, Claimable
<1>3. published \in Nat /\ Cap(j) \in Nat \ {0} /\ DryPages \in Nat \ {0} /\ part[u] \in Partition
  BY DEF SweepInv, TablesOK, Cursors, Items, NoCursor, ConstantsAssumption, Cap
<1>4. /\ part' \in [Users -> Partition]
      /\ \A v \in Users : /\ part'[v].known = part[v].known
                          /\ part'[v].cursor = part[v].cursor
                          /\ part'[v].exhausted = part[v].exhausted
  <2> DEFINE q == [part[u] EXCEPT !.leased = TRUE]
  <2>1. part \in [Users -> Partition] /\ part' = [part EXCEPT ![u] = q]
    BY <1>1 DEF SweepInv, TablesOK
  <2>2. /\ q \in Partition /\ q.known = part[u].known
        /\ q.cursor = part[u].cursor /\ q.exhausted = part[u].exhausted
    BY <1>3 DEF Partition
  <2> HIDE DEF q
  <2> QED BY <2>1, <2>2
<1>5. UNCHANGED <<published, queue, abandoned, missed, faults>>
  BY DEF ClaimPartition
<1>6. TablesOK' /\ Grows
  BY <1>3, <1>4, <1>5 DEF SweepInv, TablesOK, Grows
<1>7. \A v \in Users : PartOK(v)' /\ PartCovers(v)'
  BY <1>4, <1>5 DEF PartOK, PartCovers, SweepInv, Represented
<1>8. PICK r : r = [Idle EXCEPT !.pc = "page", !.user = u, !.cursor = part[u].cursor]
  OBVIOUS
<1>9. /\ r.pc = "page" /\ r.user = u /\ r.cursor = part[u].cursor /\ r.page = {}
      /\ r.seen = {} /\ r.pages = 0 /\ r.dry = 0 /\ r.done = FALSE /\ r.from = 0
      /\ r \in Run
  <2>1. r = [pc |-> "page", user |-> u, cursor |-> part[u].cursor, page |-> {}, seen |-> {},
             pages |-> 0, dry |-> 0, done |-> FALSE, from |-> 0]
    BY <1>8 DEF Idle
  <2>2. part[u].cursor \in Cursors /\ 0 \in Cursors
    BY <1>3 DEF Partition, Cursors, NoCursor
  <2> QED BY <2>1, <2>2, Begins
<1>10. j \notin Tips
  BY DEF ClaimPartition, ConstantsAssumption
<1>11. RunOK(j, r)'
  BY <1>2, <1>3, <1>4, <1>5, <1>9, <1>10 DEF RunOK
<1>12. Covers(j, r)'
  <2> SUFFICES ASSUME NEW i \in BacklogWants, UserOf[i] = u, i <= part[u].known,
                      part[u].cursor <= i, part[u].cursor # NoCursor
               PROVE  Represented(i) \/ i \in missed
    BY <1>2, <1>4, <1>5, <1>9, <1>10
       DEF Covers, Due, Passed, AtEnd, Settled, Represented, ClaimPartition
  <2> QED BY DEF SweepInv, PartCovers
<1>13. run' \in [Jobs -> Run] /\ \A k \in Jobs : RunInv(k, run[k])'
  <2>1. RunInv(j, r)'
    BY <1>11, <1>12 DEF RunInv
  <2> QED BY <2>1, <1>1, <1>6, <1>8, RunSteps
<1> QED BY <1>6, <1>7, <1>13 DEF SweepInv

\* A sweep that ends leaves a cursor that has passed nothing unsettled, and
\* calls the partition exhausted at the end of the listing only.
LEMMA UpdatePartitionKeeps ==
  ASSUME ConstantsAssumption, SweepInv, NEW j \in Jobs, UpdatePartition(j)
  PROVE  SweepInv'
<1> PICK u : u = run[j].user
  OBVIOUS
<1>1. RunInv(j, run[j]) /\ run[j].pc = "update" /\ j \in Drainers /\ j \notin Tips
  BY DEF SweepInv, UpdatePartition, RunInv, RunOK, Jobs, ConstantsAssumption
<1>2. /\ u \in Users /\ part[u].known # 0 /\ run[j].page = {}
      /\ run[j].done => run[j].cursor = NoCursor
  BY <1>1 DEF RunInv, RunOK
<1>3. published \in Nat /\ part[u] \in Partition /\ run[j].cursor \in Cursors /\ run[j].done \in BOOLEAN
  BY <1>2 DEF SweepInv, TablesOK, Cursors, Items, NoCursor, ConstantsAssumption, Run
<1>4. UNCHANGED <<published, queue, abandoned, missed, faults>>
  BY DEF UpdatePartition
<1>5. /\ part' \in [Users -> Partition]
      /\ \A v \in Users : part'[v].known = part[v].known
      /\ part'[u].cursor = run[j].cursor /\ part'[u].exhausted = run[j].done
      /\ \A v \in Users : v # u => part'[v] = part[v]
  BY <1>2, <1>3 DEF SweepInv, TablesOK, Partition, UpdatePartition
<1>6. TablesOK' /\ Grows
  BY <1>3, <1>4, <1>5 DEF SweepInv, TablesOK, Grows
<1>7. ASSUME NEW v \in Users PROVE PartOK(v)' /\ PartCovers(v)'
  <2>1. CASE v # u
    BY <2>1, <1>5, <1>6, PartKeeps DEF SweepInv
  <2>2. CASE v = u
    <3>1. PartOK(u)'
      BY <1>2, <1>4, <1>5 DEF PartOK, SweepInv
    <3>2. PartCovers(u)'
      <4> SUFFICES ASSUME NEW i \in BacklogWants, UserOf[i] = u, i <= part[u].known,
                          run[j].cursor <= i, run[j].cursor = NoCursor => run[j].done
                   PROVE  Represented(i) \/ i \in missed
        BY <1>2, <1>4, <1>5 DEF PartCovers, Represented
      <4>1. i \in Due(j, run[j]) /\ Passed(run[j], i)
        BY <1>1 DEF Due, Passed, AtEnd
      <4> QED BY <4>1, <1>1, <1>2 DEF RunInv, Covers, Settled
    <3> QED BY <2>2, <3>1, <3>2
  <2> QED BY <2>1, <2>2
<1>8. run' \in [Jobs -> Run] /\ \A k \in Jobs : RunInv(k, run[k])'
  <2>1. \E q : q = Idle /\ RunInv(j, q)'
    <3>1. RunInv(j, Idle)
      BY IdleInv DEF SweepInv
    <3>2. \A q : RunInv(j, q) => RunInv(j, q)'
      BY <1>6, RunKeeps DEF SweepInv
    <3> QED BY <3>1, <3>2
  <2>2. Becomes(j, Idle)
    BY DEF UpdatePartition
  <2> QED BY <2>1, <2>2, <1>6, RunSteps
<1> QED BY <1>6, <1>7, <1>8 DEF SweepInv

\* One field of a run at a time.
LEMMA RunFields ==
  ASSUME NEW x \in Run
  PROVE  /\ \A v \in Steps : [x EXCEPT !.pc = v] \in Run
         /\ \A v \in Cursors : [x EXCEPT !.cursor = v] \in Run
         /\ \A v \in SUBSET Items : [x EXCEPT !.page = v] \in Run
         /\ \A v \in SUBSET Posts : [x EXCEPT !.seen = v] \in Run
         /\ \A v \in Nat : [x EXCEPT !.pages = v] \in Run
         /\ \A v \in 0 .. DryPages : [x EXCEPT !.dry = v] \in Run
         /\ \A v \in BOOLEAN : [x EXCEPT !.done = v] \in Run
<1>1. \A v \in Steps : [x EXCEPT !.pc = v] \in Run
  BY DEF Run
<1>2. \A v \in Cursors : [x EXCEPT !.cursor = v] \in Run
  BY DEF Run
<1>3. \A v \in SUBSET Items : [x EXCEPT !.page = v] \in Run
  BY DEF Run
<1>4. \A v \in SUBSET Posts : [x EXCEPT !.seen = v] \in Run
  BY DEF Run
<1>5. \A v \in Nat : [x EXCEPT !.pages = v] \in Run
  BY DEF Run
<1>6. \A v \in 0 .. DryPages : [x EXCEPT !.dry = v] \in Run
  BY DEF Run
<1>7. \A v \in BOOLEAN : [x EXCEPT !.done = v] \in Run
  BY DEF Run
<1> QED BY <1>1, <1>2, <1>3, <1>4, <1>5, <1>6, <1>7

\* The numbers in play.
LEMMA Numbers ==
  ASSUME ConstantsAssumption, SweepInv, NEW j \in Jobs
  PROVE  /\ published \in Nat /\ published <= LastItem /\ LastItem \in Nat
         /\ Cap(j) \in Nat \ {0} /\ DryPages \in Nat \ {0}
         /\ run[j] \in Run /\ RunInv(j, run[j])
         /\ run[j].cursor \in Nat /\ run[j].from \in Nat /\ run[j].from <= published
         /\ run[j].page \subseteq 1 .. published /\ run[j].page \in SUBSET Items
         /\ run[j].pages \in Nat /\ run[j].pages <= Cap(j) /\ run[j].dry \in 0 .. DryPages
         /\ run[j].done \in BOOLEAN
         /\ (j \in Tips <=> j \notin Drainers)
<1>1. published \in Nat /\ published <= LastItem /\ LastItem \in Nat
  BY DEF SweepInv, TablesOK, Cursors, Items, NoCursor, ConstantsAssumption
<1>2. run[j] \in Run /\ RunInv(j, run[j])
  BY DEF SweepInv
<1>3. /\ run[j].cursor \in Cursors /\ run[j].from \in Cursors
      /\ run[j].pages \in Nat /\ run[j].dry \in 0 .. DryPages
      /\ run[j].done \in BOOLEAN /\ run[j].page \in SUBSET Items
  BY <1>2 DEF Run
<1>4. run[j].cursor \in Nat /\ run[j].from \in Nat
  BY <1>3, <1>1 DEF Cursors, Items, NoCursor
<1>5. /\ run[j].page \subseteq 1 .. published /\ run[j].from <= published
      /\ run[j].pages <= Cap(j)
  BY <1>2 DEF RunInv, RunOK
<1>6. j \in Tips <=> j \notin Drainers
  BY DEF Jobs, ConstantsAssumption
<1> QED BY <1>1, <1>2, <1>3, <1>4, <1>5, <1>6 DEF ConstantsAssumption, Cap

\* What a run is to see to was published.
LEMMA DuePublished ==
  ASSUME ConstantsAssumption, SweepInv, NEW j \in Jobs, run[j].pc # "idle",
         NEW i \in Due(j, run[j])
  PROVE  /\ i \in 1 .. published /\ i \in Wants(j) /\ i \in Items
         /\ j \in Drainers => UserOf[i] = run[j].user
<1>1. i \in Items /\ i \in Nat /\ i >= 1
  <2>1. i \in TipWants \/ i \in BacklogWants
    BY DEF Due
  <2>2. i \in Items
    BY <2>1 DEF ConstantsAssumption
  <2> QED BY <2>2 DEF Items
<1>2. i <= published
  <2>1. CASE j \in Tips
    <3>1. i <= run[j].from
      BY <2>1 DEF Due
    <3> QED BY <3>1, <1>1, Numbers
  <2>2. CASE j \in Drainers
    <3>1. run[j].user \in Users /\ i <= part[run[j].user].known
      BY <2>2, Numbers DEF Due, RunInv, RunOK
    <3>2. part[run[j].user].known <= published /\ part[run[j].user].known \in Nat
      <4>1. part[run[j].user].known \in Cursors
        BY <3>1 DEF SweepInv, TablesOK, Partition
      <4> QED BY <3>1, <4>1, Numbers DEF SweepInv, PartOK, Cursors, Items, NoCursor
    <3> QED BY <3>1, <3>2, <1>1, Numbers
  <2> QED BY <2>1, <2>2 DEF Jobs
<1> QED BY <1>1, <1>2, Numbers DEF Due, Wants

\* A page holds everything its cursor passes, since all of it that the last
\* cursor had not passed is older than that.
LEMMA ReadPageKeeps ==
  ASSUME ConstantsAssumption, SweepInv, NEW j \in Jobs, ReadPage(j)
  PROVE  SweepInv'
<1>1. TablesOK' /\ Grows
  BY TablesStay DEF ReadPage, partitions
<1>2. /\ run[j].pc = "page" /\ run[j].page = {} /\ run[j].done = FALSE
      /\ part' = part /\ queue' = queue /\ missed' = missed /\ published' = published
  BY Numbers DEF ReadPage, RunInv, RunOK, partitions
<1>3. ASSUME NEW i \in Due(j, run[j]), i \notin Older(j)
      PROVE  run[j].cursor <= i /\ Settled(j, i)
  <2>1. i \in 1 .. published /\ j \in Drainers => UserOf[i] = run[j].user
    BY <1>2, DuePublished
  <2>2. run[j].cursor # NoCursor /\ ~(i < run[j].cursor)
    BY <1>2, <1>3, <2>1, DuePublished DEF Older
  <2>3. run[j].cursor <= i
    BY <1>2, <2>2, DuePublished, Numbers
  <2>4. Passed(run[j], i)
    BY <2>2, <2>3 DEF Passed
  <2> QED BY <1>2, <2>3, <2>4, Numbers DEF RunInv, Covers
<1>4. CASE Older(j) = {} /\ j \in Tips
  BY <1>1, <1>2, <1>4, GoesIdle DEF ReadPage, Leave
<1>5. CASE Older(j) = {} /\ j \notin Tips
  <2>1. PICK r : r = [[run[j] EXCEPT !.cursor = NoCursor, !.done = TRUE] EXCEPT !.pc = "update"]
    OBVIOUS
  <2>2. Becomes(j, r)
    BY <1>5, <2>1 DEF ReadPage, Leave
  <2>3. /\ r.pc = "update" /\ r.cursor = NoCursor /\ r.done = TRUE /\ r.page = run[j].page
        /\ r.seen = run[j].seen /\ r.dry = run[j].dry /\ r.pages = run[j].pages
        /\ r.user = run[j].user /\ r.from = run[j].from
    BY <2>1, Numbers DEF Run
  <2>4. r \in Run
    <3>1. PICK x : x = [run[j] EXCEPT !.cursor = NoCursor]
      OBVIOUS
    <3>2. PICK y : y = [x EXCEPT !.done = TRUE]
      OBVIOUS
    <3>3. x \in Run
      BY <3>1, Numbers, RunFields DEF Cursors
    <3>4. y \in Run
      BY <3>2, <3>3, RunFields
    <3>5. r = [y EXCEPT !.pc = "update"]
      BY <2>1, <3>1, <3>2
    <3> QED BY <3>4, <3>5, RunFields DEF Steps
  <2>5. RunOK(j, r)'
    BY <1>2, <1>5, <2>3, <2>4, Numbers DEF RunInv, RunOK
  <2>6. Covers(j, r)'
    <3> SUFFICES ASSUME NEW i \in Due(j, run[j]) PROVE Settled(j, i)
      BY <1>2, <2>3 DEF Covers, Due, Settled, Represented
    <3> QED BY <1>3, <1>5
  <2> QED BY <1>1, <1>2, <2>2, <2>5, <2>6, RunOnlySteps DEF RunInv
<1>6. CASE Older(j) # {}
  <2>1. PICK r : r = [run[j] EXCEPT !.page = NextPage(j), !.cursor = NextCursor(j),
                             !.pages = @ + 1,
                             !.pc = IF j \in Tips THEN "partitions" ELSE "posts"]
    OBVIOUS
  <2>2. Becomes(j, r)
    BY <1>6, <2>1 DEF ReadPage
  <2>3. /\ r.page = NextPage(j) /\ r.cursor = NextCursor(j) /\ r.pages = run[j].pages + 1
        /\ r.pc = IF j \in Tips THEN "partitions" ELSE "posts"
        /\ r.seen = run[j].seen /\ r.dry = run[j].dry /\ r.done = run[j].done
        /\ r.user = run[j].user /\ r.from = run[j].from
    BY <2>1, Numbers DEF Run
  <2>4. r.pc \in {"partitions", "posts"}
    BY <2>3
  <2>5. /\ NextPage(j) \subseteq Older(j)
        /\ NextCursor(j) \in Cursors
        /\ \A i \in Older(j) : NextCursor(j) <= i => i \in NextPage(j)
    BY <1>6, PageFacts DEF SweepInv, TablesOK
  <2>6. NextPage(j) \subseteq 1 .. published /\ NextPage(j) \in SUBSET Items
    BY <2>5, Numbers DEF Older, Items
  <2>7. r \in Run
    <3>1. PICK x : x = [run[j] EXCEPT !.page = NextPage(j)]
      OBVIOUS
    <3>2. PICK y : y = [x EXCEPT !.cursor = NextCursor(j)]
      OBVIOUS
    <3>3. PICK z : z = [y EXCEPT !.pages = run[j].pages + 1]
      OBVIOUS
    <3>4. x \in Run
      BY <3>1, <2>6, Numbers, RunFields
    <3>5. y \in Run
      BY <3>2, <3>4, <2>5, RunFields
    <3>6. run[j].pages + 1 \in Nat
      BY <1>2, Numbers DEF RunInv, RunOK
    <3>7. z \in Run
      BY <3>3, <3>5, <3>6, RunFields
    <3>8. r = [z EXCEPT !.pc = IF j \in Tips THEN "partitions" ELSE "posts"]
      BY <2>1, <3>1, <3>2, <3>3
    <3>9. (IF j \in Tips THEN "partitions" ELSE "posts") \in Steps
      BY DEF Steps
    <3> QED BY <3>7, <3>8, <3>9, RunFields
  <2>8. RunOK(j, r)'
    BY <1>2, <2>3, <2>4, <2>6, <2>7, Numbers DEF RunInv, RunOK
  <2>9. Covers(j, r)'
    <3> SUFFICES ASSUME NEW i \in Due(j, run[j]), NextCursor(j) <= i
                 PROVE  i \in NextPage(j) \/ Settled(j, i)
      BY <1>2, <2>3 DEF Covers, Due, Settled, Represented, Passed
    <3> QED BY <1>3, <2>5
  <2> QED BY <1>1, <1>2, <2>2, <2>8, <2>9, RunOnlySteps DEF RunInv
<1> QED BY <1>4, <1>5, <1>6

\* A partition that is added had no row, and its cursor has passed nothing.
LEMMA AddPartitionsKeeps ==
  ASSUME ConstantsAssumption, SweepInv, NEW j \in Jobs, AddPartitions(j)
  PROVE  SweepInv'
<1>1. /\ run[j].pc = "partitions"
      /\ UNCHANGED <<published, queue, abandoned, missed, faults>>
      /\ Becomes(j, [run[j] EXCEPT !.pc = "posts"])
  BY DEF AddPartitions
<1> DEFINE new == {UserOf[i] : i \in run[j].page} \ {u \in Users : part[u].known # 0}
<1>2. /\ new \cap {u \in Users : part[u].known # 0} = {}
      /\ part' = [u \in Users |-> IF u \in new THEN [part[u] EXCEPT !.known = NewestOf(u)]
                                  ELSE part[u]]
      /\ \A u \in new : \E i \in run[j].page : UserOf[i] = u
  <2>1. part' = [u \in Users |-> IF u \in new THEN [part[u] EXCEPT !.known = NewestOf(u)]
                                 ELSE part[u]]
    BY DEF AddPartitions
  <2> QED BY <2>1
<1> HIDE DEF new
<1>3. \A u \in new : NewestOf(u) \in 1 .. published
  <2> SUFFICES ASSUME NEW u \in new PROVE NewestOf(u) \in 1 .. published
    OBVIOUS
  <2>1. PICK i \in 1 .. published : UserOf[i] = u
    BY <1>2, Numbers
  <2> QED BY <2>1, NewestOfIs DEF SweepInv, TablesOK
<1>4. \A u \in Users :
        /\ part[u] \in Partition
        /\ u \notin new => part'[u] = part[u]
        /\ u \in new => /\ part[u].known = 0 /\ part'[u].known \in 1 .. published
                        /\ part'[u].cursor = part[u].cursor
                        /\ part'[u].exhausted = part[u].exhausted
                        /\ part'[u] \in Partition
  <2> SUFFICES ASSUME NEW u \in Users, part[u] \in Partition
               PROVE  /\ u \notin new => part'[u] = part[u]
                      /\ u \in new => /\ part[u].known = 0 /\ part'[u].known \in 1 .. published
                                      /\ part'[u].cursor = part[u].cursor
                                      /\ part'[u].exhausted = part[u].exhausted
                                      /\ part'[u] \in Partition
    BY DEF SweepInv, TablesOK
  <2>1. u \in new => NewestOf(u) \in Cursors
    BY <1>3, Numbers DEF Cursors, Items
  <2> QED BY <1>2, <1>3, <2>1 DEF SweepInv, TablesOK, Partition
<1>5. part' \in [Users -> Partition]
  <2>1. \A u \in Users : part'[u] \in Partition
    BY <1>4
  <2> QED BY <1>2, <2>1
<1>6. TablesOK' /\ Grows
  BY <1>1, <1>4, <1>5, Numbers DEF SweepInv, TablesOK, Grows
<1>7. ASSUME NEW u \in Users PROVE PartOK(u)' /\ PartCovers(u)'
  <2>1. CASE u \in new
    <3>1. /\ part[u].cursor = NoCursor /\ ~part[u].exhausted
          /\ part'[u].cursor = NoCursor /\ ~part'[u].exhausted
          /\ part'[u].known \in 1 .. published /\ published' = published
      BY <1>1, <1>4, <2>1 DEF SweepInv, PartOK
    <3> QED BY <3>1, Numbers DEF PartOK, PartCovers
  <2>2. CASE u \notin new
    BY <1>4, <1>6, <2>2, PartKeeps DEF SweepInv
  <2> QED BY <2>1, <2>2
<1>8. PICK r : r = [run[j] EXCEPT !.pc = "posts"]
  OBVIOUS
<1>9. /\ r.pc = "posts" /\ r.page = run[j].page /\ r.cursor = run[j].cursor
      /\ r.pages = run[j].pages /\ r.seen = run[j].seen /\ r.dry = run[j].dry
      /\ r.done = run[j].done /\ r.user = run[j].user /\ r.from = run[j].from /\ r \in Run
  <2>1. r \in Run
    BY <1>8, Numbers, RunFields DEF Steps
  <2> QED BY <2>1, <1>8, Numbers DEF Run
<1>10. RunInv(j, r)
  <2>1. RunOK(j, r)
    BY <1>1, <1>9, Numbers DEF RunInv, RunOK
  <2>2. Covers(j, r)
    BY <1>1, <1>9, Numbers DEF RunInv, Covers, Due, Passed, AtEnd
  <2> QED BY <2>1, <2>2 DEF RunInv
<1>11. RunInv(j, r)'
  BY <1>6, <1>10, RunKeeps DEF SweepInv
<1>12. run' \in [Jobs -> Run] /\ \A k \in Jobs : RunInv(k, run[k])'
  BY <1>1, <1>6, <1>8, <1>11, RunSteps
<1> QED BY <1>6, <1>7, <1>12 DEF SweepInv

\* What falls off the page is not wanted in the run's mode.
LEMMA ReadPostsKeeps ==
  ASSUME ConstantsAssumption, SweepInv, NEW j \in Jobs, ReadPosts(j)
  PROVE  SweepInv'
<1> DEFINE kept == run[j].page \cap Wants(j)
           seen == {PostOf[i] : i \in queue \ abandoned} \cap {PostOf[i] : i \in kept}
<1>1. TablesOK' /\ Grows
  BY TablesStay DEF ReadPosts, partitions
<1>2. /\ run[j].pc = "posts"
      /\ part' = part /\ queue' = queue /\ missed' = missed /\ published' = published
      /\ Becomes(j, [run[j] EXCEPT !.pc = "enqueue", !.page = kept, !.seen = seen])
  BY DEF ReadPosts, partitions
<1>3. PICK r : r = [run[j] EXCEPT !.pc = "enqueue", !.page = kept, !.seen = seen]
  OBVIOUS
<1>4. kept \in SUBSET Items /\ seen \in SUBSET Posts
  BY Numbers DEF Posts
<1>5. r \in Run
  <2>1. PICK x : x = [run[j] EXCEPT !.pc = "enqueue"]
    OBVIOUS
  <2>2. PICK y : y = [x EXCEPT !.page = kept]
    OBVIOUS
  <2>3. x \in Run
    BY <2>1, Numbers, RunFields DEF Steps
  <2>4. y \in Run
    <3> HIDE DEF kept
    <3> QED BY <1>4, <2>2, <2>3, RunFields
  <2>5. r = [y EXCEPT !.seen = seen]
    BY <1>3, <2>1, <2>2
  <2> HIDE DEF seen
  <2> QED BY <1>4, <2>4, <2>5, RunFields
<1>6. /\ r.pc = "enqueue" /\ r.page = kept /\ r.seen = seen
      /\ r.cursor = run[j].cursor /\ r.pages = run[j].pages /\ r.dry = run[j].dry
      /\ r.done = run[j].done /\ r.user = run[j].user /\ r.from = run[j].from
  <2> HIDE DEF kept, seen
  <2> QED BY <1>3, Numbers DEF Run
<1>7. RunOK(j, r)'
  <2>1. \A p \in seen : \E k \in queue : PostOf[k] = p
    OBVIOUS
  <2>2. kept \subseteq 1 .. published /\ kept \subseteq Wants(j)
    BY Numbers
  <2> HIDE DEF kept, seen
  <2> QED BY <1>2, <1>5, <1>6, <2>1, <2>2, Numbers DEF RunInv, RunOK, Wants, Cap
<1>8. Covers(j, r)'
  <2> SUFFICES ASSUME NEW i \in Due(j, run[j]), Passed(run[j], i)
               PROVE  i \in kept \/ Settled(j, i)
    <3> HIDE DEF kept, seen
    <3> QED BY <1>2, <1>6 DEF Covers, Due, Settled, Represented, Passed, AtEnd
  <2>1. i \in run[j].page \/ Settled(j, i)
    BY <1>2, Numbers DEF RunInv, Covers
  <2>2. i \in Wants(j)
    BY <1>2, DuePublished
  <2> QED BY <2>1, <2>2
<1> QED BY <1>1, <1>2, <1>3, <1>7, <1>8, RunOnlySteps DEF RunInv

\* After the insert the whole page is represented.
LEMMA PageQueued ==
  ASSUME ConstantsAssumption, SweepInv, NEW j \in Jobs, Enqueue(j)
  PROVE  /\ run[j].pc = "enqueue" /\ TablesOK' /\ Grows
         /\ \A i \in run[j].page : Represented(i)'
<1>1. /\ run[j].pc = "enqueue" /\ queue' = queue \cup (OnePerPost(j) \ queue)
      /\ UNCHANGED <<published, abandoned, part, missed, faults>>
  BY DEF Enqueue, partitions
<1>2. OnePerPost(j) \subseteq 1 .. published
  BY Numbers DEF OnePerPost
<1>3. TablesOK' /\ Grows
  <2>1. queue \subseteq queue' /\ queue' \subseteq 1 .. published
    BY <1>1, <1>2 DEF SweepInv, TablesOK
  <2> QED BY <1>1, <2>1, Numbers DEF SweepInv, TablesOK, Grows
<1>4. ASSUME NEW i \in run[j].page PROVE Represented(i)'
  <2>1. CASE PostOf[i] \in run[j].seen
    <3>1. PICK k \in queue : PostOf[k] = PostOf[i]
      BY <2>1, Numbers DEF RunInv, RunOK
    <3> QED BY <1>1, <3>1 DEF Represented
  <2>2. CASE PostOf[i] \notin run[j].seen
    <3>1. PICK k \in OnePerPost(j) : PostOf[k] = PostOf[i]
      BY <2>2, OneOfEachPost, Numbers
    <3>2. k \in queue'
      BY <1>1
    <3> QED BY <3>1, <3>2 DEF Represented
  <2> QED BY <2>1, <2>2
<1> QED BY <1>1, <1>3, <1>4

LEMMA EnqueueKeeps ==
  ASSUME ConstantsAssumption, SweepInv, NEW j \in Jobs, Enqueue(j)
  PROVE  SweepInv'
<1> DEFINE new == OnePerPost(j) \ queue
           dry == IF new = {} THEN run[j].dry + 1 ELSE 0
           d   == IF j \in Tips THEN dry ELSE 0
           base == [run[j] EXCEPT !.page = {}, !.seen = {}, !.dry = d]
<1>1. /\ run[j].pc = "enqueue" /\ TablesOK' /\ Grows /\ run[j].done = FALSE
      /\ \A i \in run[j].page : Represented(i)'
      /\ part' = part /\ published' = published
  BY PageQueued, Numbers DEF Enqueue, partitions, RunInv, RunOK
<1>2. PICK r : r = base
  OBVIOUS
<1>3. dry \in 0 .. DryPages /\ d \in 0 .. DryPages
  <2>1. run[j].dry < DryPages
    BY <1>1, Numbers DEF RunInv, RunOK
  <2>2. dry \in 0 .. DryPages
    BY <2>1, Numbers
  <2> HIDE DEF dry
  <2> QED BY <2>2, Numbers
<1>4. r \in Run
  <2> HIDE DEF d
  <2>1. PICK x : x = [run[j] EXCEPT !.page = {}]
    OBVIOUS
  <2>2. PICK y : y = [x EXCEPT !.seen = {}]
    OBVIOUS
  <2>3. x \in Run
    BY <2>1, Numbers, RunFields
  <2>4. y \in Run
    BY <2>2, <2>3, RunFields
  <2>5. r = [y EXCEPT !.dry = d]
    BY <1>2, <2>1, <2>2
  <2> QED BY <1>3, <2>4, <2>5, RunFields
<1>5. /\ r.page = {} /\ r.seen = {} /\ r.dry = d /\ r.pc = "enqueue" /\ r.pages <= Cap(j)
      /\ r.cursor = run[j].cursor /\ r.pages = run[j].pages
      /\ r.done = FALSE /\ r.user = run[j].user /\ r.from = run[j].from
  <2> HIDE DEF d
  <2> QED BY <1>1, <1>2, Numbers DEF Run
<1>6. /\ (j \in Tips /\ dry = DryPages) => Becomes(j, [r EXCEPT !.pc = "caughtup"])
      /\ ~(j \in Tips /\ dry = DryPages) =>
           IF GoesOn(j, r) THEN Becomes(j, [r EXCEPT !.pc = "page"])
           ELSE Leave(j, [r EXCEPT !.done = r.cursor = NoCursor])
  BY <1>2 DEF Enqueue
<1>7. \A i \in Due(j, run[j]) : Passed(run[j], i) => Settled(j, i)'
  <2>1. \A i : Settled(j, i) => Settled(j, i)'
    BY <1>1 DEF Grows, Settled, Represented
  <2>2. \A i \in run[j].page : Settled(j, i)'
    BY <1>1 DEF Settled
  <2> QED BY <1>1, <2>1, <2>2, Numbers DEF RunInv, Covers
<1>8. ASSUME NEW q, q \in Run, q.page = {}, q.seen = {}, q.cursor = r.cursor,
             q.from = r.from, q.user = r.user, q.pc \in {"page", "update", "caughtup"},
             q.pages <= Cap(j), q.pc = "page" => q.cursor # NoCursor /\ q.pages < Cap(j),
             q.pc # "caughtup" => q.dry < DryPages,
             q.done => q.pc = "update" /\ q.cursor = NoCursor,
             q.pc = "update" => j \notin Tips,
             Becomes(j, q)
      PROVE  SweepInv'
  <2>1. RunOK(j, q)'
    BY <1>1, <1>5, <1>8, Numbers DEF RunInv, RunOK
  <2>2. Covers(j, q)'
    <3> SUFFICES ASSUME NEW i \in Due(j, run[j]), run[j].cursor <= i
                 PROVE  Settled(j, i)'
      BY <1>1, <1>5, <1>8 DEF Covers, Due, Passed
    <3>1. Passed(run[j], i)
      BY <1>1 DEF Passed, AtEnd
    <3> QED BY <3>1, <1>7
  <2> QED BY <1>1, <1>8, <2>1, <2>2, RunOnlySteps DEF RunInv
<1>9. CASE j \in Tips /\ dry = DryPages
  <2> HIDE DEF dry, d
  <2>1. PICK q : q = [r EXCEPT !.pc = "caughtup"]
    OBVIOUS
  <2>2. /\ q.page = {} /\ q.seen = {} /\ q.cursor = r.cursor /\ q.pc = "caughtup"
        /\ q.from = r.from /\ q.user = r.user /\ q.done = FALSE /\ q.pages = r.pages
    BY <2>1, <1>4, <1>5 DEF Run
  <2>3. q \in Run
    BY <2>1, <1>4, RunFields DEF Steps
  <2> QED BY <1>5, <1>6, <1>8, <1>9, <2>1, <2>2, <2>3
<1>10. CASE ~(j \in Tips /\ dry = DryPages)
  <2>1. d < DryPages
    <3>1. j \in Tips => d # DryPages
      BY <1>10
    <3>2. j \notin Tips => d = 0
      OBVIOUS
    <3> HIDE DEF dry, d
    <3> QED BY <1>3, <3>1, <3>2, Numbers
  <2> HIDE DEF dry, d
  <2>2. CASE GoesOn(j, r)
    <3>1. PICK q : q = [r EXCEPT !.pc = "page"]
      OBVIOUS
    <3>2. /\ q.page = {} /\ q.seen = {} /\ q.cursor = r.cursor /\ q.pc = "page"
          /\ q.from = r.from /\ q.user = r.user /\ q.done = FALSE /\ q.dry = d
          /\ q.pages = r.pages
      BY <3>1, <1>4, <1>5 DEF Run
    <3>3. q \in Run
      BY <3>1, <1>4, RunFields DEF Steps
    <3>4. Becomes(j, q) /\ q.cursor # NoCursor /\ q.pages < Cap(j)
      BY <1>6, <1>10, <2>2, <3>1, <3>2 DEF GoesOn
    <3> QED BY <1>5, <1>8, <2>1, <3>2, <3>3, <3>4
  <2>3. CASE ~GoesOn(j, r) /\ j \in Tips
    BY <1>1, <1>6, <1>10, <2>3, GoesIdle DEF Leave
  <2>4. CASE ~GoesOn(j, r) /\ j \notin Tips
    <3>1. PICK x : x = [r EXCEPT !.done = r.cursor = NoCursor]
      OBVIOUS
    <3>2. PICK q : q = [x EXCEPT !.pc = "update"]
      OBVIOUS
    <3>3. x \in Run
      BY <3>1, <1>4, RunFields
    <3>4. q \in Run
      BY <3>2, <3>3, RunFields DEF Steps
    <3>5. /\ x.page = {} /\ x.seen = {} /\ x.cursor = r.cursor
          /\ x.from = r.from /\ x.user = r.user /\ x.dry = d /\ x.pages = r.pages
          /\ x.done = (r.cursor = NoCursor)
      BY <3>1, <1>4, <1>5 DEF Run
    <3>6. /\ q.page = {} /\ q.seen = {} /\ q.cursor = r.cursor /\ q.pc = "update"
          /\ q.from = r.from /\ q.user = r.user /\ q.dry = d /\ q.pages = r.pages
          /\ q.done = (r.cursor = NoCursor)
      BY <3>2, <3>3, <3>5 DEF Run
    <3>7. Becomes(j, q)
      BY <1>6, <1>10, <2>4, <3>1, <3>2 DEF Leave
    <3> QED BY <1>5, <1>8, <2>1, <2>4, <3>4, <3>6, <3>7
  <2> QED BY <2>2, <2>3, <2>4
<1> QED BY <1>9, <1>10

\* A call that raises loses the page in hand at most.
LEMMA RaisesKeeps ==
  ASSUME ConstantsAssumption, SweepInv, NEW j \in Jobs, Raises(j)
  PROVE  SweepInv'
<1>1. /\ run[j].pc \in {"page", "partitions", "posts", "enqueue"}
      /\ missed' = missed \cup IF j \in Drainers THEN run[j].page \cap Wants(j) ELSE {}
      /\ published' = published /\ queue' = queue /\ abandoned' = abandoned /\ part' = part
      /\ Leave(j, [run[j] EXCEPT !.page = {}, !.seen = {}])
  BY DEF Raises, partitions
<1>2. run[j].done = FALSE
  BY <1>1, Numbers DEF RunInv, RunOK
<1>3. faults' \in 0 .. MaxFaults
  BY DEF SweepInv, TablesOK, ConstantsAssumption, Raises, Fault
<1>4. TablesOK' /\ Grows
  BY <1>1, <1>3, Numbers DEF SweepInv, TablesOK, Grows
<1>5. CASE j \in Tips
  BY <1>1, <1>4, <1>5, GoesIdle DEF Leave
<1>6. CASE j \notin Tips
  <2>1. PICK x : x = [run[j] EXCEPT !.page = {}]
    OBVIOUS
  <2>2. PICK y : y = [x EXCEPT !.seen = {}]
    OBVIOUS
  <2>3. PICK r : r = [y EXCEPT !.pc = "update"]
    OBVIOUS
  <2>4. x \in Run
    BY <2>1, Numbers, RunFields
  <2>5. y \in Run
    BY <2>2, <2>4, RunFields
  <2>6. r \in Run
    BY <2>3, <2>5, RunFields DEF Steps
  <2>7. Becomes(j, r)
    <3>1. r = [[run[j] EXCEPT !.page = {}, !.seen = {}] EXCEPT !.pc = "update"]
      BY <2>1, <2>2, <2>3
    <3> QED BY <3>1, <1>1, <1>6 DEF Leave
  <2>8. /\ y.page = {} /\ y.seen = {} /\ y.cursor = run[j].cursor /\ y.pages = run[j].pages
        /\ y.dry = run[j].dry /\ y.done = FALSE /\ y.user = run[j].user /\ y.from = run[j].from
    BY <2>1, <2>2, <2>4, <1>2, Numbers DEF Run
  <2>9. /\ r.page = {} /\ r.seen = {} /\ r.cursor = run[j].cursor /\ r.pages = run[j].pages
        /\ r.dry = run[j].dry /\ r.done = FALSE /\ r.user = run[j].user /\ r.from = run[j].from
        /\ r.pc = "update"
    BY <2>3, <2>5, <2>8 DEF Run
  <2>10. RunOK(j, r)'
    BY <1>1, <1>6, <2>6, <2>9, Numbers DEF RunInv, RunOK
  <2>11. Covers(j, r)'
    <3> SUFFICES ASSUME NEW i \in Due(j, run[j]), run[j].cursor <= i, run[j].cursor # NoCursor
                 PROVE  Settled(j, i)'
      BY <1>1, <2>9 DEF Covers, Due, Passed, AtEnd
    <3>1. i \in run[j].page \/ Settled(j, i)
      BY <1>1, Numbers DEF RunInv, Covers, Passed
    <3>2. i \in Wants(j) /\ j \in Drainers
      BY <1>1, <1>6, DuePublished, Numbers
    <3> QED BY <1>1, <3>1, <3>2 DEF Settled, Represented
  <2> QED BY <1>1, <1>4, <2>7, <2>10, <2>11, RunOnlySteps DEF RunInv
<1> QED BY <1>5, <1>6

\* The inductive invariant: what the cursor of a run or a partition has passed
\* is settled or on the page in hand.  A cursor without its page, or a page
\* without its cursor, would say nothing, so neither property is inductive.
THEOREM SweepInvHolds == Spec => []SweepInv
<1> USE ConstantsAssumption
<1>1. Init => SweepInv
  BY InitSwept
<1>2. SweepInv /\ [Next]_vars => SweepInv'
  <2> SUFFICES ASSUME SweepInv, [Next]_vars PROVE SweepInv'
    OBVIOUS
  <2>1. ASSUME NEW j \in Jobs, Proceed(j) PROVE SweepInv'
    <3>1. CASE StartTip(j)       BY <3>1, StartTipKeeps
    <3>2. CASE ClaimPartition(j)  BY <3>2, ClaimPartitionKeeps
    <3>3. CASE UpdatePartition(j) BY <3>3, UpdatePartitionKeeps
    <3>4. CASE ReadPage(j)        BY <3>4, ReadPageKeeps
    <3>5. CASE AddPartitions(j)   BY <3>5, AddPartitionsKeeps
    <3>6. CASE ReadPosts(j)       BY <3>6, ReadPostsKeeps
    <3>7. CASE Enqueue(j)         BY <3>7, EnqueueKeeps
    <3>8. CASE CaughtUp(j)        BY <3>8, CaughtUpKeeps
    <3> QED BY <2>1, <3>1, <3>2, <3>3, <3>4, <3>5, <3>6, <3>7, <3>8 DEF Proceed
  <2>2. ASSUME NEW j \in Jobs, Raises(j) \/ Crash(j) PROVE SweepInv'
    BY <2>2, RaisesKeeps, CrashKeeps
  <2>3. ASSUME NEW u \in Users, Lapse(u) PROVE SweepInv'
    BY <2>3, LapseKeeps
  <2>4. ASSUME NEW i \in Items, Abandon(i) PROVE SweepInv'
    BY <2>4, AbandonKeeps
  <2>5. CASE Publish
    BY <2>5, PublishKeeps
  <2>6. CASE UNCHANGED vars
    <3>1. TablesOK' /\ Grows
      BY <2>6, TablesStay DEF vars
    <3>2. \A u \in Users : PartOK(u)' /\ PartCovers(u)'
      BY <2>6, <3>1, PartKeeps DEF vars, SweepInv
    <3> QED BY <2>6, <3>1, <3>2, WorldSteps DEF vars
  <2> QED BY <2>1, <2>2, <2>3, <2>4, <2>5, <2>6 DEF Next
<1> QED BY <1>1, <1>2, PTL DEF Spec

\* A partition called exhausted has been swept to its end, however its sweeps
\* were cut, killed, resumed or overlapped.
THEOREM ExhaustedSwept == Spec => []ExhaustedIsSwept
<1>1. SweepInv => ExhaustedIsSwept
  <2> SUFFICES ASSUME SweepInv, NEW u \in Users, part[u].exhausted,
                      NEW i \in BacklogWants, UserOf[i] = u, i <= part[u].known
               PROVE  Represented(i) \/ i \in missed
    BY DEF ExhaustedIsSwept
  <2>1. part[u].cursor = NoCursor /\ PartCovers(u)
    BY DEF SweepInv, PartOK
  <2>2. i \in Items /\ i \in Nat
    BY ConstantsAssumption DEF ConstantsAssumption, Items
  <2>3. part[u].cursor <= i
    BY <2>1, <2>2 DEF NoCursor
  <2> QED BY <2>1, <2>3 DEF PartCovers
<1> QED BY <1>1, SweepInvHolds, PTL

\* A tip that stops as caught up has left no gap between its start and its
\* cursor.
THEOREM CaughtUpQueued == Spec => []CaughtUpIsQueued
<1>1. SweepInv => CaughtUpIsQueued
  <2> SUFFICES ASSUME SweepInv, NEW j \in Tips, run[j].pc = "caughtup",
                      NEW i \in TipWants, i <= run[j].from, i >= run[j].cursor
               PROVE  Represented(i)
    BY DEF CaughtUpIsQueued
  <2>1. j \in Jobs /\ j \notin Drainers
    BY ConstantsAssumption DEF Jobs, ConstantsAssumption
  <2>2. RunInv(j, run[j]) /\ run[j].page = {} /\ run[j].cursor \in Nat
    BY <2>1, ConstantsAssumption, Numbers DEF RunInv, RunOK
  <2>3. i \in Nat
    BY ConstantsAssumption DEF ConstantsAssumption, Items
  <2>4. i \in Due(j, run[j]) /\ Passed(run[j], i)
    BY <2>2, <2>3 DEF Due, Passed, AtEnd
  <2> QED BY <2>1, <2>2, <2>4 DEF RunInv, Covers, Settled
<1> QED BY <1>1, SweepInvHolds, PTL

----------------------------------------------------------------------------
\* The line.

\* A queue that one leaves is still a queue.
LEMMA WithoutType ==
  ASSUME NEW S, NEW s \in Seq(S), NEW u
  PROVE  Without(s, u) \in Seq(S)
<1>1. CASE \A n \in DOMAIN s : s[n] # u
  BY <1>1 DEF Without
<1>2. CASE \E n \in DOMAIN s : s[n] = u
  <2>1. PICK n \in DOMAIN s : Without(s, u) = SubSeq(s, 1, n - 1) \o SubSeq(s, n + 1, Len(s))
    BY <1>2 DEF Without
  <2> DEFINE a == SubSeq(s, 1, n - 1)
             b == SubSeq(s, n + 1, Len(s))
  <2>2. Len(s) \in Nat /\ n \in 1 .. Len(s) /\ \A m \in 1 .. Len(s) : s[m] \in S
    OBVIOUS
  <2>3. a \in Seq(S)
    BY <2>2
  <2>4. b \in Seq(S)
    BY <2>2
  <2> HIDE DEF a, b
  <2>5. Without(s, u) = a \o b
    BY <2>1 DEF a, b
  <2> QED BY <2>3, <2>4, <2>5
<1> QED BY <1>1, <1>2

\* The partitions of a page in any order.
LEMMA OrdersType ==
  ASSUME NEW S, NEW new \in SUBSET S, IsFiniteSet(new), NEW s \in Orders(new)
  PROVE  s \in Seq(S)
<1>1. Cardinality(new) \in Nat
  BY FS_CardinalityType
<1>2. s \in [1 .. Cardinality(new) -> new]
  BY DEF Orders
<1> QED BY <1>1, <1>2

LEMMA UpdatePartitionKeepsLine ==
  ASSUME ConstantsAssumption, SweepInv, LineOK, NEW j \in Jobs, UpdatePartition(j)
  PROVE  LineOK'
<1> DEFINE u == run[j].user
           q == Without(swept, u)
<1>1. u \in Users
  BY Numbers DEF UpdatePartition, RunInv, RunOK
<1>2. unswept' = Without(unswept, u) /\ swept' = Append(q, u)
  BY DEF UpdatePartition
<1>3. Without(unswept, u) \in Seq(Users) /\ q \in Seq(Users)
  BY WithoutType DEF LineOK
<1> HIDE DEF u, q
<1>4. Append(q, u) \in Seq(Users)
  BY <1>1, <1>3
<1> QED BY <1>2, <1>3, <1>4 DEF LineOK

LEMMA AddPartitionsKeepsLine ==
  ASSUME ConstantsAssumption, SweepInv, LineOK, NEW j \in Jobs, AddPartitions(j)
  PROVE  LineOK'
<1> DEFINE users == {UserOf[i] : i \in run[j].page}
           new   == users \ {u \in Users : part[u].known # 0}
<1>1. users \in SUBSET Users /\ IsFiniteSet(users)
  <2> DEFINE f == [i \in run[j].page |-> UserOf[i]]
  <2>1. f \in Surjection(run[j].page, users)
    BY DEF Surjection
  <2>2. IsFiniteSet(run[j].page)
    <3>1. /\ run[j].page \in SUBSET Nat /\ published \in Nat
          /\ \A i \in run[j].page : i <= published
      BY Numbers
    <3> QED BY <3>1, FS_BoundedSetOfNaturals
  <2>3. IsFiniteSet(users)
    <3> HIDE DEF f, users
    <3> QED BY <2>1, <2>2, FS_Surjection
  <2> QED BY <2>3, Numbers DEF Users
<1>2. swept' = swept /\ \E s \in Orders(new) : unswept' = unswept \o s
  BY DEF AddPartitions
<1> HIDE DEF users
<1>3. IsFiniteSet(new) /\ new \in SUBSET Users
  BY <1>1, FS_Subset
<1> HIDE DEF new
<1>4. PICK s \in Orders(new) : unswept' = unswept \o s
  BY <1>2
<1>5. s \in Seq(Users)
  BY <1>3, OrdersType
<1> QED BY <1>2, <1>4, <1>5 DEF LineOK

\* The line stays one of partitions.
LEMMA LineHolds == Spec => []LineOK
<1> USE ConstantsAssumption
<1>1. Init => LineOK
  BY DEF Init, LineOK
<1>2. SweepInv /\ LineOK /\ [Next]_vars => LineOK'
  <2> SUFFICES ASSUME SweepInv, LineOK, [Next]_vars PROVE LineOK'
    OBVIOUS
  <2>1. ASSUME UNCHANGED <<unswept, swept>> PROVE LineOK'
    BY <2>1 DEF LineOK
  <2>2. ASSUME NEW j \in Jobs, Proceed(j) PROVE LineOK'
    <3>1. CASE UpdatePartition(j)
      BY <3>1, UpdatePartitionKeepsLine
    <3>2. CASE AddPartitions(j)
      BY <3>2, AddPartitionsKeepsLine
    <3>3. CASE ClaimPartition(j)
      BY <2>1, <3>3 DEF ClaimPartition
    <3>4. CASE StartTip(j) \/ ReadPage(j) \/ ReadPosts(j) \/ Enqueue(j) \/ CaughtUp(j)
      BY <2>1, <3>4 DEF StartTip, ReadPage, ReadPosts, Enqueue, CaughtUp, partitions
    <3> QED BY <2>2, <3>1, <3>2, <3>3, <3>4 DEF Proceed
  <2>3. ASSUME NEW j \in Jobs, Raises(j) \/ Crash(j) PROVE LineOK'
    BY <2>1, <2>3 DEF Raises, Crash, partitions
  <2>4. ASSUME NEW u \in Users, Lapse(u) PROVE LineOK'
    BY <2>1, <2>4 DEF Lapse
  <2>5. ASSUME NEW i \in Items, Abandon(i) PROVE LineOK'
    BY <2>1, <2>5 DEF Abandon, partitions
  <2>6. CASE Publish
    BY <2>1, <2>6 DEF Publish, partitions
  <2>7. CASE UNCHANGED vars
    BY <2>1, <2>7 DEF vars, partitions
  <2> QED BY <2>2, <2>3, <2>4, <2>5, <2>6, <2>7 DEF Next
<1> QED BY <1>1, <1>2, SweepInvHolds, PTL DEF Spec

\* Every variable has its type, a run reads no more pages than its cap, and a
\* sweep is of a partition that has a row.
THEOREM Typed == Spec => []TypeOK
<1>1. SweepInv /\ LineOK => TypeOK
  <2> SUFFICES ASSUME SweepInv, LineOK PROVE TypeOK
    OBVIOUS
  <2>1. ASSUME NEW j \in Drainers, run[j].pc # "idle" PROVE part[run[j].user].known # 0
    BY <2>1 DEF SweepInv, RunInv, RunOK, Jobs
  <2>2. \A j \in Jobs : run[j].pages <= Cap(j)
    BY DEF SweepInv, RunInv, RunOK
  <2> QED BY <2>1, <2>2 DEF SweepInv, TablesOK, LineOK, TypeOK
<1> QED BY <1>1, SweepInvHolds, LineHolds, PTL

=============================================================================
