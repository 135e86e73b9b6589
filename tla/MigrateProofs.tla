---------------------------- MODULE MigrateProofs ----------------------------
(***************************************************************************)
(* Proofs about Migrate, for any pods, any releases of any migrations and  *)
(* any number of rollouts, kills and failing statements.                   *)
(***************************************************************************)
EXTENDS Migrate, WellFoundedInduction, TLAPS

\* A pod between lock and unlock is the one that holds the lock.
Inside(r) == r.pc \in {"bootstrap", "create", "pending", "apply", "unlock"}
LockHeld  == \A p \in Pods : Inside(pod[p]) => lock = p

\* The migrations of the pod's release are in the schema with its text.
Served(r) == \A f \in DOMAIN Ships[r.release] : recorded[f] = Ships[r.release][f]

\* What `pending` found goes on to hold while the pod applies it.
Halfway(r) ==
  /\ \A f \in r.todo : recorded[f] = Unrecorded
  /\ \A f \in DOMAIN Ships[r.release] \ r.todo : recorded[f] = Ships[r.release][f]

\* A pod that succeeded has been served.
Steady(r) ==
  /\ r.ok => r.pc \in {"unlock", "done"}
  /\ r.pc = "done" => r.ok /\ ~r.check
  /\ r.pc = "apply" => Halfway(r)
  /\ r.ok /\ ~r.check => Served(r)

Progress == \A p \in Pods : Steady(pod[p])

\* What was applied is recorded, and so is all that its release has below it.
History ==
  \A m \in DOMAIN applied :
    /\ applied[m].file \in DOMAIN Ships[applied[m].by]
    /\ recorded[applied[m].file] = Ships[applied[m].by][applied[m].file]
    /\ \A f \in DOMAIN Ships[applied[m].by] :
         f < applied[m].file => recorded[f] # Unrecorded

\* The inductive invariant.
MigrateInv == /\ TypeOK /\ LockHeld /\ BootstrapAlone /\ Progress
              /\ History /\ AppliedOnce /\ InOrder

----------------------------------------------------------------------------
\* The operators.

\* < is well founded, so there is a least of some numbers.
LEMMA FirstExists ==
  ASSUME NEW some \in SUBSET Nat, some # {}
  PROVE  \E f \in some : \A g \in some : f <= g
<1> DEFINE Less == OpToRel(<, Nat)
<1>1. IsWellFoundedOn(Less, Nat)
  BY NatLessThanWellFounded
<1>2. PICK f \in some : \A g \in some : <<g, f>> \notin Less
  <2> HIDE DEF Less
  <2> QED BY <1>1, WFMin
<1>3. \A g \in some : ~(g < f)
  BY <1>2 DEF OpToRel
<1> QED BY <1>3

\* The first of some migrations is one of them.
LEMMA LowestIsFirst ==
  ASSUME ReleasesAssumption, NEW todo \in SUBSET Files, todo # {}
  PROVE  Lowest(todo) \in todo /\ \A g \in todo : Lowest(todo) <= g
<1>1. \E f \in todo : \A g \in todo : f <= g
  BY FirstExists DEF ReleasesAssumption
<1> QED BY <1>1 DEF Lowest

LEMMA BecomesValue ==
  ASSUME TypeOK, NEW p \in Pods, NEW r, Becomes(p, r)
  PROVE  /\ pod'[p] = r
         /\ \A q \in Pods \ {p} : pod'[q] = pod[q]
         /\ r \in Pod => pod' \in [Pods -> Pod]
BY DEF Becomes, TypeOK

\* What TypeOK says of a pod by itself.
PodOK(r) == /\ r \in Pod
            /\ r.release = NoRelease <=> r.pc = "idle"
            /\ r.pc # "idle" => /\ r.todo \subseteq DOMAIN Ships[r.release]
                                /\ r.pc = "apply" => r.todo # {} /\ ~r.check

LEMMA PodType == ASSUME TypeOK, NEW p \in Pods PROVE PodOK(pod[p])
BY DEF TypeOK, PodOK

LEMMA PodsType ==
  ASSUME TypeOK, NEW p \in Pods, NEW r, Becomes(p, r), PodOK(r)
  PROVE  pod' \in [Pods -> Pod] /\ \A q \in Pods : PodOK(pod'[q])
<1>1. pod' \in [Pods -> Pod] /\ pod'[p] = r /\ \A q \in Pods \ {p} : pod'[q] = pod[q]
  BY BecomesValue DEF PodOK
<1> QED BY <1>1, PodType

LEMMA BecomesType ==
  ASSUME TypeOK, NEW p \in Pods, NEW r, Becomes(p, r), PodOK(r),
         UNCHANGED <<release, schema, deploys>>, lock' \in Pods \cup {NoPod},
         faults' \in 0 .. MaxFaults
  PROVE  TypeOK'
BY PodsType DEF TypeOK, PodOK, schema

LEMMA IdleType == PodOK(Idle)
BY DEF PodOK, Pod, Idle, Steps
LEMMA RaiseType ==
  ASSUME TypeOK, NEW p \in Pods, pod[p].pc # "idle"
  PROVE  PodOK([pod[p] EXCEPT !.pc = "unlock", !.todo = {}])
BY PodType DEF PodOK, Pod, Steps

LEMMA GotoType ==
  ASSUME TypeOK, NEW p \in Pods, pod[p].pc # "idle",
         NEW s \in Steps \ {"idle", "apply"}
  PROVE  PodOK([pod[p] EXCEPT !.pc = s])
BY PodType DEF PodOK, Pod, Steps

LEMMA ServedType ==
  ASSUME NEW r, PodOK(r), r.pc # "idle"
  PROVE  /\ PodOK([r EXCEPT !.pc = "unlock", !.ok = TRUE])
         /\ PodOK([r EXCEPT !.pc = "unlock", !.todo = {}, !.ok = TRUE])
<1> DEFINE s == [r EXCEPT !.pc = "unlock", !.ok = TRUE]
           t == [r EXCEPT !.pc = "unlock", !.todo = {}, !.ok = TRUE]
<1>1. r \in Pod
  BY DEF PodOK
<1>2. s \in Pod /\ s.pc = "unlock" /\ s.release = r.release /\ s.todo = r.todo
  BY <1>1 DEF Pod, Steps
<1>3. t \in Pod /\ t.pc = "unlock" /\ t.release = r.release /\ t.todo = {}
  BY <1>1 DEF Pod, Steps
<1> HIDE DEF s, t
<1>4. PodOK(s) /\ PodOK(t)
  BY <1>2, <1>3 DEF PodOK
<1> QED BY <1>4 DEF s, t

LEMMA TodoType ==
  ASSUME NEW r, PodOK(r), r.pc # "idle", ~r.check,
         NEW todo \in SUBSET Files, todo # {}, todo \subseteq DOMAIN Ships[r.release]
  PROVE  /\ PodOK([r EXCEPT !.pc = "apply", !.todo = todo])
         /\ r.pc = "apply" => PodOK([r EXCEPT !.todo = todo])
<1> DEFINE s == [r EXCEPT !.pc = "apply", !.todo = todo]
           t == [r EXCEPT !.todo = todo]
<1>1. r \in Pod
  BY DEF PodOK
<1>2. s \in Pod /\ s.pc = "apply" /\ s.release = r.release /\ s.todo = todo /\ s.check = r.check
  BY <1>1 DEF Pod, Steps
<1>3. t \in Pod /\ t.pc = r.pc /\ t.release = r.release /\ t.todo = todo /\ t.check = r.check
  BY <1>1 DEF Pod, Steps
<1> HIDE DEF s, t
<1>4. PodOK(s) /\ PodOK(t)
  BY <1>2, <1>3 DEF PodOK
<1> QED BY <1>4 DEF s, t

----------------------------------------------------------------------------
\* Types.

LEMMA InitType == ReleasesAssumption /\ Init => TypeOK
<1> SUFFICES ASSUME ReleasesAssumption, Init PROVE TypeOK
  OBVIOUS
<1>1. Idle \in Pod /\ Idle.release = NoRelease /\ Idle.pc = "idle"
  BY DEF Idle, Pod, Steps
<1>2. /\ pod \in [Pods -> Pod]
      /\ \A p \in Pods : pod[p].release = NoRelease /\ pod[p].pc = "idle"
  <2> HIDE DEF Idle
  <2> QED BY <1>1 DEF Init
<1>3. applied \in Seq([file : Files, by : Releases])
  BY DEF Init
<1>4. 0 \in 0 .. MaxDeploys /\ 0 \in 0 .. MaxFaults
  BY DEF ReleasesAssumption
<1>5. recorded \in [Files -> {Unrecorded} \cup
                       UNION {{Ships[r][f] : f \in DOMAIN Ships[r]} : r \in Releases}]
  BY DEF Init
<1> QED BY <1>2, <1>3, <1>4, <1>5 DEF Init, TypeOK

LEMMA NextType == ReleasesAssumption /\ TypeOK /\ [Next]_vars => TypeOK'
<1> SUFFICES ASSUME ReleasesAssumption, TypeOK, [Next]_vars PROVE TypeOK'
  OBVIOUS
<1>1. ASSUME NEW p \in Pods, NEW check \in BOOLEAN, Begin(p, check) PROVE TypeOK'
  <2>1. PodOK([Idle EXCEPT !.pc = "lock", !.release = release, !.check = check])
    BY <1>1 DEF PodOK, Pod, Idle, Steps, TypeOK, ReleasesAssumption
  <2> QED BY <1>1, <2>1, BecomesType DEF Begin, TypeOK
<1>2. ASSUME NEW p \in Pods, Acquire(p) PROVE TypeOK'
  BY <1>2, GotoType, BecomesType DEF Acquire, Goto, Steps, TypeOK
<1>3. ASSUME NEW p \in Pods, Bootstrap(p) PROVE TypeOK'
  BY <1>3, GotoType, BecomesType DEF Bootstrap, Goto, Steps, TypeOK
<1>4. ASSUME NEW p \in Pods, Create(p) PROVE TypeOK'
  <2>1. PodOK([pod[p] EXCEPT !.pc = "pending"])
        /\ PodOK([pod[p] EXCEPT !.pc = "unlock", !.todo = {}])
    BY <1>4, GotoType, RaiseType DEF Create, Steps
  <2>2. pod' \in [Pods -> Pod] /\ \A q \in Pods : PodOK(pod'[q])
    BY <1>4, <2>1, PodsType DEF Create, Goto, Raise
  <2> QED BY <1>4, <2>2 DEF Create, TypeOK, PodOK
<1>5. ASSUME NEW p \in Pods, Pending(p) PROVE TypeOK'
  <2> DEFINE todo == Missing(pod[p].release)
  <2>1. pod[p].pc = "pending" /\ PodOK(pod[p]) /\ pod[p].release \in Releases
    BY <1>5, PodType DEF Pending, PodOK, Pod
  <2>2. todo \subseteq DOMAIN Ships[pod[p].release] /\ todo \subseteq Files
    BY <2>1 DEF Missing, ReleasesAssumption
  <2> HIDE DEF todo
  <2>3. CASE Raise(p)
    BY <1>5, <2>1, <2>3, RaiseType, BecomesType DEF Pending, Raise, TypeOK
  <2>4. CASE Becomes(p, [pod[p] EXCEPT !.pc = "unlock", !.ok = TRUE])
    BY <1>5, <2>1, <2>4, ServedType, BecomesType DEF Pending, TypeOK
  <2>5. CASE /\ Becomes(p, [pod[p] EXCEPT !.pc = "apply", !.todo = todo])
             /\ ~pod[p].check /\ todo # {}
    BY <1>5, <2>1, <2>2, <2>5, TodoType, BecomesType DEF Pending, TypeOK
  <2> QED BY <1>5, <2>3, <2>4, <2>5 DEF Pending, todo
<1>6. ASSUME NEW p \in Pods, Apply(p) PROVE TypeOK'
  <2> DEFINE f == Lowest(pod[p].todo)
             left == pod[p].todo \ {f}
             text == Ships[pod[p].release][f]
  <2>1. /\ PodOK(pod[p]) /\ pod[p].pc = "apply" /\ ~pod[p].check
        /\ pod[p].release \in Releases /\ pod[p].todo \in SUBSET Files /\ pod[p].todo # {}
    BY <1>6, PodType DEF Apply, PodOK, Pod
  <2>2. f \in pod[p].todo /\ f \in DOMAIN Ships[pod[p].release] /\ f \in Files
    BY <1>6, <2>1, LowestIsFirst, PodType DEF Apply, PodOK
  <2>3. recorded' \in [Files -> {Unrecorded} \cup
           UNION {{Ships[r][g] : g \in DOMAIN Ships[r]} : r \in Releases}]
    <3>1. text \in UNION {{Ships[r][g] : g \in DOMAIN Ships[r]} : r \in Releases}
      BY <2>1, <2>2
    <3> QED BY <1>6, <2>2, <3>1 DEF Apply, TypeOK
  <2>4. applied' \in Seq([file : Files, by : Releases])
    BY <1>6, <2>1, <2>2 DEF Apply, TypeOK
  <2>5. left # {} => PodOK([pod[p] EXCEPT !.todo = left])
    <3>1. left \in SUBSET Files /\ left \subseteq DOMAIN Ships[pod[p].release]
      BY <2>1 DEF PodOK
    <3> HIDE DEF left
    <3> QED BY <2>1, <3>1, TodoType
  <2>6. PodOK([pod[p] EXCEPT !.pc = "unlock", !.todo = {}, !.ok = TRUE])
    BY <2>1, ServedType
  <2>7. pod' \in [Pods -> Pod] /\ \A q \in Pods : PodOK(pod'[q])
    BY <1>6, <2>5, <2>6, PodsType DEF Apply
  <2> QED BY <1>6, <2>3, <2>4, <2>7 DEF Apply, TypeOK, PodOK
<1>7. ASSUME NEW p \in Pods, Unlock(p) PROVE TypeOK'
  BY <1>7, GotoType, IdleType, BecomesType DEF Unlock, Steps, TypeOK
<1>8. ASSUME NEW p \in Pods, StatementFails(p) PROVE TypeOK'
  <2>1. faults' \in 0 .. MaxFaults
    BY <1>8 DEF StatementFails, TypeOK, ReleasesAssumption
  <2> QED BY <1>8, <2>1, RaiseType, BecomesType DEF StatementFails, Raise, TypeOK
<1>9. ASSUME NEW p \in Pods, Crash(p) PROVE TypeOK'
  <2>1. faults' \in 0 .. MaxFaults
    BY <1>9 DEF Crash, TypeOK, ReleasesAssumption
  <2> QED BY <1>9, <2>1, IdleType, BecomesType DEF Crash, TypeOK
<1>10. ASSUME NEW p \in Pods, Reap(p) PROVE TypeOK'
  BY <1>10 DEF Reap, TypeOK, schema
<1>11. ASSUME NEW p \in Pods, Finish(p) PROVE TypeOK'
  BY <1>11, IdleType, BecomesType DEF Finish, TypeOK
<1>12. ASSUME NEW r \in Releases, Deploy(r) PROVE TypeOK'
  BY <1>12 DEF Deploy, TypeOK, schema, ReleasesAssumption
<1>13. CASE UNCHANGED vars
  BY <1>13 DEF vars, schema, TypeOK
<1> QED
  BY <1>1, <1>2, <1>3, <1>4, <1>5, <1>6, <1>7, <1>8, <1>9, <1>10, <1>11, <1>12, <1>13
  DEF Next, Migrating, Holding
----------------------------------------------------------------------------
\* Where the steps that decide something leave the pod.

LEMMA BecomesItself ==
  ASSUME TypeOK, NEW p \in Pods, NEW r, Becomes(p, r)
  PROVE  pod[p] \in Pod /\ pod'[p] = r /\ Becomes(p, pod'[p])
BY BecomesValue DEF TypeOK

\* The pod keeps its image, its mode and, unless it succeeds here, its outcome.
Keeps(q, r) == q.release = r.release /\ q.check = r.check
Same(q, r)  == Keeps(q, r) /\ q.ok = r.ok

LEMMA RaiseValue ==
  ASSUME TypeOK, NEW p \in Pods, Raise(p)
  PROVE  Becomes(p, pod'[p]) /\ pod'[p].pc = "unlock" /\ Same(pod'[p], pod[p])
<1>1. /\ pod[p] \in Pod /\ Becomes(p, pod'[p])
      /\ pod'[p] = [pod[p] EXCEPT !.pc = "unlock", !.todo = {}]
  BY BecomesItself DEF Raise
<1> QED BY <1>1 DEF Same, Keeps, Pod

LEMMA GotoValue ==
  ASSUME TypeOK, NEW p \in Pods, NEW s, Goto(p, s)
  PROVE  Becomes(p, pod'[p]) /\ pod'[p].pc = s /\ Same(pod'[p], pod[p])
<1>1. pod[p] \in Pod /\ Becomes(p, pod'[p]) /\ pod'[p] = [pod[p] EXCEPT !.pc = s]
  BY BecomesItself DEF Goto
<1> QED BY <1>1 DEF Same, Keeps, Pod

LEMMA PendingValue ==
  ASSUME TypeOK, NEW p \in Pods, Pending(p)
  PROVE  /\ Becomes(p, pod'[p]) /\ Keeps(pod'[p], pod[p])
         /\ \/ pod'[p].pc = "unlock" /\ pod'[p].ok = pod[p].ok
            \/ /\ pod'[p].pc = "unlock" /\ Edited(pod[p].release) = {}
               /\ pod[p].check \/ Missing(pod[p].release) = {}
            \/ /\ pod'[p].pc = "apply" /\ pod'[p].ok = pod[p].ok
               /\ pod'[p].todo = Missing(pod[p].release)
               /\ Edited(pod[p].release) = {}
<1>1. CASE Raise(p)
  BY <1>1, RaiseValue DEF Same
<1>2. CASE /\ Becomes(p, [pod[p] EXCEPT !.pc = "unlock", !.ok = TRUE])
           /\ Edited(pod[p].release) = {}
           /\ pod[p].check \/ Missing(pod[p].release) = {}
  <2>1. /\ pod[p] \in Pod /\ Becomes(p, pod'[p])
        /\ pod'[p] = [pod[p] EXCEPT !.pc = "unlock", !.ok = TRUE]
    BY <1>2, BecomesItself
  <2>2. pod'[p].pc = "unlock" /\ Keeps(pod'[p], pod[p])
    BY <2>1 DEF Keeps, Pod
  <2> QED BY <1>2, <2>1, <2>2
<1>3. CASE /\ Becomes(p, [pod[p] EXCEPT !.pc = "apply", !.todo = Missing(pod[p].release)])
           /\ Edited(pod[p].release) = {}
  <2> DEFINE todo == Missing(pod[p].release)
  <2>1. /\ pod[p] \in Pod /\ Becomes(p, pod'[p])
        /\ pod'[p] = [pod[p] EXCEPT !.pc = "apply", !.todo = todo]
    BY <1>3, BecomesItself
  <2> HIDE DEF todo
  <2>2. pod'[p].pc = "apply" /\ pod'[p].todo = todo /\ Same(pod'[p], pod[p])
    BY <2>1 DEF Same, Keeps, Pod
  <2> QED BY <1>3, <2>1, <2>2 DEF Same, todo
<1> QED BY <1>1, <1>2, <1>3 DEF Pending

LEMMA ApplyValue ==
  ASSUME TypeOK, NEW p \in Pods, Apply(p)
  PROVE  LET left == pod[p].todo \ {Lowest(pod[p].todo)}
         IN  /\ Becomes(p, pod'[p]) /\ Keeps(pod'[p], pod[p])
             /\ \/ pod'[p].pc = "unlock" /\ left = {}
                \/ pod'[p].pc = "apply" /\ pod'[p].ok = pod[p].ok /\ pod'[p].todo = left
<1> DEFINE left == pod[p].todo \ {Lowest(pod[p].todo)}
<1>1. CASE left # {}
  <2>1. /\ pod[p] \in Pod /\ Becomes(p, pod'[p]) /\ pod[p].pc = "apply"
        /\ pod'[p] = [pod[p] EXCEPT !.todo = left]
    BY <1>1, BecomesItself DEF Apply
  <2> HIDE DEF left
  <2>2. pod'[p].pc = "apply" /\ pod'[p].todo = left /\ Same(pod'[p], pod[p])
    BY <2>1 DEF Same, Keeps, Pod
  <2> QED BY <2>1, <2>2 DEF Same, left
<1>2. CASE left = {}
  <2>1. /\ pod[p] \in Pod /\ Becomes(p, pod'[p])
        /\ pod'[p] = [pod[p] EXCEPT !.pc = "unlock", !.todo = {}, !.ok = TRUE]
    BY <1>2, BecomesItself DEF Apply
  <2>2. pod'[p].pc = "unlock" /\ Keeps(pod'[p], pod[p])
    BY <2>1 DEF Keeps, Pod
  <2> QED BY <1>2, <2>1, <2>2
<1> QED BY <1>1, <1>2

LEMMA UnlockValue ==
  ASSUME TypeOK, NEW p \in Pods, Unlock(p)
  PROVE  /\ Becomes(p, pod'[p])
         /\ \/ pod'[p] = Idle
            \/ /\ pod'[p].pc = "done" /\ Same(pod'[p], pod[p])
               /\ pod[p].ok /\ ~pod[p].check
<1>1. CASE Becomes(p, Idle)
  BY <1>1, BecomesItself
<1>2. CASE Becomes(p, [pod[p] EXCEPT !.pc = "done"]) /\ pod[p].ok /\ ~pod[p].check
  <2>1. Goto(p, "done")
    BY <1>2 DEF Goto
  <2> QED BY <1>2, <2>1, GotoValue
<1> QED BY <1>1, <1>2 DEF Unlock

----------------------------------------------------------------------------
\* Whoever holds the lock is alone between lock and unlock.

LEMMA InitLock == ReleasesAssumption /\ Init => LockHeld /\ BootstrapAlone
BY DEF Init, LockHeld, BootstrapAlone, Inside, Idle

\* Only the pod that took the lock, or had it, gets or stays inside.
LEMMA LockStep ==
  ASSUME TypeOK, LockHeld, BootstrapAlone, NEW p \in Pods, NEW r, Becomes(p, r),
         \/ UNCHANGED lock /\ (Inside(r) => lock = p)
         \/ lock' = p /\ \A q \in Pods : ~Inside(pod[q])
         \/ ~Inside(r) /\ lock = p,
         r.pc = "create" => ~table, UNCHANGED table
  PROVE  LockHeld' /\ BootstrapAlone'
<1>1. pod'[p] = r /\ \A q \in Pods \ {p} : pod'[q] = pod[q]
  BY BecomesValue
<1> QED BY <1>1 DEF LockHeld, BootstrapAlone, Inside

LEMMA NextLock ==
  ReleasesAssumption /\ TypeOK /\ LockHeld /\ BootstrapAlone /\ [Next]_vars
    => LockHeld' /\ BootstrapAlone'
<1> SUFFICES ASSUME ReleasesAssumption, TypeOK, LockHeld, BootstrapAlone, [Next]_vars
             PROVE  LockHeld' /\ BootstrapAlone'
  OBVIOUS
<1> DEFINE Alone == LockHeld /\ BootstrapAlone
<1>1. ASSUME NEW p \in Pods, NEW check \in BOOLEAN, Begin(p, check) PROVE Alone'
  <2> DEFINE r == [Idle EXCEPT !.pc = "lock", !.release = release, !.check = check]
  <2>1. r.pc = "lock"
    BY DEF Idle
  <2> HIDE DEF r
  <2>2. Becomes(p, r) /\ UNCHANGED <<table, lock>>
    BY <1>1 DEF Begin, schema, r
  <2> QED BY <2>1, <2>2, LockStep DEF Inside
<1>2. ASSUME NEW p \in Pods, Acquire(p) PROVE Alone'
  <2>1. \A q \in Pods : ~Inside(pod[q])
    BY <1>2 DEF Acquire, LockHeld, ReleasesAssumption
  <2>2. [pod[p] EXCEPT !.pc = "bootstrap"].pc = "bootstrap"
    BY DEF TypeOK, Pod
  <2> QED BY <1>2, <2>1, <2>2, LockStep DEF Acquire, Goto, schema
<1>3. ASSUME NEW p \in Pods, Bootstrap(p) PROVE Alone'
  <2>1. \A s : [pod[p] EXCEPT !.pc = s].pc = s
    BY DEF TypeOK, Pod
  <2>2. lock = p
    BY <1>3 DEF Bootstrap, LockHeld, Inside
  <2> QED BY <1>3, <2>1, <2>2, LockStep DEF Bootstrap, Goto, schema
<1>4. ASSUME NEW p \in Pods, Create(p) PROVE Alone'
  <2>1. lock = p /\ \A q \in Pods \ {p} : ~Inside(pod[q])
    BY <1>4 DEF Create, LockHeld, Inside
  <2>2. /\ pod'[p].pc \in {"pending", "unlock"}
        /\ \A q \in Pods \ {p} : pod'[q] = pod[q]
    BY <1>4, GotoValue, RaiseValue, BecomesValue DEF Create
  <2> QED BY <1>4, <2>1, <2>2 DEF Create, LockHeld, BootstrapAlone, Inside
<1>5. ASSUME NEW p \in Pods, Pending(p) \/ Apply(p) \/ StatementFails(p) PROVE Alone'
  <2>1. lock = p /\ UNCHANGED <<table, lock>>
    BY <1>5 DEF Pending, Apply, StatementFails, LockHeld, Inside, schema
  <2>2. Becomes(p, pod'[p]) /\ pod'[p].pc # "create"
    BY <1>5, PendingValue, ApplyValue, RaiseValue DEF StatementFails
  <2> QED BY <2>1, <2>2, LockStep
<1>6. ASSUME NEW p \in Pods, Unlock(p) PROVE Alone'
  <2>1. lock = p /\ UNCHANGED table
    BY <1>6 DEF Unlock, LockHeld, Inside, schema
  <2>2. Becomes(p, pod'[p]) /\ pod'[p].pc \in {"idle", "done"}
    BY <1>6, UnlockValue DEF Idle
  <2> QED BY <2>1, <2>2, LockStep DEF Inside
<1>7. ASSUME NEW p \in Pods, Crash(p) \/ Finish(p) PROVE Alone'
  <2>1. Becomes(p, Idle) /\ Idle.pc = "idle" /\ UNCHANGED <<table, lock>>
    BY <1>7 DEF Crash, Finish, schema, Idle
  <2> QED BY <2>1, LockStep DEF Inside
<1>8. ASSUME NEW p \in Pods, Reap(p) PROVE Alone'
  BY <1>8 DEF Reap, schema, LockHeld, BootstrapAlone, Inside
<1>9. CASE (\E r \in Releases : Deploy(r)) \/ UNCHANGED vars
  BY <1>9 DEF Deploy, vars, schema, LockHeld, BootstrapAlone
<1> QED
  BY <1>1, <1>2, <1>3, <1>4, <1>5, <1>6, <1>7, <1>8, <1>9
  DEF Next, Migrating, Holding
----------------------------------------------------------------------------
\* What a pod found, and what it applied, stays.

Past == History /\ AppliedOnce /\ InOrder

LEMMA InitProgress == ReleasesAssumption /\ Init => Progress /\ Past
BY DEF Init, Progress, Steady, Idle, Past, History, AppliedOnce, InOrder

\* A step of a pod that leaves the schema alone.
LEMMA ProgressStep ==
  ASSUME TypeOK, Progress, NEW p \in Pods, NEW r, Becomes(p, r), Steady(r),
         UNCHANGED recorded
  PROVE  Progress'
<1>1. pod'[p] = r /\ \A q \in Pods \ {p} : pod'[q] = pod[q]
  BY BecomesValue
<1> QED BY <1>1 DEF Progress, Steady, Halfway, Served

\* A pod that succeeded, or does not apply anything, is as steady as before
\* with the same image, mode and outcome.
LEMMA SameSteady ==
  ASSUME TypeOK, Progress, NEW p \in Pods, Same(pod'[p], pod[p]),
         pod'[p].pc \notin {"apply", "done"}, pod[p].ok => pod'[p].pc = "unlock"
  PROVE  Steady(pod'[p])
BY DEF Progress, Steady, Same, Keeps, Served

\* The files a pod has still to apply are not in the schema yet, so the step
\* disturbs nobody who was served and no one else applies.
LEMMA ApplyStep ==
  ASSUME ReleasesAssumption, TypeOK, LockHeld, Progress, Past, NEW p \in Pods, Apply(p)
  PROVE  Progress' /\ Past'
<1> DEFINE f == Lowest(pod[p].todo)
           rel == pod[p].release
           new == [file |-> f, by |-> rel]
<1>1. /\ pod[p].pc = "apply" /\ rel \in Releases /\ ~pod[p].check /\ ~pod[p].ok
      /\ pod[p].todo \in SUBSET Files /\ pod[p].todo \subseteq DOMAIN Ships[rel]
      /\ pod[p].todo # {}
  BY PodType DEF Apply, PodOK, Pod, Progress, Steady
<1>2. /\ f \in pod[p].todo /\ f \in Files /\ f \in DOMAIN Ships[rel]
      /\ \A g \in pod[p].todo : f <= g
  BY <1>1, LowestIsFirst
<1>3. Halfway(pod[p])
  BY <1>1 DEF Progress, Steady
<1>4. recorded[f] = Unrecorded /\ Ships[rel][f] # Unrecorded
  BY <1>1, <1>2, <1>3 DEF Halfway, ReleasesAssumption
<1>5. recorded'[f] = Ships[rel][f] /\ \A g \in Files \ {f} : recorded'[g] = recorded[g]
  BY <1>2, <1>4 DEF Apply, TypeOK
<1>6. applied \in Seq([file : Files, by : Releases]) /\ applied' = Append(applied, new)
  BY DEF Apply, TypeOK
<1> HIDE DEF f
<1>7. \A q \in Pods \ {p} : pod'[q] = pod[q] /\ pod[q].pc # "apply"
  BY <1>1, ApplyValue, BecomesValue DEF LockHeld, Inside
<1>8. \A q \in Pods \ {p} : Steady(pod[q])'
  <2> SUFFICES ASSUME NEW q \in Pods \ {p} PROVE Steady(pod[q])'
    OBVIOUS
  <2>1. pod'[q] = pod[q] /\ pod[q].pc # "apply" /\ Steady(pod[q])
    BY <1>7 DEF Progress
  <2>2. ASSUME pod[q].ok, ~pod[q].check PROVE Served(pod[q])'
    <3>1. pod[q].pc # "idle" /\ Served(pod[q])
      BY <2>1, <2>2 DEF Steady
    <3>2. pod[q].release \in Releases
      BY <3>1, PodType DEF PodOK, Pod
    <3> QED BY <2>1, <3>1, <3>2, <1>4, <1>5 DEF Served, ReleasesAssumption
  <2> QED BY <2>1, <2>2 DEF Steady
<1>9. Steady(pod[p])'
  <2> DEFINE left == pod[p].todo \ {f}
  <2>1. Keeps(pod'[p], pod[p])
    BY ApplyValue
  <2>2. \A g \in DOMAIN Ships[rel] \ left : recorded'[g] = Ships[rel][g]
    BY <1>1, <1>3, <1>5 DEF Halfway, ReleasesAssumption
  <2>3. \A g \in left : recorded'[g] = Unrecorded
    BY <1>1, <1>3, <1>5 DEF Halfway
  <2>4. CASE pod'[p].pc = "unlock" /\ left = {}
    BY <2>1, <2>2, <2>4 DEF Steady, Served, Keeps
  <2>5. CASE pod'[p].pc = "apply" /\ pod'[p].ok = pod[p].ok /\ pod'[p].todo = left
    BY <1>1, <2>1, <2>2, <2>3, <2>5 DEF Steady, Halfway, Keeps
  <2> QED BY <2>4, <2>5, ApplyValue DEF f
<1>10. Len(applied) \in Nat /\ DOMAIN applied = 1 .. Len(applied)
      /\ new \in [file : Files, by : Releases]
  BY <1>1, <1>2, <1>6
<1>11. /\ DOMAIN applied' = DOMAIN applied \cup {Len(applied) + 1}
       /\ Len(applied) + 1 \notin DOMAIN applied
       /\ \A m \in DOMAIN applied : applied'[m] = applied[m] /\ m \in Nat /\ m <= Len(applied)
       /\ applied'[Len(applied) + 1] = new /\ Len(applied) \in Nat
  <2> HIDE DEF new
  <2>1. Len(applied') = Len(applied) + 1 /\ DOMAIN applied' = 1 .. Len(applied')
    BY <1>6, <1>10
  <2>2. applied'[Len(applied) + 1] = new
    BY <1>6, <1>10
  <2>3. \A m \in DOMAIN applied : applied'[m] = applied[m]
    BY <1>6, <1>10
  <2> QED BY <1>10, <2>1, <2>2, <2>3
<1>12. \A m \in DOMAIN applied :
         /\ applied[m].by \in Releases /\ applied[m].file \in Files
         /\ recorded[applied[m].file] # Unrecorded /\ applied[m].file # f
  <2> SUFFICES ASSUME NEW m \in DOMAIN applied
               PROVE  /\ applied[m].by \in Releases /\ applied[m].file \in Files
                      /\ recorded[applied[m].file] # Unrecorded
    BY <1>4
  <2>1. applied[m] \in [file : Files, by : Releases]
    <3> DEFINE Entry == [file : Files, by : Releases]
    <3>1. applied \in Seq(Entry) /\ m \in 1 .. Len(applied)
      BY <1>6, <1>10
    <3> HIDE DEF Entry
    <3>2. applied[m] \in Entry
      BY <3>1
    <3> QED BY <3>2 DEF Entry
  <2>2. /\ applied[m].file \in DOMAIN Ships[applied[m].by]
        /\ recorded[applied[m].file] = Ships[applied[m].by][applied[m].file]
    BY DEF Past, History
  <2> QED BY <2>1, <2>2 DEF ReleasesAssumption
<1>13. History'
  <2>1. \A g \in DOMAIN Ships[rel] : g < f => recorded'[g] # Unrecorded
    <3> SUFFICES ASSUME NEW g \in DOMAIN Ships[rel], g < f PROVE recorded'[g] # Unrecorded
      OBVIOUS
    <3>1. g \in Nat /\ f \in Nat /\ g \in Files
      BY <1>1, <1>2 DEF ReleasesAssumption
    <3>2. g # f /\ ~(f <= g)
      BY <3>1
    <3>3. recorded[g] = Ships[rel][g] /\ Ships[rel][g] # Unrecorded
      BY <1>1, <1>2, <1>3, <3>2 DEF Halfway, ReleasesAssumption
    <3> QED BY <1>5, <3>1, <3>2, <3>3
  <2>2. \A g \in Files : recorded[g] # Unrecorded => recorded'[g] = recorded[g]
    BY <1>4, <1>5
  <2>3. ASSUME NEW m \in DOMAIN applied
        PROVE  /\ applied[m].file \in DOMAIN Ships[applied[m].by]
               /\ recorded'[applied[m].file] = Ships[applied[m].by][applied[m].file]
               /\ \A g \in DOMAIN Ships[applied[m].by] :
                    g < applied[m].file => recorded'[g] # Unrecorded
    BY <1>12, <2>2 DEF Past, History, ReleasesAssumption
  <2>4. new.file = f /\ new.by = rel
    OBVIOUS
  <2> HIDE DEF new
  <2> QED BY <1>2, <1>5, <1>11, <2>1, <2>3, <2>4 DEF History
<1>14. AppliedOnce'
  <2>1. \A m \in DOMAIN applied' : recorded'[applied'[m].file] = Ships[applied'[m].by][applied'[m].file]
    BY <1>13 DEF History
  <2>2. new.file = f
    OBVIOUS
  <2> HIDE DEF new
  <2>3. \A m, n \in DOMAIN applied' : applied'[m].file = applied'[n].file => m = n
    BY <1>11, <1>12, <2>2 DEF Past, AppliedOnce
  <2> QED BY <2>1, <2>3 DEF AppliedOnce
<1>15. InOrder'
  <2> SUFFICES ASSUME NEW n \in DOMAIN applied', NEW m \in 1 .. n,
                      applied'[m].file > applied'[n].file
               PROVE  applied'[n].file \notin DOMAIN Ships[applied'[m].by]
    BY DEF InOrder
  <2>1. CASE n \in DOMAIN applied
    <3>1. m \in DOMAIN applied
      BY <1>6, <2>1
    <3> QED BY <1>11, <2>1, <3>1 DEF Past, InOrder
  <2>2. CASE n = Len(applied) + 1
    <3>1. applied'[n].file = f /\ f \in Nat
      BY <1>2, <1>11, <2>2 DEF ReleasesAssumption
    <3>2. CASE m = n
      BY <3>1, <3>2
    <3>3. CASE m \in DOMAIN applied
      BY <1>4, <1>11, <1>12, <3>1, <3>3 DEF Past, History, ReleasesAssumption
    <3> QED BY <1>6, <2>2, <3>2, <3>3
  <2> QED BY <1>11, <2>1, <2>2
<1> QED BY <1>8, <1>9, <1>13, <1>14, <1>15 DEF Progress, Past
LEMMA IdleSteady == Steady(Idle)
BY DEF Steady, Idle

LEMMA NextProgress ==
  ReleasesAssumption /\ TypeOK /\ LockHeld /\ Progress /\ Past /\ [Next]_vars
    => Progress' /\ Past'
<1> SUFFICES ASSUME ReleasesAssumption, TypeOK, LockHeld, Progress, Past, [Next]_vars
             PROVE  Progress' /\ Past'
  OBVIOUS
<1>1. ASSUME UNCHANGED <<recorded, applied>> PROVE Past'
  BY <1>1 DEF Past, History, AppliedOnce, InOrder
<1> DEFINE Kept == UNCHANGED <<recorded, applied>> /\ Progress'
<1>2. ASSUME NEW p \in Pods, NEW check \in BOOLEAN, Begin(p, check) PROVE Kept
  <2> DEFINE r == [Idle EXCEPT !.pc = "lock", !.release = release, !.check = check]
  <2>1. Steady(r)
    BY DEF Steady, Idle
  <2> HIDE DEF r
  <2>2. Becomes(p, r) /\ UNCHANGED <<recorded, applied>>
    BY <1>2 DEF Begin, schema, r
  <2> QED BY <2>1, <2>2, ProgressStep
<1>3. ASSUME NEW p \in Pods, Acquire(p) \/ Bootstrap(p) \/ Create(p) \/ StatementFails(p)
      PROVE  Kept
  <2>1. UNCHANGED <<recorded, applied>> /\ ~pod[p].ok
    BY <1>3 DEF Acquire, Bootstrap, Create, StatementFails, schema, Progress, Steady
  <2>2. /\ Becomes(p, pod'[p]) /\ Same(pod'[p], pod[p])
        /\ pod'[p].pc \in {"bootstrap", "create", "pending", "unlock"}
    BY <1>3, GotoValue, RaiseValue DEF Acquire, Bootstrap, Create, StatementFails
  <2> QED BY <2>1, <2>2, SameSteady, ProgressStep
<1>4. ASSUME NEW p \in Pods, Pending(p) PROVE Kept
  <2>1. /\ UNCHANGED <<recorded, applied>> /\ ~pod[p].ok
        /\ pod[p].release \in Releases
    BY <1>4, PodType DEF Pending, schema, Progress, Steady, PodOK, Pod
  <2>2. ASSUME Edited(pod[p].release) = {}
        PROVE  \A f \in DOMAIN Ships[pod[p].release] \ Missing(pod[p].release) :
                 recorded[f] = Ships[pod[p].release][f]
    BY <2>2 DEF Edited, Missing
  <2>3. Becomes(p, pod'[p]) /\ Keeps(pod'[p], pod[p])
    BY <1>4, PendingValue
  <2>4. Steady(pod'[p])
    <3>1. CASE pod'[p].pc = "unlock" /\ pod'[p].ok = pod[p].ok
      BY <2>1, <3>1 DEF Steady
    <3>2. CASE /\ pod'[p].pc = "unlock" /\ Edited(pod[p].release) = {}
               /\ pod[p].check \/ Missing(pod[p].release) = {}
      BY <2>2, <2>3, <3>2 DEF Steady, Served, Keeps
    <3>3. CASE /\ pod'[p].pc = "apply" /\ pod'[p].ok = pod[p].ok
               /\ pod'[p].todo = Missing(pod[p].release) /\ Edited(pod[p].release) = {}
      <4>1. \A f \in pod'[p].todo : recorded[f] = Unrecorded
        BY <3>3 DEF Missing
      <4> QED BY <2>1, <2>2, <2>3, <3>3, <4>1 DEF Steady, Halfway, Keeps
    <3> QED BY <1>4, <3>1, <3>2, <3>3, PendingValue
  <2> QED BY <2>1, <2>3, <2>4, ProgressStep
<1>5. ASSUME NEW p \in Pods, Unlock(p) PROVE Kept
  <2>1. UNCHANGED <<recorded, applied>> /\ Steady(pod[p])
    BY <1>5 DEF Unlock, schema, Progress
  <2>2. ASSUME pod'[p].pc = "done", Same(pod'[p], pod[p]), pod[p].ok, ~pod[p].check
        PROVE  Steady(pod'[p])
    BY <2>1, <2>2 DEF Steady, Same, Keeps, Served
  <2>3. Becomes(p, pod'[p]) /\ Steady(pod'[p])
    BY <1>5, <2>2, UnlockValue, IdleSteady
  <2> QED BY <2>1, <2>3, ProgressStep
<1>6. ASSUME NEW p \in Pods, Crash(p) \/ Finish(p) PROVE Kept
  <2>1. UNCHANGED <<recorded, applied>> /\ Becomes(p, Idle)
    BY <1>6 DEF Crash, Finish, schema
  <2> QED BY <2>1, IdleSteady, ProgressStep
<1>7. ASSUME UNCHANGED <<schema, pod>> PROVE Kept
  BY <1>7 DEF schema, Progress, Steady, Halfway, Served
<1>8. (\E p \in Pods : Reap(p)) \/ (\E r \in Releases : Deploy(r)) \/ UNCHANGED vars
        => UNCHANGED <<schema, pod>>
  BY DEF Reap, Deploy, vars, schema
<1>9. ASSUME NEW p \in Pods, Apply(p) PROVE Progress' /\ Past'
  BY <1>9, ApplyStep
<1> QED
  BY <1>1, <1>2, <1>3, <1>4, <1>5, <1>6, <1>7, <1>8, <1>9 DEF Next, Migrating, Holding

----------------------------------------------------------------------------
\* The theorems.

LEMMA InitMigrate == ReleasesAssumption /\ Init => MigrateInv
BY InitType, InitLock, InitProgress DEF MigrateInv, Past

LEMMA NextMigrate == ReleasesAssumption /\ MigrateInv /\ [Next]_vars => MigrateInv'
BY NextType, NextLock, NextProgress DEF MigrateInv, Past

\* The inductive invariant.
THEOREM Migrates == Spec => []MigrateInv
BY ReleasesAssumption, InitMigrate, NextMigrate, PTL DEF Spec

\* Two pods that race on a virgin database never both create the table.
THEOREM BootstrapsAlone == Spec => []BootstrapAlone
<1>1. MigrateInv => BootstrapAlone
  BY DEF MigrateInv
<1> QED BY <1>1, Migrates, PTL

\* A migration's SQL commits once, however many pods of whatever releases tick,
\* fail or are killed, and the checksum recorded is that of the text that ran.
THEOREM AppliesOnce == Spec => []AppliedOnce
<1>1. MigrateInv => AppliedOnce
  BY DEF MigrateInv
<1> QED BY <1>1, Migrates, PTL

\* A release applies what it ships in the order of the file names.
THEOREM AppliesInOrder == Spec => []InOrder
<1>1. MigrateInv => InOrder
  BY DEF MigrateInv
<1> QED BY <1>1, Migrates, PTL
=============================================================================
