------------------------------- MODULE Migrate -------------------------------
(***************************************************************************)
(* `lake migrate`, which every pod of every CronJob runs before its job:   *)
(* take the advisory lock, create the tracking table, compare what it      *)
(* records with the migrations this image ships, and apply what is         *)
(* missing, each in one transaction with its record.                       *)
(*                                                                         *)
(* Pods of several releases overlap: a release may add a migration, also   *)
(* one that sorts below an applied one, or edit an applied one, and may be *)
(* rolled back.  Migrations are numbers in the order of their file names.  *)
(***************************************************************************)
EXTENDS Naturals, Sequences

CONSTANTS
  Pods,        \* pods that run `lake migrate`
  Checkers,    \* those that somebody may run with --check
  NoPod,       \* nobody holds the lock
  Files,       \* migrations of any release
  Releases,
  Ships,       \* release -> file -> checksum of its text
  NoRelease,   \* no image is running
  Unrecorded,  \* no checksum
  MaxDeploys,  \* bound: rollouts and rollbacks
  MaxFaults    \* bound: kills and statements that raise

\* A release without migrations is refused by `load` before any statement.
ASSUME ReleasesAssumption ==
  /\ Files \subseteq Nat
  /\ \A r \in Releases : DOMAIN Ships[r] \subseteq Files /\ DOMAIN Ships[r] # {}
  /\ \A r \in Releases : \A f \in DOMAIN Ships[r] : Ships[r][f] # Unrecorded
  /\ Checkers \subseteq Pods /\ NoPod \notin Pods /\ NoRelease \notin Releases
  /\ MaxDeploys \in Nat /\ MaxFaults \in Nat

VARIABLES
  release,   \* what the manifests say a new pod runs
  table,     \* schema_migrations exists
  recorded,  \* its rows: file -> checksum
  applied,   \* auxiliary: the migrations whose SQL committed, in that order,
             \* each with the release it came from
  lock,      \* session that holds the advisory lock
  pod,       \* each pod's process
  deploys, faults

schema == <<table, recorded, applied>>
vars == <<release, schema, lock, pod, deploys, faults>>

Steps == {"idle", "lock", "bootstrap", "create", "pending", "apply", "unlock", "done"}
Pod  == [pc : Steps, release : Releases \cup {NoRelease}, todo : SUBSET Files,
         check : BOOLEAN, ok : BOOLEAN]
Idle == [pc |-> "idle", release |-> NoRelease, todo |-> {},
         check |-> FALSE, ok |-> FALSE]

Init ==
  /\ release \in Releases
  /\ table = FALSE /\ recorded = [f \in Files |-> Unrecorded] /\ applied = <<>>
  /\ lock = NoPod
  /\ pod = [p \in Pods |-> Idle]
  /\ deploys = 0 /\ faults = 0

Becomes(p, r) == pod' = [pod EXCEPT ![p] = r]
Goto(p, s)    == Becomes(p, [pod[p] EXCEPT !.pc = s])

\* The exception handler, whose rollback undoes the open transaction.
Raise(p) == Becomes(p, [pod[p] EXCEPT !.pc = "unlock", !.todo = {}])

----------------------------------------------------------------------------
\* run.

\* The initContainer starts, with the image in place by then; or someone runs
\* it with --check.
Begin(p, check) ==
  /\ pod[p].pc = "idle" /\ (check => p \in Checkers)
  /\ Becomes(p, [Idle EXCEPT !.pc = "lock", !.release = release, !.check = check])
  /\ UNCHANGED <<release, schema, lock, deploys, faults>>

\* Mutant of Acquire: the lock is tried, not waited for.
AcquireOrNot(p) ==
  /\ pod[p].pc = "lock"
  /\ lock' = IF lock = NoPod THEN p ELSE lock
  /\ Goto(p, "bootstrap")
  /\ UNCHANGED <<release, schema, deploys, faults>>

\* pg_advisory_lock.
Acquire(p) ==
  /\ pod[p].pc = "lock" /\ lock = NoPod
  /\ lock' = p
  /\ Goto(p, "bootstrap")
  /\ UNCHANGED <<release, schema, deploys, faults>>

\* CREATE TABLE IF NOT EXISTS looks whether the table is there ...
Bootstrap(p) ==
  /\ pod[p].pc = "bootstrap"
  /\ Goto(p, IF table THEN "pending" ELSE "create")
  /\ UNCHANGED <<release, schema, lock, deploys, faults>>

\* ... and creates it, or dies on pg_type when it has appeared since.
Create(p) ==
  /\ pod[p].pc = "create"
  /\ table' = TRUE
  /\ IF table THEN Raise(p) ELSE Goto(p, "pending")
  /\ UNCHANGED <<release, recorded, applied, lock, deploys, faults>>

\* Files of a release that were applied with another text.
Edited(r) == {f \in DOMAIN Ships[r] : recorded[f] \notin {Unrecorded, Ships[r][f]}}

\* Mutant of Missing: a version number instead of a set of files.
MissingAboveLast(r) ==
  {f \in DOMAIN Ships[r] : \A g \in Files : recorded[g] # Unrecorded => g < f}

Missing(r) == {f \in DOMAIN Ships[r] : recorded[f] = Unrecorded}

\* pending, read inside the lock.  --check ends here, having applied nothing.
Pending(p) ==
  LET todo == Missing(pod[p].release) IN
  /\ pod[p].pc = "pending"
  /\ IF Edited(pod[p].release) # {} THEN Raise(p)
     ELSE Becomes(p, IF pod[p].check \/ todo = {}
                     THEN [pod[p] EXCEPT !.pc = "unlock", !.ok = TRUE]
                     ELSE [pod[p] EXCEPT !.pc = "apply", !.todo = todo])
  /\ UNCHANGED <<release, schema, lock, deploys, faults>>

\* Mutant of Lowest: migrations are applied in no particular order.
Highest(todo) == CHOOSE f \in todo : \A g \in todo : f >= g

Lowest(todo) == CHOOSE f \in todo : \A g \in todo : f <= g

\* One transaction: the SQL and its record, ON CONFLICT DO NOTHING.
Apply(p) ==
  LET f    == Lowest(pod[p].todo)
      left == pod[p].todo \ {f}
  IN
  /\ pod[p].pc = "apply"
  /\ applied' = Append(applied, [file |-> f, by |-> pod[p].release])
  /\ recorded' = [recorded EXCEPT ![f] = IF @ = Unrecorded
                                         THEN Ships[pod[p].release][f] ELSE @]
  /\ Becomes(p, IF left # {} THEN [pod[p] EXCEPT !.todo = left]
                ELSE [pod[p] EXCEPT !.pc = "unlock", !.todo = {}, !.ok = TRUE])
  /\ UNCHANGED <<release, table, lock, deploys, faults>>

\* The finally: the exception, if there was one, goes on and the pod fails.
Unlock(p) ==
  /\ pod[p].pc = "unlock"
  /\ lock' = IF lock = p THEN NoPod ELSE lock
  /\ Becomes(p, IF pod[p].ok /\ ~pod[p].check
                THEN [pod[p] EXCEPT !.pc = "done"] ELSE Idle)
  /\ UNCHANGED <<release, schema, deploys, faults>>

----------------------------------------------------------------------------
\* What goes wrong.

\* A statement between lock and unlock raises; its transaction is undone.
StatementFails(p) ==
  /\ pod[p].pc \in {"bootstrap", "create", "pending", "apply"}
  /\ faults < MaxFaults /\ faults' = faults + 1
  /\ Raise(p)
  /\ UNCHANGED <<release, schema, lock, deploys>>

\* The pod is gone.  Its session holds the lock until Postgres notices.
Crash(p) ==
  /\ pod[p].pc # "idle"
  /\ faults < MaxFaults /\ faults' = faults + 1
  /\ Becomes(p, Idle)
  /\ UNCHANGED <<release, schema, lock, deploys>>

\* Postgres ends the session of a pod that is gone, and its lock with it.
Reap(p) ==
  /\ lock = p /\ pod[p].pc \in {"idle", "lock"}
  /\ lock' = NoPod
  /\ UNCHANGED <<release, schema, pod, deploys, faults>>

\* The job that followed is over.
Finish(p) ==
  /\ pod[p].pc = "done"
  /\ Becomes(p, Idle)
  /\ UNCHANGED <<release, schema, lock, deploys, faults>>

\* Another release is rolled out, or back.
Deploy(r) ==
  /\ deploys < MaxDeploys /\ deploys' = deploys + 1
  /\ release # r /\ release' = r
  /\ UNCHANGED <<schema, lock, pod, faults>>

----------------------------------------------------------------------------
\* The steps that follow by themselves once the lock is held.
Holding(p) == Bootstrap(p) \/ Create(p) \/ Pending(p) \/ Apply(p) \/ Unlock(p)

Migrating(p) == \/ \E check \in BOOLEAN : Begin(p, check)
                \/ Acquire(p) \/ Holding(p) \/ StatementFails(p) \/ Reap(p)

Next == \/ \E p \in Pods : Migrating(p) \/ Crash(p) \/ Finish(p)
        \/ \E r \in Releases : Deploy(r)

Spec == Init /\ [][Next]_vars

----------------------------------------------------------------------------
\* Properties.

\* Every variable has its type; a pod with migrations to apply has some.
TypeOK ==
  /\ release \in Releases /\ table \in BOOLEAN
  /\ recorded \in [Files -> {Unrecorded} \cup
                               UNION {{Ships[r][f] : f \in DOMAIN Ships[r]} : r \in Releases}]
  /\ applied \in Seq([file : Files, by : Releases])
  /\ lock \in Pods \cup {NoPod}
  /\ pod \in [Pods -> Pod]
  /\ \A p \in Pods : pod[p].release = NoRelease <=> pod[p].pc = "idle"
  /\ \A p \in {q \in Pods : pod[q].pc # "idle"} :
                     /\ pod[p].todo \subseteq DOMAIN Ships[pod[p].release]
                     /\ pod[p].pc = "apply" => pod[p].todo # {} /\ ~pod[p].check
  /\ deploys \in 0 .. MaxDeploys /\ faults \in 0 .. MaxFaults

\* "Two pods racing on a virgin database both pass the existence check and one
\* dies": whoever has found no tracking table is still right when it creates it.
BootstrapAlone == \A p \in Pods : pod[p].pc = "create" => ~table

\* However many pods of whatever releases tick together, fail or are killed, a
\* migration's SQL commits once, and the checksum recorded is that of the text
\* that ran.  ON CONFLICT DO NOTHING would hide a second run.
AppliedOnce ==
  \A n \in DOMAIN applied :
    /\ \A m \in DOMAIN applied : applied[m].file = applied[n].file => m = n
    /\ recorded[applied[n].file] = Ships[applied[n].by][applied[n].file]

\* "Numbering is the ordering contract": a migration runs after a higher one
\* only when the release that ran the higher one did not have it.
InOrder ==
  \A n \in DOMAIN applied : \A m \in 1 .. n :
    applied[m].file > applied[n].file =>
      applied[n].file \notin DOMAIN Ships[applied[m].by]

\* The release in place ships an applied migration with another text.
Diverged == Edited(release) # {}

\* "The first job to tick applies it, with no human step": the schema catches
\* up with the release in place, a late low-numbered migration included, unless
\* that release edits an applied one.
SchemaCatchesUp ==
  <>[](Diverged \/ \A f \in DOMAIN Ships[release] : recorded[f] # Unrecorded)
=============================================================================
