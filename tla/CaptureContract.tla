-------------------------- MODULE CaptureContract --------------------------
(***************************************************************************)
(* What one fetcher at a time promises the rest of the lake about the      *)
(* crawl queue, whatever its runs meet: a captured artifact stays captured,*)
(* a row is only called done when its capture is in the bucket, and a      *)
(* conclusion is never taken back.  A failed row may still turn out done,  *)
(* when a later flush makes its records durable after all.                 *)
(***************************************************************************)
CONSTANT Artifacts

VARIABLES
  verdict,   \* what the queue says of each artifact
  captured   \* artifacts with a complete capture in the bucket

vars == <<verdict, captured>>

Init ==
  /\ verdict = [a \in Artifacts |-> "open"]
  /\ captured = {}

\* A manifest part becomes durable.
Persist ==
  /\ \E as \in SUBSET Artifacts : captured' = captured \cup as
  /\ UNCHANGED verdict

Conclude(a) ==
  /\ verdict[a] \in {"open", "failed"} /\ a \in captured
  /\ verdict' = [verdict EXCEPT ![a] = "done"]
  /\ UNCHANGED captured

GiveUp(a) ==
  /\ verdict[a] = "open"
  /\ \E v \in {"skipped", "failed"} : verdict' = [verdict EXCEPT ![a] = v]
  /\ UNCHANGED captured

\* A failing flush may leave its part in the bucket, and the row is failed.
GiveUpUncertain(a) ==
  /\ verdict[a] = "open"
  /\ verdict' = [verdict EXCEPT ![a] = "failed"]
  /\ \E as \in SUBSET Artifacts : captured' = captured \cup as

Next == \/ Persist
        \/ \E a \in Artifacts : Conclude(a) \/ GiveUp(a) \/ GiveUpUncertain(a)

Spec == Init /\ [][Next]_vars

Settle(a) == verdict[a] = "open" /\ (Conclude(a) \/ GiveUp(a))

\* ... and no row stays open for ever.
FairSpec == Spec /\ \A a \in Artifacts : WF_vars(Settle(a))
=============================================================================
