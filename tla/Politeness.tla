----------------------------- MODULE Politeness -----------------------------
(***************************************************************************)
(* What keeps the crawler polite: PoliteClient.get and its retries, the    *)
(* refusal tally and the sticky latch a human clears, the graduated        *)
(* backoff after 5xx, and the gate every crawling job passes first.        *)
(*                                                                         *)
(* A job is a CronJob: one run at a time, each starting at its gate.  The  *)
(* latch, the tally and the backoff are Postgres rows all runs share,      *)
(* every call a transaction of its own; the budget of refusals is counted  *)
(* in the process.  Backoff is in ticks of TRANSIENT_BASE_SECONDS.         *)
(***************************************************************************)
EXTENDS Naturals, Sequences, FiniteSets

CONSTANTS
  EgressHosts,         \* EGRESS_HOSTS, in the order the gate looks at them
  ApiHost,             \* the host of the tRPC routes
  NoHost,              \* no request is under way
  Jobs,                \* the CronJobs that make requests
  JobKind,             \* job -> "fetch", "tip" or "backlog"
  Threshold,           \* DEFAULT_THRESHOLD
  TransientThreshold,  \* TRANSIENT_THRESHOLD
  BackoffCap,          \* the cap of a backoff, in ticks
  MaxOutages,          \* bound: consecutive_transient saturates here, where
                       \* the cap makes a longer outage indistinguishable
  MaxTally,            \* bound: consecutive_refusals saturates here; the code
                       \* only compares it with the threshold
  MaxRetries,          \* max_retries
  MaxReads,            \* most requests fetch_bytes makes of one artifact
  ForbiddenBudget,     \* forbidden_budget
  MaxUnlatches,        \* bound: times a human runs `lake unlatch`
  MaxFaults            \* bound: crashes and statements that fail

Hosts == {EgressHosts[i] : i \in DOMAIN EgressHosts}
Kinds == {"fetch", "tip", "backlog"}

ASSUME ConstantsAssumption ==
  /\ EgressHosts \in Seq(Hosts) /\ NoHost \notin Hosts /\ ApiHost \in Hosts
  /\ IsFiniteSet(Jobs) /\ JobKind \in [Jobs -> Kinds]
  /\ Threshold \in Nat \ {0} /\ TransientThreshold \in Nat \ {0}
  /\ BackoffCap \in Nat /\ ForbiddenBudget \in Nat
  /\ MaxRetries \in Nat /\ MaxReads \in Nat
  /\ MaxUnlatches \in Nat /\ MaxFaults \in Nat
  /\ MaxTally \in Nat /\ MaxTally >= Threshold
  /\ MaxOutages \in Nat /\ MaxOutages >= TransientThreshold
  /\ 2 ^ (MaxOutages - TransientThreshold) >= BackoffCap

VARIABLES
  latch,      \* crawl_latch: no row, an active one, or a cleared one
  tally,      \* crawl_host_health.consecutive_refusals
  outages,    \* crawl_host_backoff.consecutive_transient
  quiet,      \* ticks until backoff_until
  run,        \* each job's process
  stood,      \* auxiliary: the blocks that have stood ever since the run began
  unlatches,
  faults

vars == <<latch, tally, outages, quiet, run, stood, unlatches, faults>>
shared == <<latch, tally, outages, quiet>>

Gates == {"latch", "backoff"} \X Hosts
Steps == {"idle", "gate", "ready", "asking", "refused", "success", "clear", "transient"}

\* at: the next of the gate's checks.  denied: the refusal was a 401 or 403.
\* worked: the run has made a request.  reads: requests it may still make for
\* the bytes of the artifact it has resolved.
Run == [pc : Steps, at : 1 .. 2 * Len(EgressHosts) + 1, host : Hosts \cup {NoHost},
        attempt : 0 .. MaxRetries, denied : BOOLEAN,
        forbidden : [Hosts -> Nat], worked : BOOLEAN,
        reads : 0 .. MaxReads]

Idle == [pc |-> "idle", at |-> 1, host |-> NoHost, attempt |-> 0,
         denied |-> FALSE, forbidden |-> [h \in Hosts |-> 0], worked |-> FALSE,
         reads |-> 0]

Init ==
  /\ latch = [h \in Hosts |-> "none"]
  /\ tally = [h \in Hosts |-> 0]
  /\ outages = [h \in Hosts |-> 0] /\ quiet = [h \in Hosts |-> 0]
  /\ run = [j \in Jobs |-> Idle]
  /\ stood = [j \in Jobs |-> {}]
  /\ unlatches = 0 /\ faults = 0

Becomes(j, r) == run' = [run EXCEPT ![j] = r]
Goto(j, s)    == Becomes(j, [run[j] EXCEPT !.pc = s])

Fault == faults < MaxFaults /\ faults' = faults + 1

----------------------------------------------------------------------------
\* The gate (lake/latch.py).

\* Mutant of Blocked: a backoff that has run out still blocks.
BlockedInOutage(gate) ==
  \/ gate[1] = "latch"   /\ latch[gate[2]] = "active"
  \/ gate[1] = "backoff" /\ outages[gate[2]] >= TransientThreshold

\* What stands in the way of a run that starts: an active latch, or a backoff
\* that has not run out.
Blocked(gate) ==
  \/ gate[1] = "latch"   /\ latch[gate[2]] = "active"
  \/ gate[1] = "backoff" /\ quiet[gate[2]] > 0

\* Bookkeeping of `stood`, a conjunct of every action.
Observe ==
  stood' = [j \in Jobs |->
              CASE run'[j].pc = "idle" -> {}
                [] run'[j].pc # "idle" /\ run[j].pc = "idle" ->
                     {g \in Gates : Blocked(g)'}
                [] OTHER -> {g \in stood[j] : Blocked(g)'}]

\* The gate's checks: the latch of every host, then the backoff of every host.
CheckAt(i) ==
  LET n == Len(EgressHosts) IN
  IF i <= n THEN <<"latch", EgressHosts[i]>> ELSE <<"backoff", EgressHosts[i - n]>>

Start(j) ==
  /\ run[j].pc = "idle"
  /\ Goto(j, "gate")
  /\ UNCHANGED <<shared, unlatches, faults>>
  /\ Observe

\* Mutant of Check: the backoffs are not looked at.
CheckLatches(j) ==
  /\ run[j].pc = "gate"
  /\ IF Blocked(CheckAt(run[j].at)) THEN Becomes(j, Idle)
     ELSE IF run[j].at < Len(EgressHosts)
          THEN Becomes(j, [run[j] EXCEPT !.at = @ + 1])
          ELSE Becomes(j, [Idle EXCEPT !.pc = "ready"])
  /\ UNCHANGED <<shared, unlatches, faults>>
  /\ Observe

\* One query of the gate; Latched and BackingOff end the run.
Check(j) ==
  /\ run[j].pc = "gate"
  /\ IF Blocked(CheckAt(run[j].at)) THEN Becomes(j, Idle)
     ELSE IF run[j].at < 2 * Len(EgressHosts)
          THEN Becomes(j, [run[j] EXCEPT !.at = @ + 1])
          ELSE Becomes(j, [Idle EXCEPT !.pc = "ready"])
  /\ UNCHANGED <<shared, unlatches, faults>>
  /\ Observe

----------------------------------------------------------------------------
\* The job around PoliteClient.get.

\* Discovery asks the API alone; fetch asks the CDN for an artifact whose
\* record the API has answered with.
Asks(j) == {ApiHost} \cup IF JobKind[j] = "fetch" /\ run[j].reads > 0
                          THEN Hosts ELSE {}

\* Whether this outcome of a request ends the run.  image_get swallows what is
\* neither a denial nor a HostBlocked, the CDN's statuses become records;
\* nothing of discover_tip catches; all of discover_backlog does.
Ends(j, h, outcome) ==
  \/ JobKind[j] = "fetch" /\ \/ outcome = "blocked"
                             \/ outcome = "denied" /\ h = ApiHost
  \/ JobKind[j] = "tip" /\ outcome # "ok"

\* get returns or raises, with r the process so far.
Return(j, r, outcome) ==
  Becomes(j, IF Ends(j, r.host, outcome) THEN Idle
             ELSE [Idle EXCEPT !.pc = "ready", !.worked = TRUE,
                               !.forbidden = r.forbidden,
                               !.reads = CASE r.host # ApiHost -> r.reads - 1
                                           [] outcome = "ok"   -> MaxReads
                                           [] OTHER            -> 0])

\* The next attempt of the same request, or its outcome when there is none left.
RetryOr(j, r, outcome) ==
  IF r.attempt < MaxRetries
  THEN Becomes(j, [r EXCEPT !.pc = "asking", !.attempt = @ + 1])
  ELSE Return(j, r, outcome)

\* Mutant of Ask: the budget is compared after it is spent.
AskUnbudgeted(j) ==
  /\ run[j].pc = "ready"
  /\ \E h \in Asks(j) : Becomes(j, [run[j] EXCEPT !.pc = "asking", !.host = h])
  /\ UNCHANGED <<shared, unlatches, faults>>
  /\ Observe

\* get is called: the first attempt is sent, unless this run has had its
\* budget of refusals.
Ask(j) ==
  /\ run[j].pc = "ready"
  /\ \E h \in Asks(j) :
       LET r == [run[j] EXCEPT !.host = h] IN
       IF r.forbidden[h] >= ForbiddenBudget THEN Return(j, r, "blocked")
       ELSE Becomes(j, [r EXCEPT !.pc = "asking"])
  /\ UNCHANGED <<shared, unlatches, faults>>
  /\ Observe

\* The batch, the pages or the partitions are through.
End(j) ==
  /\ run[j].pc = "ready" /\ run[j].worked
  /\ Becomes(j, Idle)
  /\ UNCHANGED <<shared, unlatches, faults>>
  /\ Observe

----------------------------------------------------------------------------
\* The source answers an attempt.

\* 401 and 403, or 429.
AnswerRefusal(j) ==
  /\ run[j].pc = "asking"
  /\ \E denied \in BOOLEAN :
       Becomes(j, [run[j] EXCEPT !.pc = "refused", !.denied = denied,
                                 !.forbidden[run[j].host] = @ + 1])
  /\ UNCHANGED <<shared, unlatches, faults>>
  /\ Observe

\* 2xx and 3xx.
AnswerOk(j) ==
  /\ run[j].pc = "asking"
  /\ Goto(j, "success")
  /\ UNCHANGED <<shared, unlatches, faults>>
  /\ Observe

\* Any other 4xx: neither a success nor a refusal.
AnswerOther(j) ==
  /\ run[j].pc = "asking"
  /\ Return(j, run[j], "other")
  /\ UNCHANGED <<shared, unlatches, faults>>
  /\ Observe

\* 5xx: retried, and counted once the retries are used up.
AnswerDown(j) ==
  /\ run[j].pc = "asking"
  /\ IF run[j].attempt < MaxRetries
     THEN Becomes(j, [run[j] EXCEPT !.attempt = @ + 1])
     ELSE Goto(j, "transient")
  /\ UNCHANGED <<shared, unlatches, faults>>
  /\ Observe

\* The transport fails: retried, then raised.
NoAnswer(j) ==
  /\ run[j].pc = "asking"
  /\ RetryOr(j, run[j], "error")
  /\ UNCHANGED <<shared, unlatches, faults>>
  /\ Observe

----------------------------------------------------------------------------
\* The sinks of get (lake/db.py), one transaction each.

\* Mutant of RecordRefusal: only the call that sets the latch is told of it.
RecordFirstRefusal(j) ==
  LET h == run[j].host
      n == IF tally[h] < MaxTally THEN tally[h] + 1 ELSE MaxTally
  IN
  /\ run[j].pc = "refused"
  /\ tally' = [tally EXCEPT ![h] = n]
  /\ latch' = IF n >= Threshold /\ latch[h] = "none"
              THEN [latch EXCEPT ![h] = "active"] ELSE latch
  /\ IF n >= Threshold /\ latch[h] = "none" THEN Return(j, run[j], "blocked")
     ELSE IF run[j].denied THEN Return(j, run[j], "denied")
     ELSE RetryOr(j, run[j], "slow")
  /\ UNCHANGED <<outages, quiet, unlatches, faults>>
  /\ Observe

\* Mutant of RecordRefusal: one refusal too many is let pass.
RecordRefusalLate(j) ==
  LET h == run[j].host
      n == IF tally[h] < MaxTally THEN tally[h] + 1 ELSE MaxTally
  IN
  /\ run[j].pc = "refused"
  /\ tally' = [tally EXCEPT ![h] = n]
  /\ latch' = IF n > Threshold /\ latch[h] = "none"
              THEN [latch EXCEPT ![h] = "active"] ELSE latch
  /\ Return(j, run[j], IF n > Threshold THEN "blocked" ELSE "denied")
  /\ UNCHANGED <<outages, quiet, unlatches, faults>>
  /\ Observe

\* record_refusal.  A row that is there, cleared or not, is left alone.
RecordRefusal(j) ==
  LET h == run[j].host
      n == IF tally[h] < MaxTally THEN tally[h] + 1 ELSE MaxTally
  IN
  /\ run[j].pc = "refused"
  /\ tally' = [tally EXCEPT ![h] = n]
  /\ latch' = IF n >= Threshold /\ latch[h] = "none"
              THEN [latch EXCEPT ![h] = "active"] ELSE latch
  /\ CASE n >= Threshold                     -> Return(j, run[j], "blocked")
       [] n < Threshold /\ run[j].denied     -> Return(j, run[j], "denied")
       [] n < Threshold /\ ~run[j].denied    -> RetryOr(j, run[j], "slow")
  /\ UNCHANGED <<outages, quiet, unlatches, faults>>
  /\ Observe

\* record_success, and in a transaction of its own clear_transient.
RecordSuccess(j) ==
  /\ run[j].pc = "success"
  /\ tally' = [tally EXCEPT ![run[j].host] = 0]
  /\ Goto(j, "clear")
  /\ UNCHANGED <<latch, outages, quiet, unlatches, faults>>
  /\ Observe

ClearTransient(j) ==
  LET h == run[j].host IN
  /\ run[j].pc = "clear"
  /\ IF outages[h] > 0
     THEN outages' = [outages EXCEPT ![h] = 0] /\ quiet' = [quiet EXCEPT ![h] = 0]
     ELSE UNCHANGED <<outages, quiet>>
  /\ Return(j, run[j], "ok")
  /\ UNCHANGED <<latch, tally, unlatches, faults>>
  /\ Observe

\* Mutant of Delay: no cap.
DelayUncapped(n) == 2 ^ (n - TransientThreshold)

\* Ticks a host is left alone after its n-th failed request in a row.
Delay(n) == LET d == 2 ^ (n - TransientThreshold) IN
            IF d < BackoffCap THEN d ELSE BackoffCap

\* record_transient.
RecordTransient(j) ==
  LET h == run[j].host
      n == IF outages[h] < MaxOutages THEN outages[h] + 1 ELSE MaxOutages
  IN
  /\ run[j].pc = "transient"
  /\ outages' = [outages EXCEPT ![h] = n]
  /\ quiet' = IF n < TransientThreshold THEN quiet
              ELSE [quiet EXCEPT ![h] = Delay(n)]
  /\ Return(j, run[j], "down")
  /\ UNCHANGED <<latch, tally, unlatches, faults>>
  /\ Observe

\* The statement raises out of get.
StatementFails(j) ==
  /\ run[j].pc \in {"refused", "success", "clear", "transient"} /\ Fault
  /\ Return(j, run[j], "error")
  /\ UNCHANGED <<shared, unlatches>>
  /\ Observe

----------------------------------------------------------------------------
\* The world outside the runs.

\* The pod is gone, or a query of the gate raises.
Crash(j) ==
  /\ run[j].pc # "idle" /\ Fault
  /\ Becomes(j, Idle)
  /\ UNCHANGED <<shared, unlatches>>
  /\ Observe

\* `lake unlatch`: clear_latch.
Unlatch(h) ==
  /\ unlatches < MaxUnlatches /\ unlatches' = unlatches + 1
  /\ latch' = IF latch[h] = "active" THEN [latch EXCEPT ![h] = "cleared"] ELSE latch
  /\ tally' = [tally EXCEPT ![h] = 0]
  /\ UNCHANGED <<outages, quiet, run, faults>>
  /\ Observe

\* A tick passes.
Tick ==
  /\ \E h \in Hosts : quiet[h] > 0
  /\ quiet' = [h \in Hosts |-> IF quiet[h] > 0 THEN quiet[h] - 1 ELSE 0]
  /\ UNCHANGED <<latch, tally, outages, run, unlatches, faults>>
  /\ Observe

----------------------------------------------------------------------------
Proceed(j) ==
  \/ Check(j) \/ Ask(j) \/ End(j)
  \/ AnswerRefusal(j) \/ AnswerOk(j) \/ AnswerOther(j) \/ AnswerDown(j) \/ NoAnswer(j)
  \/ RecordRefusal(j) \/ RecordSuccess(j) \/ ClearTransient(j) \/ RecordTransient(j)

Next == \/ \E j \in Jobs : Start(j) \/ Proceed(j) \/ StatementFails(j) \/ Crash(j)
        \/ \E h \in Hosts : Unlatch(h)
        \/ Tick

Spec == Init /\ [][Next]_vars

\* CronJobs tick, live pods execute and get answers, and time passes.
FairSpec == /\ Spec /\ WF_vars(Tick)
            /\ \A j \in Jobs : WF_vars(Start(j)) /\ WF_vars(Proceed(j))

----------------------------------------------------------------------------
\* Properties.

\* Every variable has its type; in particular no backoff is longer than the
\* cap, and a process that is out with a request knows the host.
TypeOK ==
  /\ latch \in [Hosts -> {"none", "active", "cleared"}]
  /\ tally \in [Hosts -> 0 .. MaxTally]
  /\ outages \in [Hosts -> 0 .. MaxOutages]
  /\ quiet \in [Hosts -> 0 .. BackoffCap]
  /\ run \in [Jobs -> Run]
  /\ \A j \in Jobs : run[j].pc \notin {"idle", "gate", "ready"} => run[j].host \in Hosts
  /\ stood \in [Jobs -> SUBSET Gates]
  /\ unlatches \in 0 .. MaxUnlatches /\ faults \in 0 .. MaxFaults

\* A run never gets past its gate while a latch or a backoff that stood when
\* it began has stood ever since, though each check is a query of its own and
\* other runs latch, back off and clear in between.
ClosedGateHolds ==
  \A j \in Jobs : run[j].pc \notin {"idle", "gate"} => stood[j] = {}

\* A host that has refused us Threshold times in a row is latched: README,
\* "Three consecutive 401/403/429 from a host stops the crawler until a human
\* clears it".  It holds until a human has cleared one.
LatchedAtThreshold == \A h \in Hosts : tally[h] >= Threshold => latch[h] = "active"

\* A host that goes on refusing is asked at most once more by each other run
\* that was already under way, whatever becomes of retries, statements and
\* pods.  It holds of fetch and the tip, until a human has cleared a latch.
RefusalStreakBounded ==
  \A h \in Hosts : tally[h] <= Threshold + Cardinality(Jobs) - 1

\* No run has more refusals from a host than its budget and the retries of one
\* request, though the budget is looked at only when a request begins.
RefusalsPerRunBounded ==
  \A j \in Jobs, h \in Hosts : run[j].forbidden[h] <= ForbiddenBudget + MaxRetries

\* No outage retires the source: record_transient's cap is there so that "a
\* long outage cannot push the next attempt beyond a day and silently retire
\* the source".  Unless it is latched, the API is asked again and again.
Asking == \E j \in Jobs : run[j].pc = "asking" /\ run[j].host = ApiHost
NotRetired == []<>(Asking \/ \E h \in Hosts : latch[h] = "active")
=============================================================================
