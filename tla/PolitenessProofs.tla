-------------------------- MODULE PolitenessProofs --------------------------
(***************************************************************************)
(* Proofs about Politeness, for any hosts, jobs, thresholds, budgets and   *)
(* caps and any number of crashes, failing statements and human unlatches. *)
(***************************************************************************)
EXTENDS Politeness, FiniteSetTheorems, TLAPS

\* A process that is out with a request.
Out(r) == r.pc \notin {"idle", "gate", "ready"}

\* It is out with a host it may ask.
MayAsk(r, h) == h \in Hosts /\ (h # ApiHost => r.reads > 0)

\* What is known of a process by itself: it starts afresh, and the refusals it
\* has had are within the budget but for the attempts of the request under way.
RunOK(r) ==
  /\ r \in Run
  /\ r.pc = "idle" => r = Idle
  /\ r.pc = "gate" => r.at <= 2 * Len(EgressHosts)
  /\ Out(r) => MayAsk(r, r.host)
  /\ \A h \in Hosts : r.forbidden[h] <= ForbiddenBudget + MaxRetries
  /\ r.pc = "asking" => r.forbidden[r.host] < ForbiddenBudget + r.attempt
  /\ r.pc = "refused" => r.forbidden[r.host] <= ForbiddenBudget + r.attempt

\* The shared rows and the counters.
SharedOK ==
  /\ latch \in [Hosts -> {"none", "active", "cleared"}]
  /\ tally \in [Hosts -> 0 .. MaxTally]
  /\ outages \in [Hosts -> 0 .. MaxOutages]
  /\ quiet \in [Hosts -> 0 .. BackoffCap]
  /\ stood \in [Jobs -> SUBSET Gates]
  /\ unlatches \in 0 .. MaxUnlatches /\ faults \in 0 .. MaxFaults

\* The gate's checks that a process is past.
Checked(r) == {CheckAt(i) : i \in 1 .. r.at - 1}

\* What has stood since the run began is still ahead of it at the gate, and
\* there is nothing of the kind once it is through.
StoodOK(r, gates) ==
  /\ r.pc = "gate" => gates \cap Checked(r) = {}
  /\ r.pc \notin {"idle", "gate"} => gates = {}

\* The jobs that an active latch of the host no longer stops.
Past(r, h) == \/ r.pc \notin {"idle", "gate"}
              \/ r.pc = "gate" /\ <<"latch", h>> \in Checked(r)
Passed(h)  == {j \in Jobs : Past(run[j], h)}

\* No latch has been cleared, and a host is latched from the threshold on.
Latched == unlatches = 0 =>
  \A h \in Hosts : latch[h] # "cleared" /\ (tally[h] >= Threshold => latch[h] = "active")

\* From the threshold on, each job past the check may add one refusal more.
Counted == unlatches = 0 =>
  \A h \in Hosts : \/ tally[h] < Threshold
                   \/ tally[h] + Cardinality(Passed(h)) < Threshold + Cardinality(Jobs)

\* The inductive invariant, but for Counted, which needs more of the jobs.
PoliteInv == /\ SharedOK
             /\ run \in [Jobs -> Run] /\ \A j \in Jobs : RunOK(run[j])
             /\ \A j \in Jobs : StoodOK(run[j], stood[j])
             /\ Latched

\* What a job does next, whatever comes back.
JobStep(j) == Start(j) \/ Proceed(j) \/ StatementFails(j) \/ Crash(j)

\* How a step moves a process past the gate: nothing skips a check.
Passage(r, s) ==
  \/ s.pc = "idle"
  \/ r.pc = "idle" /\ s.pc = "gate" /\ s.at = 1
  \/ /\ r.pc = "gate" /\ ~Blocked(CheckAt(r.at)) /\ UNCHANGED shared
     /\ \/ s.pc = "gate" /\ s.at = r.at + 1
        \/ s.pc = "ready" /\ r.at = 2 * Len(EgressHosts)
  \/ r.pc \notin {"idle", "gate"} /\ s.pc \notin {"idle", "gate"}

----------------------------------------------------------------------------
\* The operators.

LEMMA HostsFacts ==
  ASSUME ConstantsAssumption
  PROVE  /\ Len(EgressHosts) \in Nat /\ DOMAIN EgressHosts = 1 .. Len(EgressHosts)
         /\ Len(EgressHosts) >= 1
         /\ \A i \in 1 .. Len(EgressHosts) : EgressHosts[i] \in Hosts
         /\ \A h \in Hosts : \E i \in 1 .. Len(EgressHosts) : EgressHosts[i] = h
<1>1. Len(EgressHosts) \in Nat /\ DOMAIN EgressHosts = 1 .. Len(EgressHosts)
  BY DEF ConstantsAssumption
<1>2. /\ \A i \in 1 .. Len(EgressHosts) : EgressHosts[i] \in Hosts
      /\ \A h \in Hosts : \E i \in 1 .. Len(EgressHosts) : EgressHosts[i] = h
  BY <1>1 DEF Hosts
<1>3. ApiHost \in Hosts
  BY DEF ConstantsAssumption
<1> QED BY <1>1, <1>2, <1>3

LEMMA HostsLen == ConstantsAssumption => Len(EgressHosts) \in Nat
BY HostsFacts

\* The numbers, without the power of two that the cap is compared with.
LEMMA Numbers ==
  ASSUME ConstantsAssumption
  PROVE  /\ Threshold \in Nat /\ Threshold > 0
         /\ TransientThreshold \in Nat /\ TransientThreshold > 0
         /\ BackoffCap \in Nat /\ ForbiddenBudget \in Nat
         /\ MaxRetries \in Nat /\ MaxReads \in Nat
         /\ MaxTally \in Nat /\ MaxTally >= Threshold
         /\ MaxOutages \in Nat /\ MaxOutages >= TransientThreshold
<1>1. /\ Threshold \in Nat \ {0} /\ TransientThreshold \in Nat \ {0}
      /\ BackoffCap \in Nat /\ ForbiddenBudget \in Nat
      /\ MaxRetries \in Nat /\ MaxReads \in Nat
      /\ MaxTally \in Nat /\ MaxTally >= Threshold
      /\ MaxOutages \in Nat /\ MaxOutages >= TransientThreshold
  BY Zenon DEF ConstantsAssumption
<1> QED BY <1>1

\* The checks of a gate are the gates.
LEMMA EveryGateIsChecked ==
  ASSUME ConstantsAssumption
  PROVE  /\ \A i \in 1 .. 2 * Len(EgressHosts) : CheckAt(i) \in Gates
         /\ \A g \in Gates : \E i \in 1 .. 2 * Len(EgressHosts) : CheckAt(i) = g
<1> DEFINE n == Len(EgressHosts)
<1>1. n \in Nat
  BY HostsFacts
<1>2. ASSUME NEW i \in 1 .. 2 * n PROVE CheckAt(i) \in Gates
  <2>1. CASE i <= n
    <3>1. i \in 1 .. n
      BY <1>1, <2>1
    <3> QED BY <2>1, <3>1, HostsFacts DEF CheckAt, Gates
  <2>2. CASE ~(i <= n)
    <3>1. i - n \in 1 .. n
      BY <1>1, <2>2
    <3> QED BY <2>2, <3>1, HostsFacts DEF CheckAt, Gates
  <2> QED BY <2>1, <2>2
<1>3. ASSUME NEW g \in Gates PROVE \E i \in 1 .. 2 * n : CheckAt(i) = g
  <2>1. PICK k \in 1 .. n : EgressHosts[k] = g[2]
    BY HostsFacts DEF Gates
  <2>2. g \in {<<"latch", g[2]>>, <<"backoff", g[2]>>}
    BY DEF Gates
  <2>3. k \in 1 .. 2 * n /\ CheckAt(k) = <<"latch", g[2]>>
    BY <1>1, <2>1 DEF CheckAt
  <2>4. k + n \in 1 .. 2 * n /\ ~(k + n <= n) /\ (k + n) - n = k
    BY <1>1, <2>1
  <2>5. CheckAt(k + n) = <<"backoff", g[2]>>
    BY <2>1, <2>4 DEF CheckAt
  <2> QED BY <2>2, <2>3, <2>4, <2>5
<1> QED BY <1>2, <1>3

\* A backoff is never longer than the cap.
LEMMA DelayWithinCap ==
  ASSUME ConstantsAssumption, NEW n \in Nat, n >= TransientThreshold
  PROVE  Delay(n) \in 0 .. BackoffCap
<1> DEFINE k == n - TransientThreshold
           S == 1 .. k
<1>1. k \in Nat
  BY DEF ConstantsAssumption
<1>2. IsFiniteSet(S) /\ Cardinality(S) = k
  BY <1>1, FS_Interval
<1>3. IsFiniteSet(SUBSET S) /\ Cardinality(SUBSET S) = 2 ^ Cardinality(S)
  BY <1>2, FS_SUBSET
<1>4. Cardinality(SUBSET S) \in Nat
  BY <1>3, FS_CardinalityType
<1>5. 2 ^ k \in Nat
  BY <1>2, <1>3, <1>4
<1> HIDE DEF k
<1>6. (IF 2 ^ k < BackoffCap THEN 2 ^ k ELSE BackoffCap) \in 0 .. BackoffCap
  BY <1>5 DEF ConstantsAssumption
<1> QED BY <1>6 DEF Delay, k

LEMMA BecomesValue ==
  ASSUME run \in [Jobs -> Run], NEW j \in Jobs, NEW r, Becomes(j, r)
  PROVE  /\ run'[j] = r
         /\ \A q \in Jobs \ {j} : run'[q] = run[q]
         /\ r \in Run => run' \in [Jobs -> Run]
BY DEF Becomes

----------------------------------------------------------------------------
\* The processes.

LEMMA IdleOK ==
  ASSUME ConstantsAssumption
  PROVE  RunOK(Idle) /\ Idle.pc = "idle" /\ Idle.at = 1
<1>1. Idle \in Run
  BY HostsFacts DEF ConstantsAssumption, Idle, Run, Steps
<1> QED BY <1>1, HostsFacts DEF ConstantsAssumption, Idle, RunOK, Out

LEMMA FreshOK ==
  ASSUME ConstantsAssumption
  PROVE  /\ RunOK([Idle EXCEPT !.pc = "gate"])
         /\ RunOK([Idle EXCEPT !.pc = "ready"])
<1>1. ASSUME NEW s \in {"gate", "ready"} PROVE RunOK([Idle EXCEPT !.pc = s])
  <2> DEFINE x == [Idle EXCEPT !.pc = s]
  <2>1. x \in Run
    BY IdleOK DEF Run, Steps, RunOK
  <2>2. x.pc = s /\ x.at = 1 /\ \A h \in Hosts : x.forbidden[h] = 0
    BY DEF Idle
  <2> HIDE DEF x
  <2>3. ForbiddenBudget + MaxRetries >= 0 /\ 1 <= 2 * Len(EgressHosts)
    <3>1. Len(EgressHosts) \in Nat /\ Len(EgressHosts) >= 1
      BY HostsFacts
    <3> QED BY <3>1, Numbers
  <2>4. ~Out(x) /\ x.pc \notin {"idle", "asking", "refused"}
    BY <2>2 DEF Out
  <2>5. \A h \in Hosts : x.forbidden[h] <= ForbiddenBudget + MaxRetries
    BY <2>2, <2>3
  <2>6. RunOK(x)
    BY <2>1, <2>2, <2>3, <2>4, <2>5 DEF RunOK
  <2> QED BY <2>6 DEF x
<1> QED BY <1>1

\* get's caller goes on, or the run ends.
LEMMA ReturnOK ==
  ASSUME ConstantsAssumption, NEW j \in Jobs, NEW r, r \in Run,
         MayAsk(r, r.host), \A h \in Hosts : r.forbidden[h] <= ForbiddenBudget + MaxRetries,
         NEW outcome, Return(j, r, outcome)
  PROVE  \E s : /\ RunOK(s) /\ Becomes(j, s)
                /\ s.pc \in {"idle", "ready"}
                /\ Ends(j, r.host, outcome) => s.pc = "idle"
<1>1. CASE Ends(j, r.host, outcome)
  BY <1>1, IdleOK DEF Return
<1>2. CASE ~Ends(j, r.host, outcome)
  <2> DEFINE left == CASE r.host # ApiHost -> r.reads - 1
                       [] outcome = "ok"   -> MaxReads
                       [] OTHER            -> 0
             s == [Idle EXCEPT !.pc = "ready", !.worked = TRUE,
                               !.forbidden = r.forbidden, !.reads = left]
  <2>1. left \in 0 .. MaxReads
    <3>1. r.reads \in 0 .. MaxReads /\ (r.host # ApiHost => r.reads > 0)
      BY DEF Run, MayAsk
    <3>2. MaxReads \in Nat
      BY DEF ConstantsAssumption
    <3>3. CASE r.host # ApiHost
      <4>1. r.reads - 1 \in 0 .. MaxReads
        BY <3>1, <3>2, <3>3
      <4> QED BY <4>1, <3>3
    <3>4. CASE ~(r.host # ApiHost) /\ outcome = "ok"
      <4>1. MaxReads \in 0 .. MaxReads
        BY <3>2
      <4> QED BY <4>1, <3>4
    <3>5. CASE ~(r.host # ApiHost) /\ ~(outcome = "ok")
      <4>1. 0 \in 0 .. MaxReads
        BY <3>2
      <4> QED BY <4>1, <3>5
    <3> QED BY <3>3, <3>4, <3>5
  <2>2. r.forbidden \in [Hosts -> Nat]
    BY DEF Run
  <2> HIDE DEF left
  <2>3. s \in Run
    BY <2>1, <2>2, IdleOK DEF RunOK, Run, Steps
  <2>4. s.pc = "ready" /\ s.forbidden = r.forbidden
    BY DEF Idle
  <2>5. Becomes(j, s)
    BY <1>2 DEF Return, left
  <2> HIDE DEF s
  <2>6. RunOK(s)
    BY <2>3, <2>4 DEF RunOK, Out
  <2> QED BY <1>2, <2>4, <2>5, <2>6
<1> QED BY <1>1, <1>2

\* The next attempt is within the budget, since the last one was.
LEMMA RetryOrOK ==
  ASSUME ConstantsAssumption, NEW j \in Jobs, NEW r, RunOK(r), Out(r),
         r.forbidden[r.host] <= ForbiddenBudget + r.attempt,
         NEW outcome, RetryOr(j, r, outcome)
  PROVE  \E s : /\ RunOK(s) /\ Becomes(j, s)
                /\ s.pc \in {"idle", "ready", "asking"}
<1>0. r \in Run /\ MayAsk(r, r.host)
  BY DEF RunOK
<1>1. CASE r.attempt < MaxRetries
  <2> DEFINE s == [r EXCEPT !.pc = "asking", !.attempt = @ + 1]
  <2>1. r.attempt \in 0 .. MaxRetries /\ r.attempt + 1 \in 0 .. MaxRetries
    BY <1>0, <1>1 DEF Run, ConstantsAssumption
  <2>2. s \in Run
    BY <1>0, <2>1 DEF Run, Steps
  <2>3. /\ s.pc = "asking" /\ s.attempt = r.attempt + 1 /\ s.forbidden = r.forbidden
        /\ s.host = r.host /\ s.reads = r.reads
    BY <1>0 DEF Run
  <2>4. Becomes(j, s)
    BY <1>1 DEF RetryOr
  <2> HIDE DEF s
  <2>5. r.host \in Hosts /\ r.forbidden[r.host] \in Nat
    BY <1>0 DEF MayAsk, Run
  <2>6. s.forbidden[s.host] < ForbiddenBudget + s.attempt
    <3>1. r.attempt \in Nat
      BY <2>1, Numbers
    <3>2. r.forbidden[r.host] < ForbiddenBudget + (r.attempt + 1)
      BY <2>5, <3>1, Numbers
    <3> QED BY <2>3, <3>2
  <2>7. RunOK(s)
    BY <1>0, <2>2, <2>3, <2>6 DEF RunOK, Out, MayAsk
  <2> QED BY <2>3, <2>4, <2>7
<1>2. CASE ~(r.attempt < MaxRetries)
  <2>1. Return(j, r, outcome)
    BY <1>2 DEF RetryOr
  <2>2. PICK s : /\ RunOK(s) /\ Becomes(j, s) /\ s.pc \in {"idle", "ready"}
    BY <1>0, <2>1, ReturnOK DEF RunOK
  <2> QED BY <2>2
<1> QED BY <1>1, <1>2


\* Out with the same request: only a refusal says more of the process.
LEMMA MovedOK ==
  ASSUME NEW r, RunOK(r), Out(r), NEW s \in {"success", "clear", "transient"}
  PROVE  RunOK([r EXCEPT !.pc = s]) /\ [r EXCEPT !.pc = s].pc = s
<1> DEFINE x == [r EXCEPT !.pc = s]
<1>1. r \in Run
  BY DEF RunOK
<1>2. x \in Run
  BY <1>1 DEF Run, Steps
<1>3. x.pc = s /\ x.forbidden = r.forbidden /\ x.host = r.host /\ x.reads = r.reads
  BY <1>1 DEF Run
<1> HIDE DEF x
<1>4. RunOK(x) /\ x.pc = s
  BY <1>2, <1>3 DEF RunOK, MayAsk, Out
<1> QED BY <1>4 DEF x

----------------------------------------------------------------------------
\* What each step makes of its process.

Moves(j) == \E s : RunOK(s) /\ Becomes(j, s) /\ Passage(run[j], s)

LEMMA StartMoves ==
  ASSUME ConstantsAssumption, NEW j \in Jobs, RunOK(run[j]), Start(j)
  PROVE  Moves(j)
<1>1. run[j] = Idle /\ run[j].pc = "idle"
  BY DEF Start, RunOK
<1> DEFINE s == [Idle EXCEPT !.pc = "gate"]
<1>2. Becomes(j, s)
  BY <1>1 DEF Start, Goto
<1>3. s.pc = "gate" /\ s.at = 1
  BY DEF Idle
<1>4. RunOK(s)
  BY FreshOK
<1> HIDE DEF s
<1> QED BY <1>1, <1>2, <1>3, <1>4 DEF Moves, Passage

LEMMA CheckMoves ==
  ASSUME ConstantsAssumption, NEW j \in Jobs, RunOK(run[j]), Check(j)
  PROVE  Moves(j)
<1> DEFINE r == run[j]
<1>1. r.pc = "gate" /\ UNCHANGED shared
  BY DEF Check
<1>2. r \in Run /\ r.at \in Nat /\ r.at >= 1 /\ r.at <= 2 * Len(EgressHosts)
  <2>1. r \in Run /\ r.at <= 2 * Len(EgressHosts)
    BY <1>1 DEF RunOK
  <2>2. r.at \in 1 .. 2 * Len(EgressHosts) + 1
    BY <2>1 DEF Run
  <2> HIDE DEF r
  <2> QED BY <2>1, <2>2, HostsLen
<1>3. CASE Blocked(CheckAt(r.at))
  <2>1. Becomes(j, Idle)
    BY <1>3 DEF Check
  <2> QED BY <2>1, IdleOK DEF Moves, Passage
<1>4. CASE ~Blocked(CheckAt(r.at)) /\ r.at < 2 * Len(EgressHosts)
  <2> DEFINE s == [r EXCEPT !.at = @ + 1]
  <2>1. Becomes(j, s)
    BY <1>4 DEF Check
  <2>2. r.at + 1 \in 1 .. 2 * Len(EgressHosts) + 1 /\ r.at + 1 <= 2 * Len(EgressHosts)
    <3> HIDE DEF r, s
    <3> QED BY <1>2, <1>4, HostsLen
  <2>3. s \in Run
    BY <1>2, <2>2 DEF Run
  <2>4. s.pc = "gate" /\ s.at = r.at + 1 /\ s.forbidden = r.forbidden
    BY <1>1, <1>2 DEF Run
  <2> HIDE DEF s
  <2>5. RunOK(s)
    BY <2>2, <2>3, <2>4 DEF RunOK, Out
  <2> QED BY <1>1, <1>4, <2>1, <2>4, <2>5 DEF Moves, Passage
<1>5. CASE ~Blocked(CheckAt(r.at)) /\ ~(r.at < 2 * Len(EgressHosts))
  <2> DEFINE s == [Idle EXCEPT !.pc = "ready"]
  <2>1. Becomes(j, s)
    BY <1>5 DEF Check
  <2>2. s.pc = "ready"
    BY DEF Idle
  <2>3. RunOK(s)
    BY FreshOK
  <2>4. r.at = 2 * Len(EgressHosts)
    <3> HIDE DEF r
    <3> QED BY <1>2, <1>5, HostsLen
  <2> HIDE DEF s
  <2> QED BY <1>1, <1>5, <2>1, <2>2, <2>3, <2>4 DEF Moves, Passage
<1> QED BY <1>3, <1>4, <1>5

LEMMA AskMoves ==
  ASSUME ConstantsAssumption, NEW j \in Jobs, RunOK(run[j]), Ask(j)
  PROVE  Moves(j)
<1> DEFINE r == run[j]
<1>1. r.pc = "ready" /\ r \in Run
  BY DEF Ask, RunOK
<1>2. PICK h \in Asks(j) :
        IF [r EXCEPT !.host = h].forbidden[h] >= ForbiddenBudget
        THEN Return(j, [r EXCEPT !.host = h], "blocked")
        ELSE Becomes(j, [[r EXCEPT !.host = h] EXCEPT !.pc = "asking"])
  BY DEF Ask
<1>3. MayAsk(r, h)
  BY DEF Asks, MayAsk, ConstantsAssumption
<1> DEFINE x == [r EXCEPT !.host = h]
<1>4. /\ x \in Run /\ x.host = h /\ x.forbidden = r.forbidden /\ x.reads = r.reads
      /\ x.pc = r.pc /\ x.attempt = r.attempt
  <2>1. h \in Hosts \cup {NoHost}
    BY <1>3 DEF MayAsk
  <2> QED BY <1>1, <2>1 DEF Run
<1>5. \A g \in Hosts : x.forbidden[g] <= ForbiddenBudget + MaxRetries
  BY <1>4 DEF RunOK
<1>6. MayAsk(x, x.host)
  BY <1>3, <1>4 DEF MayAsk
<1>7. CASE x.forbidden[h] >= ForbiddenBudget
  <2>1. Return(j, x, "blocked")
    BY <1>2, <1>7
  <2> HIDE DEF x
  <2>2. PICK s : RunOK(s) /\ Becomes(j, s) /\ s.pc \in {"idle", "ready"}
    BY <1>4, <1>5, <1>6, <2>1, ReturnOK
  <2> QED BY <1>1, <2>2 DEF Moves, Passage
<1>8. CASE ~(x.forbidden[h] >= ForbiddenBudget)
  <2> DEFINE s == [x EXCEPT !.pc = "asking"]
  <2>1. Becomes(j, s)
    BY <1>2, <1>8
  <2> HIDE DEF x
  <2>2. s \in Run
    BY <1>4 DEF Run, Steps
  <2>3. /\ s.pc = "asking" /\ s.host = x.host /\ s.forbidden = x.forbidden
        /\ s.reads = x.reads /\ s.attempt = x.attempt
    BY <1>4 DEF Run
  <2>4. x.forbidden[h] \in Nat /\ x.attempt \in Nat
    BY <1>3, <1>4 DEF Run, MayAsk
  <2> HIDE DEF s
  <2>5. s.forbidden[s.host] < ForbiddenBudget + s.attempt
    BY <1>4, <1>8, <2>3, <2>4 DEF ConstantsAssumption
  <2>6. RunOK(s)
    BY <1>5, <1>6, <2>2, <2>3, <2>5 DEF RunOK, Out, MayAsk
  <2> QED BY <1>1, <2>1, <2>3, <2>6 DEF Moves, Passage
<1> QED BY <1>7, <1>8

LEMMA RefusalMoves ==
  ASSUME ConstantsAssumption, NEW j \in Jobs, RunOK(run[j]), AnswerRefusal(j)
  PROVE  Moves(j)
<1> DEFINE r == run[j]
<1>1. r.pc = "asking" /\ r \in Run
  BY DEF AnswerRefusal, RunOK
<1>2. PICK denied \in BOOLEAN :
        Becomes(j, [r EXCEPT !.pc = "refused", !.denied = denied,
                             !.forbidden[r.host] = @ + 1])
  BY DEF AnswerRefusal
<1>3. /\ MayAsk(r, r.host) /\ r.host \in Hosts
      /\ r.forbidden \in [Hosts -> Nat] /\ r.attempt \in 0 .. MaxRetries
      /\ r.forbidden[r.host] < ForbiddenBudget + r.attempt
  BY <1>1 DEF RunOK, Out, MayAsk, Run
<1> DEFINE f == [r.forbidden EXCEPT ![r.host] = @ + 1]
           s == [r EXCEPT !.pc = "refused", !.denied = denied,
                          !.forbidden[r.host] = @ + 1]
<1>4. f \in [Hosts -> Nat] /\ f[r.host] <= ForbiddenBudget + r.attempt
  <2>1. r.forbidden[r.host] \in Nat /\ r.forbidden[r.host] + 1 \in Nat
    BY <1>3
  <2>2. f \in [Hosts -> Nat] /\ f[r.host] = r.forbidden[r.host] + 1
    BY <1>3, <2>1
  <2>3. r.attempt \in Nat
    BY <1>3, Numbers
  <2> HIDE DEF r, f, s
  <2>4. r.forbidden[r.host] + 1 <= ForbiddenBudget + r.attempt
    BY <1>3, <2>1, <2>3, Numbers
  <2> QED BY <2>2, <2>4
<1>5. \A h \in Hosts : f[h] <= ForbiddenBudget + MaxRetries
  <2>1. \A h \in Hosts : r.forbidden[h] <= ForbiddenBudget + MaxRetries
    BY DEF RunOK
  <2>2. \A h \in Hosts \ {r.host} : f[h] = r.forbidden[h]
    BY <1>3
  <2>3. f[r.host] <= ForbiddenBudget + MaxRetries
    <3> HIDE DEF r, f, s
    <3> QED BY <1>3, <1>4, Numbers
  <2> HIDE DEF r, f, s
  <2> QED BY <2>1, <2>2, <2>3
<1>6. /\ s.pc = "refused" /\ s.forbidden = f /\ s.host = r.host
      /\ s.reads = r.reads /\ s.attempt = r.attempt
  BY <1>1 DEF Run
<1>7. s = [[[r EXCEPT !.pc = "refused"] EXCEPT !.denied = denied] EXCEPT !.forbidden = f]
  BY <1>1 DEF Run
<1>8. s \in Run
  <2> HIDE DEF f
  <2>1. [r EXCEPT !.pc = "refused"] \in Run
    BY <1>1 DEF Run, Steps
  <2>2. [[r EXCEPT !.pc = "refused"] EXCEPT !.denied = denied] \in Run
    BY <2>1 DEF Run
  <2> QED BY <1>4, <1>7, <2>2 DEF Run
<1>9. Becomes(j, s)
  BY <1>2
<1> HIDE DEF s, f
<1>10. RunOK(s)
  BY <1>3, <1>4, <1>5, <1>6, <1>8 DEF RunOK, Out, MayAsk
<1> QED BY <1>1, <1>6, <1>9, <1>10 DEF Moves, Passage


\* A step that moves a process that is out with a request.
LEMMA OutMoves ==
  ASSUME NEW j \in Jobs, NEW r, r = run[j], RunOK(r), r.pc \notin {"idle", "gate"},
         NEW s, RunOK(s), Becomes(j, s), s.pc # "gate"
  PROVE  Moves(j)
BY DEF Moves, Passage

LEMMA AnswerMoves ==
  ASSUME ConstantsAssumption, NEW j \in Jobs, RunOK(run[j]),
         AnswerOk(j) \/ AnswerOther(j) \/ AnswerDown(j) \/ NoAnswer(j)
  PROVE  Moves(j)
<1> DEFINE r == run[j]
<1>1. r.pc = "asking" /\ r \in Run /\ Out(r) /\ MayAsk(r, r.host)
  BY DEF AnswerOk, AnswerOther, AnswerDown, NoAnswer, RunOK, Out
<1>2. r.forbidden[r.host] < ForbiddenBudget + r.attempt
      /\ \A h \in Hosts : r.forbidden[h] <= ForbiddenBudget + MaxRetries
  BY <1>1 DEF RunOK
<1>3. r.forbidden[r.host] \in Nat /\ r.attempt \in 0 .. MaxRetries
  BY <1>1 DEF Run, MayAsk
<1>4. r.forbidden[r.host] <= ForbiddenBudget + r.attempt
  BY <1>2, <1>3 DEF ConstantsAssumption
<1> HIDE DEF r
<1>5. CASE AnswerOk(j)
  <2>1. Becomes(j, [r EXCEPT !.pc = "success"])
    BY <1>5 DEF AnswerOk, Goto, r
  <2>2. RunOK([r EXCEPT !.pc = "success"]) /\ [r EXCEPT !.pc = "success"].pc = "success"
    BY <1>1, MovedOK DEF r
  <2> QED BY <1>1, <2>1, <2>2, OutMoves DEF r
<1>6. CASE AnswerOther(j)
  <2>1. Return(j, r, "other")
    BY <1>6 DEF AnswerOther, r
  <2>2. PICK s : RunOK(s) /\ Becomes(j, s) /\ s.pc \in {"idle", "ready"}
    BY <1>1, <1>2, <2>1, ReturnOK
  <2> QED BY <1>1, <2>2, OutMoves DEF r
<1>7. CASE AnswerDown(j) /\ r.attempt < MaxRetries
  <2> DEFINE s == [r EXCEPT !.attempt = @ + 1]
  <2>1. Becomes(j, s)
    BY <1>7 DEF AnswerDown, r
  <2>2. r.attempt + 1 \in 0 .. MaxRetries
    BY <1>3, <1>7 DEF ConstantsAssumption
  <2>3. s \in Run
    BY <1>1, <2>2 DEF Run
  <2>4. /\ s.pc = "asking" /\ s.attempt = r.attempt + 1 /\ s.forbidden = r.forbidden
        /\ s.host = r.host /\ s.reads = r.reads
    BY <1>1 DEF Run
  <2> HIDE DEF s
  <2>5. s.forbidden[s.host] < ForbiddenBudget + s.attempt
    BY <1>2, <1>3, <2>4 DEF ConstantsAssumption
  <2>6. RunOK(s)
    BY <1>1, <1>2, <2>3, <2>4, <2>5 DEF RunOK, Out, MayAsk
  <2> QED BY <1>1, <2>1, <2>4, <2>6, OutMoves DEF r
<1>8. CASE AnswerDown(j) /\ ~(r.attempt < MaxRetries)
  <2>1. Becomes(j, [r EXCEPT !.pc = "transient"])
    BY <1>8 DEF AnswerDown, Goto, r
  <2>2. RunOK([r EXCEPT !.pc = "transient"]) /\ [r EXCEPT !.pc = "transient"].pc = "transient"
    BY <1>1, MovedOK DEF r
  <2> QED BY <1>1, <2>1, <2>2, OutMoves DEF r
<1>9. CASE NoAnswer(j)
  <2>1. RetryOr(j, r, "error")
    BY <1>9 DEF NoAnswer, r
  <2>2. PICK s : RunOK(s) /\ Becomes(j, s) /\ s.pc \in {"idle", "ready", "asking"}
    BY <1>1, <1>4, <2>1, RetryOrOK DEF r
  <2> QED BY <1>1, <2>2, OutMoves DEF r
<1> QED BY <1>5, <1>6, <1>7, <1>8, <1>9

\* What record_refusal does to the shared rows, and what get does then.
LEMMA RecordRefusalFacts ==
  ASSUME ConstantsAssumption, SharedOK, NEW j \in Jobs, RecordRefusal(j),
         NEW h \in Hosts, h = run[j].host
  PROVE  \E n \in 0 .. MaxTally :
           /\ n <= tally[h] + 1
           /\ tally' = [tally EXCEPT ![h] = n]
           /\ latch' = IF n >= Threshold /\ latch[h] = "none"
                       THEN [latch EXCEPT ![h] = "active"] ELSE latch
           /\ \/ n >= Threshold /\ Return(j, run[j], "blocked")
              \/ n < Threshold /\ (\/ Return(j, run[j], "denied")
                                   \/ RetryOr(j, run[j], "slow"))
<1> DEFINE n == IF tally[h] < MaxTally THEN tally[h] + 1 ELSE MaxTally
<1>1. n \in 0 .. MaxTally /\ n <= tally[h] + 1 /\ n \in Nat
  <2>1. tally[h] \in 0 .. MaxTally
    BY DEF SharedOK
  <2> QED BY <2>1, Numbers
<1>2. /\ tally' = [tally EXCEPT ![h] = n]
      /\ latch' = IF n >= Threshold /\ latch[h] = "none"
                  THEN [latch EXCEPT ![h] = "active"] ELSE latch
  BY DEF RecordRefusal
<1>3. (CASE n >= Threshold                  -> Return(j, run[j], "blocked")
         [] n < Threshold /\ run[j].denied  -> Return(j, run[j], "denied")
         [] n < Threshold /\ ~run[j].denied -> RetryOr(j, run[j], "slow"))
  BY DEF RecordRefusal
<1> HIDE DEF n
<1>4. n >= Threshold \/ n < Threshold
  BY <1>1 DEF ConstantsAssumption
<1>5. ~(n >= Threshold /\ n < Threshold)
  BY <1>1 DEF ConstantsAssumption
<1>6. \/ n >= Threshold /\ Return(j, run[j], "blocked")
      \/ n < Threshold /\ (\/ Return(j, run[j], "denied")
                           \/ RetryOr(j, run[j], "slow"))
  <2>1. CASE n >= Threshold
    BY <1>3, <1>5, <2>1
  <2>2. CASE n < Threshold /\ run[j].denied
    BY <1>3, <1>5, <2>2
  <2>3. CASE n < Threshold /\ ~run[j].denied
    BY <1>3, <1>5, <2>3
  <2> QED BY <1>4, <2>1, <2>2, <2>3
<1> QED BY <1>1, <1>2, <1>6

LEMMA SinkMoves ==
  ASSUME ConstantsAssumption, SharedOK, NEW j \in Jobs, RunOK(run[j]),
         RecordRefusal(j) \/ RecordSuccess(j) \/ ClearTransient(j) \/ RecordTransient(j)
           \/ StatementFails(j)
  PROVE  Moves(j)
<1> DEFINE r == run[j]
<1>1. r.pc \in {"refused", "success", "clear", "transient"}
  BY DEF RecordRefusal, RecordSuccess, ClearTransient, RecordTransient, StatementFails
<1>2. r \in Run /\ Out(r) /\ MayAsk(r, r.host)
      /\ \A h \in Hosts : r.forbidden[h] <= ForbiddenBudget + MaxRetries
  BY <1>1 DEF RunOK, Out
<1>3. r.pc = "refused" => r.forbidden[r.host] <= ForbiddenBudget + r.attempt
  BY DEF RunOK
<1> HIDE DEF r
<1>4. ASSUME NEW outcome, Return(j, r, outcome) PROVE Moves(j)
  <2>1. PICK s : RunOK(s) /\ Becomes(j, s) /\ s.pc \in {"idle", "ready"}
    BY <1>2, <1>4, ReturnOK
  <2> QED BY <1>1, <2>1, OutMoves DEF r
<1>5. CASE RecordRefusal(j)
  <2>1. r.pc = "refused"
    BY <1>5 DEF RecordRefusal, r
  <2>2. Return(j, r, "blocked") \/ Return(j, r, "denied") \/ RetryOr(j, r, "slow")
    BY <1>2, <1>5, RecordRefusalFacts DEF r, MayAsk
  <2>3. CASE RetryOr(j, r, "slow")
    <3>1. PICK s : RunOK(s) /\ Becomes(j, s) /\ s.pc \in {"idle", "ready", "asking"}
      BY <1>2, <1>3, <2>1, <2>3, RetryOrOK DEF r
    <3> QED BY <1>1, <3>1, OutMoves DEF r
  <2> QED BY <1>4, <2>2, <2>3
<1>6. CASE RecordSuccess(j)
  <2>1. Becomes(j, [r EXCEPT !.pc = "clear"])
    BY <1>6 DEF RecordSuccess, Goto, r
  <2>2. RunOK([r EXCEPT !.pc = "clear"]) /\ [r EXCEPT !.pc = "clear"].pc = "clear"
    BY <1>2, MovedOK DEF r
  <2> QED BY <1>1, <2>1, <2>2, OutMoves DEF r
<1>7. CASE ClearTransient(j)
  <2>1. Return(j, r, "ok")
    BY <1>7 DEF ClearTransient, r
  <2> QED BY <1>4, <2>1
<1>8. CASE RecordTransient(j)
  <2>1. Return(j, r, "down")
    BY <1>8 DEF RecordTransient, r
  <2> QED BY <1>4, <2>1
<1>9. CASE StatementFails(j)
  <2>1. Return(j, r, "error")
    BY <1>9 DEF StatementFails, r
  <2> QED BY <1>4, <2>1
<1> QED BY <1>5, <1>6, <1>7, <1>8, <1>9

\* Any step of a job.
LEMMA JobMoves ==
  ASSUME ConstantsAssumption, SharedOK, NEW j \in Jobs, RunOK(run[j]), JobStep(j)
  PROVE  Moves(j)
<1>1. CASE End(j)
  <2>1. Becomes(j, Idle)
    BY <1>1 DEF End
  <2> QED BY <2>1, IdleOK DEF Moves, Passage
<1>2. CASE Crash(j)
  <2>1. Becomes(j, Idle)
    BY <1>2 DEF Crash
  <2> QED BY <2>1, IdleOK DEF Moves, Passage
<1> QED BY <1>1, <1>2, StartMoves, CheckMoves, AskMoves, RefusalMoves, AnswerMoves, SinkMoves
        DEF JobStep, Proceed


----------------------------------------------------------------------------
\* What each step makes of the shared rows.

LEMMA ObserveOK ==
  ASSUME stood \in [Jobs -> SUBSET Gates], Observe
  PROVE  stood' \in [Jobs -> SUBSET Gates]
<1>1. ASSUME NEW j \in Jobs
      PROVE  (CASE run'[j].pc = "idle" -> {}
                [] run'[j].pc # "idle" /\ run[j].pc = "idle" -> {g \in Gates : Blocked(g)'}
                [] OTHER -> {g \in stood[j] : Blocked(g)'}) \in SUBSET Gates
  OBVIOUS
<1> QED BY <1>1 DEF Observe

\* Only three kinds of step touch a latch or a tally.
LEMMA LatchStep ==
  ASSUME NEW j \in Jobs, JobStep(j)
  PROVE  /\ UNCHANGED unlatches
         /\ UNCHANGED <<latch, tally>> \/ RecordRefusal(j) \/ RecordSuccess(j)
<1>1. CASE Start(j) \/ Crash(j) \/ StatementFails(j) \/ Check(j) \/ Ask(j) \/ End(j)
  BY <1>1 DEF Start, Crash, StatementFails, Check, Ask, End, shared
<1>2. CASE AnswerRefusal(j) \/ AnswerOk(j) \/ AnswerOther(j) \/ AnswerDown(j) \/ NoAnswer(j)
  BY <1>2 DEF AnswerRefusal, AnswerOk, AnswerOther, AnswerDown, NoAnswer, shared
<1>3. CASE RecordRefusal(j) \/ RecordSuccess(j) \/ ClearTransient(j) \/ RecordTransient(j)
  BY <1>3 DEF RecordRefusal, RecordSuccess, ClearTransient, RecordTransient
<1> QED BY <1>1, <1>2, <1>3 DEF JobStep, Proceed

LEMMA JobStepShared ==
  ASSUME ConstantsAssumption, SharedOK, NEW j \in Jobs, RunOK(run[j]), JobStep(j)
  PROVE  SharedOK' /\ Observe
<1>1. Observe
  BY DEF JobStep, Proceed, Start, Crash, StatementFails, Check, Ask, End,
         AnswerRefusal, AnswerOk, AnswerOther, AnswerDown, NoAnswer,
         RecordRefusal, RecordSuccess, ClearTransient, RecordTransient
<1>2. stood' \in [Jobs -> SUBSET Gates]
  BY <1>1, ObserveOK DEF SharedOK
<1>3. unlatches' \in 0 .. MaxUnlatches
  BY LatchStep DEF SharedOK
<1>4. faults' \in 0 .. MaxFaults
  <2>1. UNCHANGED faults \/ Fault
    BY DEF JobStep, Proceed, Start, Crash, StatementFails, Check, Ask, End,
         AnswerRefusal, AnswerOk, AnswerOther, AnswerDown, NoAnswer,
         RecordRefusal, RecordSuccess, ClearTransient, RecordTransient
  <2> QED BY <2>1 DEF SharedOK, Fault, ConstantsAssumption
<1>5. /\ latch' \in [Hosts -> {"none", "active", "cleared"}]
      /\ tally' \in [Hosts -> 0 .. MaxTally]
  <2>1. CASE UNCHANGED <<latch, tally>>
    BY <2>1 DEF SharedOK
  <2>2. CASE RecordRefusal(j)
    <3>1. run[j].host \in Hosts
      BY <2>2 DEF RecordRefusal, RunOK, Out, MayAsk
    <3>2. PICK n \in 0 .. MaxTally :
            /\ tally' = [tally EXCEPT ![run[j].host] = n]
            /\ latch' = IF n >= Threshold /\ latch[run[j].host] = "none"
                        THEN [latch EXCEPT ![run[j].host] = "active"] ELSE latch
      BY <2>2, <3>1, RecordRefusalFacts
    <3>3. latch' \in {latch, [latch EXCEPT ![run[j].host] = "active"]}
      BY <3>2
    <3> QED BY <3>2, <3>3 DEF SharedOK
  <2>3. CASE RecordSuccess(j)
    <3>1. latch' = latch /\ tally' = [tally EXCEPT ![run[j].host] = 0]
      BY <2>3 DEF RecordSuccess
    <3>2. 0 \in 0 .. MaxTally
      BY DEF ConstantsAssumption
    <3> QED BY <3>1, <3>2 DEF SharedOK
  <2> QED BY <2>1, <2>2, <2>3, LatchStep
<1>6. /\ outages' \in [Hosts -> 0 .. MaxOutages]
      /\ quiet' \in [Hosts -> 0 .. BackoffCap]
  <2>1. \/ UNCHANGED <<outages, quiet>>
        \/ ClearTransient(j) \/ RecordTransient(j)
    BY DEF JobStep, Proceed, Start, Crash, StatementFails, Check, Ask, End,
         AnswerRefusal, AnswerOk, AnswerOther, AnswerDown, NoAnswer,
         RecordRefusal, RecordSuccess, shared
  <2>2. CASE UNCHANGED <<outages, quiet>>
    BY <2>2 DEF SharedOK
  <2>3. CASE ClearTransient(j)
    <3> DEFINE h == run[j].host
    <3>1. \/ outages' = [outages EXCEPT ![h] = 0] /\ quiet' = [quiet EXCEPT ![h] = 0]
          \/ UNCHANGED <<outages, quiet>>
      BY <2>3 DEF ClearTransient
    <3> HIDE DEF h
    <3>2. 0 \in 0 .. MaxOutages /\ 0 \in 0 .. BackoffCap
      BY Numbers
    <3>3. outages \in [Hosts -> 0 .. MaxOutages] /\ quiet \in [Hosts -> 0 .. BackoffCap]
      BY DEF SharedOK
    <3>4. CASE outages' = [outages EXCEPT ![h] = 0] /\ quiet' = [quiet EXCEPT ![h] = 0]
      <4>1. outages' \in [Hosts -> 0 .. MaxOutages]
        BY <3>2, <3>3, <3>4
      <4>2. quiet' \in [Hosts -> 0 .. BackoffCap]
        BY <3>2, <3>3, <3>4
      <4> QED BY <4>1, <4>2
    <3>5. CASE UNCHANGED <<outages, quiet>>
      BY <3>3, <3>5
    <3> QED BY <3>1, <3>4, <3>5
  <2>4. CASE RecordTransient(j)
    <3> DEFINE h == run[j].host
               n == IF outages[h] < MaxOutages THEN outages[h] + 1 ELSE MaxOutages
    <3>1. /\ outages' = [outages EXCEPT ![h] = n]
          /\ quiet' = IF n < TransientThreshold THEN quiet
                      ELSE [quiet EXCEPT ![h] = Delay(n)]
      BY <2>4 DEF RecordTransient
    <3>2. h \in Hosts
      BY <2>4 DEF RecordTransient, RunOK, Out, MayAsk
    <3>3. n \in 0 .. MaxOutages
      <4>1. outages[h] \in 0 .. MaxOutages
        BY <3>2 DEF SharedOK
      <4> HIDE DEF h
      <4> QED BY <4>1, Numbers
    <3> HIDE DEF h, n
    <3>4. n >= TransientThreshold => Delay(n) \in 0 .. BackoffCap
      BY <3>3, DelayWithinCap DEF ConstantsAssumption
    <3>5. ~(n < TransientThreshold) => n >= TransientThreshold
      BY <3>3 DEF ConstantsAssumption
    <3> QED BY <3>1, <3>2, <3>3, <3>4, <3>5 DEF SharedOK
  <2> QED BY <2>1, <2>2, <2>3, <2>4
<1> QED BY <1>1, <1>2, <1>3, <1>4, <1>5, <1>6 DEF SharedOK

----------------------------------------------------------------------------
\* The invariant.

LEMMA PoliteInit ==
  ASSUME ConstantsAssumption, Init
  PROVE  PoliteInv
<1>1. SharedOK
  <2>1. 0 \in 0 .. MaxTally /\ 0 \in 0 .. MaxOutages /\ 0 \in 0 .. BackoffCap
        /\ 0 \in 0 .. MaxUnlatches /\ 0 \in 0 .. MaxFaults
    BY DEF ConstantsAssumption
  <2> QED BY <2>1 DEF Init, SharedOK
<1>2. ASSUME NEW j \in Jobs PROVE RunOK(run[j]) /\ StoodOK(run[j], stood[j]) /\ run[j] = Idle
  BY IdleOK DEF Init, StoodOK
<1>3. run \in [Jobs -> Run]
  <2>1. Idle \in Run
    BY IdleOK DEF RunOK
  <2> QED BY <2>1 DEF Init
<1>4. Latched
  BY DEF Init, Latched, ConstantsAssumption
<1> QED BY <1>1, <1>2, <1>3, <1>4 DEF PoliteInv

\* A latch is set at the threshold, and nothing but a human takes it back.
LEMMA JobStepLatched ==
  ASSUME ConstantsAssumption, SharedOK, NEW j \in Jobs, RunOK(run[j]), Latched, JobStep(j)
  PROVE  Latched'
<1>1. CASE UNCHANGED <<latch, tally>>
  BY <1>1, LatchStep DEF Latched
<1>2. CASE RecordRefusal(j)
  <2> DEFINE g == run[j].host
  <2>1. g \in Hosts
    BY <1>2 DEF RecordRefusal, RunOK, Out, MayAsk
  <2>2. PICK n \in 0 .. MaxTally :
          /\ tally' = [tally EXCEPT ![g] = n]
          /\ latch' = IF n >= Threshold /\ latch[g] = "none"
                      THEN [latch EXCEPT ![g] = "active"] ELSE latch
    BY <1>2, <2>1, RecordRefusalFacts
  <2>3. unlatches' = unlatches
    BY LatchStep
  <2> HIDE DEF g
  <2> QED BY <2>1, <2>2, <2>3 DEF Latched, SharedOK
<1>3. CASE RecordSuccess(j)
  <2>1. latch' = latch /\ unlatches' = unlatches /\ tally' = [tally EXCEPT ![run[j].host] = 0]
    BY <1>3 DEF RecordSuccess
  <2> QED BY <2>1 DEF Latched, SharedOK, ConstantsAssumption
<1> QED BY <1>1, <1>2, <1>3, LatchStep

\* A gate that has stood since a run began still stands in its way.
LEMMA StoodStep ==
  ASSUME ConstantsAssumption, NEW j \in Jobs, NEW r, r = run[j], RunOK(r),
         NEW s, s = run'[j], RunOK(s), Passage(r, s), Observe, StoodOK(r, stood[j]),
         stood \in [Jobs -> SUBSET Gates]
  PROVE  StoodOK(s, stood'[j])
<1>1. stood'[j] = CASE s.pc = "idle" -> {}
                    [] s.pc # "idle" /\ r.pc = "idle" -> {g \in Gates : Blocked(g)'}
                    [] OTHER -> {g \in stood[j] : Blocked(g)'}
  BY DEF Observe
<1>2. s.pc # "idle" /\ r.pc # "idle" => stood'[j] = {g \in stood[j] : Blocked(g)'}
  BY <1>1
<1>3. CASE s.pc = "idle"
  BY <1>3 DEF StoodOK
<1>4. CASE r.pc = "idle" /\ s.pc = "gate" /\ s.at = 1
  <2>1. Checked(s) = {}
    BY <1>4 DEF Checked
  <2> QED BY <1>4, <2>1 DEF StoodOK
<1>5. CASE /\ r.pc = "gate" /\ ~Blocked(CheckAt(r.at)) /\ UNCHANGED shared
           /\ \/ s.pc = "gate" /\ s.at = r.at + 1
              \/ s.pc = "ready" /\ r.at = 2 * Len(EgressHosts)
  <2>1. stood'[j] \subseteq stood[j]
    BY <1>2, <1>5
  <2>2. ~Blocked(CheckAt(r.at))'
    BY <1>5 DEF Blocked, shared
  <2>3. CheckAt(r.at) \notin stood'[j]
    BY <1>2, <1>5, <2>2
  <2>4. stood'[j] \cap Checked(r) = {}
    BY <1>5, <2>1 DEF StoodOK
  <2>5. r.at \in Nat
    <3>1. r \in Run
      BY DEF RunOK
    <3>2. r.at \in 1 .. 2 * Len(EgressHosts) + 1
      BY <3>1 DEF Run
    <3>3. Len(EgressHosts) \in Nat
      BY HostsFacts
    <3> QED BY <3>2, <3>3
  <2>6. \A i \in 1 .. r.at : CheckAt(i) \notin stood'[j]
    BY <2>3, <2>4, <2>5 DEF Checked
  <2>7. CASE s.pc = "gate" /\ s.at = r.at + 1
    BY <2>5, <2>6, <2>7 DEF StoodOK, Checked
  <2>8. CASE s.pc = "ready" /\ r.at = 2 * Len(EgressHosts)
    <3>1. stood'[j] = {}
      BY <2>1, <2>6, <2>8, EveryGateIsChecked
    <3> QED BY <2>8, <3>1 DEF StoodOK
  <2> QED BY <1>5, <2>7, <2>8
<1>6. CASE r.pc \notin {"idle", "gate"} /\ s.pc \notin {"idle", "gate"}
  BY <1>2, <1>6 DEF StoodOK
<1> QED BY <1>3, <1>4, <1>5, <1>6 DEF Passage


\* A process that has not moved may see a gate open, never another close.
LEMMA StoodUnmoved ==
  ASSUME NEW j \in Jobs, run'[j] = run[j], Observe, StoodOK(run[j], stood[j])
  PROVE  StoodOK(run'[j], stood'[j])
<1>1. stood'[j] = CASE run[j].pc = "idle" -> {}
                    [] run[j].pc # "idle" /\ run[j].pc = "idle" -> {g \in Gates : Blocked(g)'}
                    [] OTHER -> {g \in stood[j] : Blocked(g)'}
  BY DEF Observe
<1>2. run[j].pc # "idle" => stood'[j] \subseteq stood[j]
  BY <1>1
<1> QED BY <1>2 DEF StoodOK

LEMMA JobStepInv ==
  ASSUME ConstantsAssumption, PoliteInv, NEW j \in Jobs, JobStep(j)
  PROVE  PoliteInv'
<1>1. RunOK(run[j]) /\ SharedOK /\ run \in [Jobs -> Run]
  BY DEF PoliteInv
<1>2. SharedOK' /\ Observe
  BY <1>1, JobStepShared
<1>3. PICK s : RunOK(s) /\ Becomes(j, s) /\ Passage(run[j], s)
  BY <1>1, JobMoves DEF Moves
<1>4. s \in Run
  BY <1>3 DEF RunOK
<1>5. /\ run'[j] = s /\ \A q \in Jobs \ {j} : run'[q] = run[q]
      /\ run' \in [Jobs -> Run]
  BY <1>1, <1>3, <1>4, BecomesValue
<1>6. \A q \in Jobs : RunOK(run'[q])
  BY <1>3, <1>5 DEF PoliteInv
<1>7. StoodOK(run'[j], stood'[j])
  BY <1>1, <1>2, <1>3, <1>5, StoodStep DEF PoliteInv, SharedOK
<1>8. \A q \in Jobs \ {j} : StoodOK(run'[q], stood'[q])
  BY <1>2, <1>5, StoodUnmoved DEF PoliteInv
<1>9. Latched'
  BY <1>1, JobStepLatched DEF PoliteInv
<1>10. (\A q \in Jobs : RunOK(run[q]))'
  BY <1>6 DEF RunOK, Out, MayAsk
<1>11. (\A q \in Jobs : StoodOK(run[q], stood[q]))'
  BY <1>7, <1>8 DEF StoodOK, Checked
<1> QED BY <1>2, <1>5, <1>9, <1>10, <1>11 DEF PoliteInv

LEMMA WorldStepInv ==
  ASSUME ConstantsAssumption, PoliteInv, (\E h \in Hosts : Unlatch(h)) \/ Tick
  PROVE  PoliteInv' /\ run' = run
<1>1. run' = run /\ Observe
  BY DEF Unlatch, Tick
<1>2. (\A q \in Jobs : StoodOK(run[q], stood[q]))'
  BY <1>1, StoodUnmoved DEF PoliteInv, StoodOK, Checked
<1>3. (\A q \in Jobs : RunOK(run[q]))' /\ (run \in [Jobs -> Run])'
  BY <1>1 DEF PoliteInv, RunOK, Out, MayAsk
<1>4. stood' \in [Jobs -> SUBSET Gates]
  BY <1>1, ObserveOK DEF PoliteInv, SharedOK
<1>5. CASE \E h \in Hosts : Unlatch(h)
  <2>1. PICK h \in Hosts : Unlatch(h)
    BY <1>5
  <2>2. /\ unlatches < MaxUnlatches /\ unlatches' = unlatches + 1
        /\ latch' \in {latch, [latch EXCEPT ![h] = "cleared"]}
        /\ tally' = [tally EXCEPT ![h] = 0]
        /\ UNCHANGED <<outages, quiet, faults>>
    BY <2>1 DEF Unlatch
  <2>3. unlatches' \in 0 .. MaxUnlatches /\ unlatches' # 0
    BY <2>2 DEF PoliteInv, SharedOK, ConstantsAssumption
  <2>4. tally' \in [Hosts -> 0 .. MaxTally]
    <3>1. 0 \in 0 .. MaxTally
      BY DEF ConstantsAssumption
    <3> QED BY <2>2, <3>1 DEF PoliteInv, SharedOK
  <2>5. SharedOK'
    BY <1>4, <2>2, <2>3, <2>4 DEF PoliteInv, SharedOK
  <2>6. Latched'
    BY <2>3 DEF Latched
  <2> QED BY <1>1, <1>2, <1>3, <2>5, <2>6 DEF PoliteInv
<1>6. CASE Tick
  <2>1. /\ quiet' = [h \in Hosts |-> IF quiet[h] > 0 THEN quiet[h] - 1 ELSE 0]
        /\ UNCHANGED <<latch, tally, outages, unlatches, faults>>
    BY <1>6 DEF Tick
  <2>2. quiet' \in [Hosts -> 0 .. BackoffCap]
    BY <2>1 DEF PoliteInv, SharedOK, ConstantsAssumption
  <2>3. SharedOK'
    BY <1>4, <2>1, <2>2 DEF PoliteInv, SharedOK
  <2>4. Latched'
    BY <2>1 DEF PoliteInv, Latched
  <2> QED BY <1>1, <1>2, <1>3, <2>3, <2>4 DEF PoliteInv
<1> QED BY <1>1, <1>5, <1>6

LEMMA PoliteStep ==
  ASSUME ConstantsAssumption, PoliteInv, [Next]_vars
  PROVE  PoliteInv'
<1>1. CASE UNCHANGED vars
  BY <1>1 DEF vars, PoliteInv, SharedOK, RunOK, Out, MayAsk, StoodOK, Checked, Latched
<1>2. CASE Next
  BY <1>2, JobStepInv, WorldStepInv DEF Next, JobStep
<1> QED BY <1>1, <1>2

----------------------------------------------------------------------------
\* The refusals a host may still hand out once it is past the threshold.

\* get raises HostBlocked, and neither fetch nor the tip goes on.
LEMMA BlockedEnds ==
  ASSUME ConstantsAssumption, NEW j \in Jobs, JobKind[j] # "backlog", NEW h
  PROVE  Ends(j, h, "blocked")
BY DEF ConstantsAssumption, Kinds, Ends

\* No run gets past an active latch.
LEMMA LatchStops ==
  ASSUME NEW r, RunOK(r), NEW s, Passage(r, s), NEW h \in Hosts, latch[h] = "active",
         Past(s, h), ConstantsAssumption
  PROVE  Past(r, h)
<1>1. CASE r.pc = "idle" /\ s.pc = "gate" /\ s.at = 1
  BY <1>1 DEF Past, Checked
<1>2. CASE /\ r.pc = "gate" /\ ~Blocked(CheckAt(r.at))
           /\ \/ s.pc = "gate" /\ s.at = r.at + 1
              \/ s.pc = "ready" /\ r.at = 2 * Len(EgressHosts)
  <2>1. CheckAt(r.at) # <<"latch", h>>
    BY <1>2 DEF Blocked
  <2>2. r.at \in Nat
    <3>1. r \in Run
      BY DEF RunOK
    <3>2. r.at \in 1 .. 2 * Len(EgressHosts) + 1
      BY <3>1 DEF Run
    <3>3. Len(EgressHosts) \in Nat
      BY HostsFacts
    <3> QED BY <3>2, <3>3
  <2>3. \E i \in 1 .. r.at : CheckAt(i) = <<"latch", h>>
    <3>1. CASE s.pc = "gate" /\ s.at = r.at + 1
      BY <2>2, <3>1 DEF Past, Checked
    <3>2. CASE s.pc = "ready" /\ r.at = 2 * Len(EgressHosts)
      <4>1. <<"latch", h>> \in Gates
        BY DEF Gates
      <4> QED BY <3>2, <4>1, EveryGateIsChecked
    <3> QED BY <1>2, <3>1, <3>2
  <2>4. \E i \in 1 .. r.at - 1 : CheckAt(i) = <<"latch", h>>
    BY <2>1, <2>2, <2>3
  <2> QED BY <1>2, <2>4 DEF Past, Checked
<1> QED BY <1>1, <1>2 DEF Passage, Past

\* What is counted is finite.
LEMMA PassedFinite ==
  ASSUME ConstantsAssumption, NEW S \in SUBSET Jobs
  PROVE  /\ IsFiniteSet(S) /\ Cardinality(S) \in Nat /\ Cardinality(Jobs) \in Nat
         /\ Cardinality(S) <= Cardinality(Jobs)
         /\ \A T \in SUBSET S : Cardinality(T) <= Cardinality(S)
         /\ \A j \in Jobs : j \notin S => Cardinality(S) + 1 <= Cardinality(Jobs)
         /\ \A T \in SUBSET S : \A j \in S : j \notin T => Cardinality(T) + 1 <= Cardinality(S)
<1>1. IsFiniteSet(Jobs)
  BY DEF ConstantsAssumption
<1>2. IsFiniteSet(S) /\ Cardinality(S) <= Cardinality(Jobs)
  BY <1>1, FS_Subset
<1>3. Cardinality(S) \in Nat /\ Cardinality(Jobs) \in Nat
  BY <1>1, <1>2, FS_CardinalityType
<1>4. ASSUME NEW A, IsFiniteSet(A), NEW T \in SUBSET A
      PROVE  /\ Cardinality(T) <= Cardinality(A)
             /\ \A j \in A : j \notin T => Cardinality(T) + 1 <= Cardinality(A)
  <2>1. Cardinality(T) <= Cardinality(A) /\ IsFiniteSet(T)
    BY <1>4, FS_Subset
  <2>2. ASSUME NEW j \in A, j \notin T PROVE Cardinality(T) + 1 <= Cardinality(A)
    <3>1. IsFiniteSet(A \ {j}) /\ Cardinality(A \ {j}) = Cardinality(A) - 1
      BY <1>4, <2>2, FS_RemoveElement
    <3>2. T \subseteq A \ {j}
      BY <2>2
    <3>3. Cardinality(T) <= Cardinality(A \ {j})
      BY <3>1, <3>2, FS_Subset
    <3>4. Cardinality(T) \in Nat /\ Cardinality(A) \in Nat
      BY <1>4, <2>1, FS_CardinalityType
    <3> QED BY <3>1, <3>3, <3>4
  <2> QED BY <2>1, <2>2
<1> QED BY <1>1, <1>2, <1>3, <1>4

LEMMA CountedStep ==
  ASSUME ConstantsAssumption, \A j \in Jobs : JobKind[j] # "backlog",
         PoliteInv, Counted, [Next]_vars
  PROVE  Counted'
<1>1. CASE UNCHANGED vars
  BY <1>1 DEF vars, Counted, Passed, Past, Checked
<1>2. CASE Tick
  BY <1>2 DEF Tick, Counted, Passed, Past, Checked
<1>3. CASE \E h \in Hosts : Unlatch(h)
  <2>1. unlatches' # 0
    BY <1>3 DEF Unlatch, PoliteInv, SharedOK
  <2> QED BY <2>1 DEF Counted
<1>4. ASSUME NEW j \in Jobs, JobStep(j) PROVE Counted'
  <2>0. RunOK(run[j]) /\ SharedOK /\ run \in [Jobs -> Run]
    BY DEF PoliteInv
  <2>1. SUFFICES ASSUME unlatches = 0, NEW h \in Hosts
                 PROVE  \/ tally'[h] < Threshold
                        \/ tally'[h] + Cardinality(Passed(h)') < Threshold + Cardinality(Jobs)
    BY <1>4, LatchStep DEF Counted
  <2>2. PICK s : RunOK(s) /\ Becomes(j, s) /\ Passage(run[j], s)
    BY <1>4, <2>0, JobMoves DEF Moves
  <2>3. run'[j] = s /\ \A q \in Jobs \ {j} : run'[q] = run[q]
    BY <2>0, <2>2, BecomesValue
  <2>4. latch[h] = "active" => Passed(h)' \subseteq Passed(h)
    <3>1. ASSUME latch[h] = "active", NEW q \in Jobs, Past(run'[q], h) PROVE Past(run[q], h)
      BY <2>0, <2>2, <2>3, <3>1, LatchStops
    <3> QED BY <3>1 DEF Passed, Past, Checked
  <2>5. Passed(h) \in SUBSET Jobs /\ Passed(h)' \in SUBSET Jobs
    BY DEF Passed
  <2>6. /\ tally[h] \in Nat /\ tally'[h] \in Nat /\ Threshold \in Nat
        /\ Cardinality(Jobs) \in Nat /\ Cardinality(Passed(h)) \in Nat
        /\ Cardinality(Passed(h)') \in Nat
    <3>1. SharedOK'
      BY <1>4, <2>0, JobStepShared
    <3>2. tally[h] \in 0 .. MaxTally /\ tally'[h] \in 0 .. MaxTally
      BY <2>0, <3>1 DEF SharedOK
    <3>3. Threshold \in Nat /\ tally[h] \in Nat /\ tally'[h] \in Nat
      BY <3>2 DEF ConstantsAssumption
    <3> QED BY <2>5, <3>3, PassedFinite
  <2>7. \/ tally[h] < Threshold
        \/ latch[h] = "active" /\ tally[h] + Cardinality(Passed(h)) < Threshold + Cardinality(Jobs)
    BY <2>1, <2>6 DEF Counted, PoliteInv, Latched
  <2>8. CASE tally'[h] \in {0, tally[h]}
    <3>1. CASE tally[h] < Threshold
      BY <2>6, <2>8, <3>1 DEF ConstantsAssumption
    <3>2. CASE latch[h] = "active" /\ tally[h] + Cardinality(Passed(h)) < Threshold + Cardinality(Jobs)
      <4>1. Cardinality(Passed(h)') <= Cardinality(Passed(h))
        BY <2>4, <2>5, <3>2, PassedFinite
      <4> QED BY <2>6, <2>8, <3>2, <4>1
    <3> QED BY <2>7, <3>1, <3>2
  <2>9. CASE RecordRefusal(j) /\ h = run[j].host
    <3>1. PICK n \in 0 .. MaxTally :
            /\ n <= tally[h] + 1 /\ tally' = [tally EXCEPT ![h] = n]
            /\ \/ n >= Threshold /\ Return(j, run[j], "blocked")
               \/ n < Threshold
      BY <2>0, <2>9, RecordRefusalFacts
    <3>2. tally'[h] = n
      BY <2>0, <3>1 DEF SharedOK
    <3>3. CASE n < Threshold
      BY <3>2, <3>3
    <3>4. CASE n >= Threshold /\ Return(j, run[j], "blocked")
      <4>1. run[j].pc = "refused"
        BY <2>9 DEF RecordRefusal
      <4>2. Becomes(j, Idle)
        BY <2>9, <3>4, BlockedEnds DEF Return
      <4>3. run'[j].pc = "idle"
        BY <2>0, <4>2, BecomesValue, IdleOK
      <4>4. j \in Passed(h) /\ j \notin Passed(h)'
        BY <4>1, <4>3 DEF Passed, Past
      <4>5. Cardinality(Passed(h)') + 1 <= Cardinality(Jobs)
        BY <2>5, <4>4, PassedFinite
      <4>6. CASE tally[h] < Threshold
        BY <2>6, <3>1, <3>2, <4>5, <4>6
      <4>7. CASE latch[h] = "active" /\ tally[h] + Cardinality(Passed(h)) < Threshold + Cardinality(Jobs)
        <5>1. Cardinality(Passed(h)') + 1 <= Cardinality(Passed(h))
          BY <2>4, <2>5, <4>4, <4>7, PassedFinite
        <5> QED BY <2>6, <3>1, <3>2, <4>7, <5>1
      <4> QED BY <2>7, <4>6, <4>7
    <3> QED BY <3>1, <3>3, <3>4
  <2>10. CASE RecordRefusal(j) /\ h # run[j].host
    <3>1. run[j].host \in Hosts
      BY <2>0, <2>10 DEF RecordRefusal, RunOK, Out, MayAsk
    <3>2. PICK n \in 0 .. MaxTally : tally' = [tally EXCEPT ![run[j].host] = n]
      BY <2>0, <2>10, <3>1, RecordRefusalFacts
    <3>3. tally'[h] = tally[h]
      BY <2>0, <2>10, <3>2 DEF SharedOK
    <3> QED BY <2>8, <3>3
  <2>11. CASE RecordSuccess(j)
    <3>1. tally' = [tally EXCEPT ![run[j].host] = 0]
      BY <2>11 DEF RecordSuccess
    <3>2. tally'[h] \in {0, tally[h]}
      BY <2>0, <3>1 DEF SharedOK
    <3> QED BY <2>8, <3>2
  <2>12. CASE UNCHANGED <<latch, tally>>
    BY <2>8, <2>12
  <2> QED BY <1>4, <2>9, <2>10, <2>11, <2>12, LatchStep
<1> QED BY <1>1, <1>2, <1>3, <1>4 DEF Next, JobStep


----------------------------------------------------------------------------
\* The theorems.

\* The inductive invariant holds whatever the jobs, the source and the humans
\* who clear latches do.
THEOREM PoliteInvHolds == Spec => []PoliteInv
<1> USE ConstantsAssumption
<1>1. Init => PoliteInv
  BY PoliteInit
<1>2. PoliteInv /\ [Next]_vars => PoliteInv'
  BY PoliteStep
<1> QED BY <1>1, <1>2, PTL DEF Spec

\* Every variable has its type: in particular record_transient never sets a
\* backoff longer than its cap, whatever the threshold, the cap and the outage.
THEOREM Typed == Spec => []TypeOK
<1>1. PoliteInv => TypeOK
  BY DEF PoliteInv, SharedOK, RunOK, Out, MayAsk, TypeOK
<1> QED BY <1>1, PoliteInvHolds, PTL

\* No run gets past its gate while a latch or a backoff that stood when it
\* began has stood ever since, for any number of hosts the gate looks at one by
\* one and any jobs that latch, back off, clear and unlatch in between.
THEOREM GateHolds == Spec => []ClosedGateHolds
<1>1. PoliteInv => ClosedGateHolds
  BY DEF PoliteInv, StoodOK, ClosedGateHolds
<1> QED BY <1>1, PoliteInvHolds, PTL

\* Until a human clears a latch, a host whose refusals have reached the
\* threshold is latched, whichever jobs refuse, succeed or die in between.
THEOREM LatchedUntilUnlatched == Spec => [](unlatches = 0 => LatchedAtThreshold)
<1>1. PoliteInv => (unlatches = 0 => LatchedAtThreshold)
  BY DEF PoliteInv, Latched, LatchedAtThreshold
<1> QED BY <1>1, PoliteInvHolds, PTL

\* A run has no more refusals of a host than its budget and the retries of one
\* request, though get compares the budget only when a request begins.
THEOREM RefusalsBounded == Spec => []RefusalsPerRunBounded
<1>1. PoliteInv => RefusalsPerRunBounded
  BY DEF PoliteInv, RunOK, RefusalsPerRunBounded
<1> QED BY <1>1, PoliteInvHolds, PTL

\* Where no job is a backlog drain, which swallows HostBlocked, a host that goes
\* on refusing is asked at most once more by each other run, until a human
\* clears a latch.
THEOREM StreakBounded ==
  ASSUME \A j \in Jobs : JobKind[j] # "backlog"
  PROVE  Spec => [](unlatches = 0 => RefusalStreakBounded)
<1> USE ConstantsAssumption
<1>1. Init => Counted
  BY DEF Init, Counted, ConstantsAssumption
<1>2. PoliteInv /\ Counted /\ [Next]_vars => Counted'
  BY CountedStep
<1>3. PoliteInv /\ Counted => (unlatches = 0 => RefusalStreakBounded)
  <2>1. SUFFICES ASSUME PoliteInv, Counted, unlatches = 0, NEW h \in Hosts
                 PROVE  tally[h] <= Threshold + Cardinality(Jobs) - 1
    BY DEF RefusalStreakBounded
  <2>2. /\ Cardinality(Passed(h)) \in Nat /\ Cardinality(Jobs) \in Nat
        /\ Cardinality(Passed(h)) <= Cardinality(Jobs)
    BY PassedFinite DEF Passed
  <2>3. tally[h] \in 0 .. MaxTally /\ Threshold \in Nat
    BY <2>1 DEF PoliteInv, SharedOK, ConstantsAssumption
  <2>4. tally[h] < Threshold \/ tally[h] + Cardinality(Passed(h)) < Threshold + Cardinality(Jobs)
    BY <2>1 DEF Counted
  <2>5. tally[h] \in Nat
    BY <2>3 DEF ConstantsAssumption
  <2> QED BY <2>2, <2>3, <2>4, <2>5
<1> QED BY <1>1, <1>2, <1>3, PoliteInvHolds, PTL DEF Spec

\* Only `lake unlatch` takes an active latch away, and a latch it has cleared is
\* never set again, since record_refusal leaves alone a row that is there.
OnlyHumansClear ==
  [][\A h \in Hosts : /\ latch[h] = "active"  => latch'[h] = "active" \/ unlatches' = unlatches + 1
                      /\ latch[h] = "cleared" => latch'[h] = "cleared"]_vars

\* A latch goes from none to active by record_refusal and from active to cleared
\* by clear_latch, and no other way: after the first unlatch of a host nothing
\* latches it, which is how LatchedAtThreshold comes to fail then.
THEOREM ClearedForGood == Spec => OnlyHumansClear
<1> USE ConstantsAssumption
<1> DEFINE A == \A h \in Hosts :
                  /\ latch[h] = "active"  => latch'[h] = "active" \/ unlatches' = unlatches + 1
                  /\ latch[h] = "cleared" => latch'[h] = "cleared"
<1>1. PoliteInv /\ [Next]_vars => [A]_vars
  <2> SUFFICES ASSUME PoliteInv, Next PROVE A
    OBVIOUS
  <2>2. CASE \E j \in Jobs : JobStep(j)
    <3>1. PICK j \in Jobs : JobStep(j)
      BY <2>2
    <3>2. CASE RecordRefusal(j)
      <4>1. run[j].host \in Hosts
        BY <3>2 DEF RecordRefusal, PoliteInv, RunOK, Out, MayAsk
      <4>2. latch' = latch \/ (/\ latch[run[j].host] = "none"
                               /\ latch' = [latch EXCEPT ![run[j].host] = "active"])
        <5>1. SharedOK
          BY DEF PoliteInv
        <5>2. PICK n \in 0 .. MaxTally :
                latch' = IF n >= Threshold /\ latch[run[j].host] = "none"
                         THEN [latch EXCEPT ![run[j].host] = "active"] ELSE latch
          BY <3>2, <4>1, <5>1, RecordRefusalFacts
        <5> QED BY <5>2
      <4> QED BY <4>1, <4>2 DEF PoliteInv, SharedOK
    <3>3. CASE latch' = latch
      BY <3>3
    <3> QED BY <3>1, <3>2, <3>3, LatchStep DEF RecordSuccess
  <2>3. CASE \E g \in Hosts : Unlatch(g)
    BY <2>3 DEF Unlatch, PoliteInv, SharedOK
  <2>4. CASE Tick
    BY <2>4 DEF Tick
  <2> QED BY <2>2, <2>3, <2>4 DEF Next, JobStep
<1> QED BY <1>1, PoliteInvHolds, PTL DEF Spec, OnlyHumansClear
=============================================================================
