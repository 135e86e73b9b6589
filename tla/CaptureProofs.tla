--------------------------- MODULE CaptureProofs ---------------------------
(***************************************************************************)
(* Proofs about Capture, for every set of artifacts and fetchers, every    *)
(* batch and flush size and every number of faults.                        *)
(***************************************************************************)
EXTENDS Capture, TLAPS

USE ConstantsAssumption
    DEF ConstantsAssumption, Steps, InHand, Channels, Kinds, Pieces, States, Errors

----------------------------------------------------------------------------
\* What the operators the actions are built from do to the types.

LEMMA FaultType ==
  ASSUME faults \in 0 .. MaxFaults, Fault
  PROVE  faults' \in 0 .. MaxFaults
BY DEF Fault

LEMMA RowType ==
  ASSUME NEW r \in Row, NEW h \in Fetchers \cup {NoFetcher}
  PROVE  /\ [r EXCEPT !.holder = h] \in Row
         /\ [r EXCEPT !.lapsed = TRUE] \in Row
         /\ [r EXCEPT !.state = "leased", !.lapsed = FALSE, !.holder = h] \in Row
         /\ [[r EXCEPT !.state = "leased", !.lapsed = FALSE, !.holder = h]
               EXCEPT !.state = "pending"] \in Row
BY DEF Row

LEMMA FinishType ==
  ASSUME TypeOK, NEW a \in Artifacts, NEW s \in States, NEW e \in Errors,
         Finish(a, s, e)
  PROVE  row' \in [Artifacts -> Row]
BY DEF TypeOK, Finish, Row

LEMMA ReleaseType ==
  ASSUME TypeOK, NEW as, ReleaseRows(as)
  PROVE  row' \in [Artifacts -> Row]
<1>1. \A a \in Artifacts :
        row[a] \in Row /\ [Leased(a, NoFetcher) EXCEPT !.state = "pending"] \in Row
  BY RowType DEF TypeOK, Leased
<1> QED BY <1>1 DEF ReleaseRows

LEMMA BecomesType ==
  ASSUME TypeOK, NEW f \in Fetchers, NEW r \in Run, WellFormed(r), Becomes(f, r)
  PROVE  /\ run' \in [Fetchers -> Run]
         /\ \A g \in Fetchers : WellFormed(run'[g])
BY DEF TypeOK, Becomes

LEMMA IdleType == Idle \in Run /\ WellFormed(Idle)
BY DEF Run, Idle, WellFormed

LEMMA DieType ==
  ASSUME TypeOK, NEW f \in Fetchers, Die(f)
  PROVE  /\ row' \in [Artifacts -> Row] /\ run' \in [Fetchers -> Run]
         /\ \A g \in Fetchers : WellFormed(run'[g])
<1>1. \A a \in Artifacts :
        row[a] \in Row /\ [row[a] EXCEPT !.holder = NoFetcher] \in Row
  BY RowType DEF TypeOK
<1>2. row' \in [Artifacts -> Row]
  BY <1>1 DEF Die
<1> QED BY <1>2, IdleType, BecomesType DEF Die

LEMMA GotoType ==
  ASSUME TypeOK, NEW f \in Fetchers, NEW s \in Steps, Goto(f, s),
         s \in InHand => run[f].cur # NoArtifact
  PROVE  /\ run' \in [Fetchers -> Run]
         /\ \A g \in Fetchers : WellFormed(run'[g])
<1>1. run[f] \in Run /\ WellFormed(run[f])
  BY DEF TypeOK
<1> DEFINE n == [run[f] EXCEPT !.pc = s]
<1>2. n \in Run /\ WellFormed(n)
  BY <1>1 DEF Run, WellFormed
<1> HIDE DEF n
<1>3. Becomes(f, n)
  BY DEF Goto, n
<1> QED BY <1>2, <1>3, BecomesType

LEMMA PartType ==
  ASSUME TypeOK, NEW f \in Fetchers, PartUncertain(f)
  PROVE  durable' \subseteq Records
BY DEF TypeOK, PartUncertain, Run

LEMMA PutDownType ==
  ASSUME NEW r \in Run, WellFormed(r), NEW s \in Steps \ InHand
  PROVE  /\ PutDown(r, s) \in Run /\ WellFormed(PutDown(r, s))
         /\ PutDown(r, s).pc = s /\ PutDown(r, s).cur = NoArtifact
         /\ PutDown(r, s).marking = {} /\ PutDown(r, s).wrote = {}
         /\ PutDown(r, s).todo = r.todo
         /\ PutDown(r, s).unprocessed = r.unprocessed
         /\ PutDown(r, s).undurable = r.undurable
         /\ PutDown(r, s).buffer = r.buffer /\ PutDown(r, s).stranded = r.stranded
BY DEF PutDown, Run, WellFormed

\* PutDown followed by dropping the artifact that was in hand.
LEMMA DropType ==
  ASSUME NEW r \in Run, WellFormed(r), NEW s \in Steps \ InHand
  PROVE  LET n == [PutDown(r, s) EXCEPT !.unprocessed = @ \ {r.cur}]
         IN n \in Run /\ WellFormed(n)
<1>1. PutDown(r, s) \in Run /\ WellFormed(PutDown(r, s))
  BY PutDownType
<1>2. /\ PutDown(r, s).cur = NoArtifact /\ PutDown(r, s).pc = s
      /\ PutDown(r, s).todo = r.todo /\ PutDown(r, s).unprocessed = r.unprocessed
  BY PutDownType
<1> QED BY <1>1, <1>2 DEF Run, WellFormed

\* What stranding an artifact does to a run.
Strand(p, a) == [p EXCEPT !.unprocessed = @ \ {a}, !.stranded = @ \cup {a}]

LEMMA Strands ==
  ASSUME NEW p \in Run, NEW a \in Artifacts, NEW n, n = Strand(p, a)
  PROVE  /\ n \in Run
         /\ n.pc = p.pc /\ n.cur = p.cur /\ n.todo = p.todo /\ n.wrote = p.wrote
         /\ n.buffer = p.buffer /\ n.undurable = p.undurable /\ n.marking = p.marking
         /\ n.unprocessed = p.unprocessed \ {a} /\ n.stranded = p.stranded \cup {a}
<1>1. n \in Run
  BY DEF Run, Strand
<1>2. n.pc = p.pc /\ n.cur = p.cur /\ n.todo = p.todo /\ n.wrote = p.wrote
  BY DEF Run, Strand
<1>3. n.buffer = p.buffer /\ n.undurable = p.undurable /\ n.marking = p.marking
  BY DEF Run, Strand
<1>4. n.unprocessed = p.unprocessed \ {a} /\ n.stranded = p.stranded \cup {a}
  BY DEF Run, Strand
<1> QED BY <1>1, <1>2, <1>3, <1>4

\* PutDown followed by stranding the artifact that was in hand.
Stranded(r, s) == Strand(PutDown(r, s), r.cur)

LEMMA StrandType ==
  ASSUME NEW r \in Run, WellFormed(r), r.cur \in Artifacts, NEW s \in Steps \ InHand,
         NEW n, n = Stranded(r, s)
  PROVE  /\ n \in Run /\ WellFormed(n) /\ n.pc = s /\ n.wrote = {}
         /\ n.buffer = r.buffer /\ n.undurable = r.undurable /\ n.todo = r.todo
         /\ n.unprocessed = r.unprocessed \ {r.cur} /\ n.stranded = r.stranded \cup {r.cur}
<1> DEFINE p == PutDown(r, s)
<1>1. /\ p \in Run /\ WellFormed(p) /\ p.pc = s /\ p.wrote = {} /\ p.marking = {}
      /\ p.todo = r.todo /\ p.buffer = r.buffer /\ p.undurable = r.undurable
      /\ p.unprocessed = r.unprocessed /\ p.stranded = r.stranded
  BY PutDownType
<1>2. n = Strand(p, r.cur) /\ p.cur = NoArtifact
  BY PutDownType DEF Stranded
<1> HIDE DEF p
<1>3. /\ n \in Run /\ n.pc = p.pc /\ n.cur = p.cur /\ n.wrote = p.wrote /\ n.todo = p.todo
      /\ n.buffer = p.buffer /\ n.undurable = p.undurable /\ n.marking = p.marking
      /\ n.unprocessed = p.unprocessed \ {r.cur} /\ n.stranded = p.stranded \cup {r.cur}
  BY <1>1, <1>2, Strands
<1>4. r.cur \notin r.todo /\ r.todo \subseteq r.unprocessed
  BY DEF WellFormed
<1>5. n.cur = NoArtifact /\ NoArtifact \notin r.todo
  BY <1>1, <1>2, <1>3 DEF WellFormed
<1>6. WellFormed(n)
  BY <1>1, <1>3, <1>4, <1>5 DEF WellFormed
<1> QED BY <1>1, <1>3, <1>6

LEMMA AfterType ==
  ASSUME NEW a, NEW c \in Channels, NEW p, NEW w
  PROVE  After(a, c, p, w) \in {"put", "api", "seal"}
BY DEF After

LEMMA AnsweredType ==
  ASSUME TypeOK, NEW f \in Fetchers, run[f].cur \in Artifacts,
         NEW c \in Channels, NEW got \in SUBSET Pieces, Answered(f, c, got)
  PROVE  /\ run' \in [Fetchers -> Run]
         /\ \A g \in Fetchers : WellFormed(run'[g])
<1> DEFINE s == After(run[f].cur, c, got, run[f].wrote)
           n == [run[f] EXCEPT !.pieces = got, !.channel = c, !.pc = s]
<1>1. s \in {"put", "api", "seal"}
  BY AfterType
<1>2. run[f] \in Run /\ WellFormed(run[f])
  BY DEF TypeOK
<1>3. n \in Run /\ WellFormed(n)
  <2> HIDE DEF s
  <2>1. n \in Run
    BY <1>1, <1>2 DEF Run
  <2> QED BY <1>1, <1>2, <2>1 DEF Run, WellFormed
<1>4. Becomes(f, n)
  BY DEF Answered
<1> HIDE DEF n
<1> QED BY <1>3, <1>4, BecomesType

LEMMA PieceType ==
  ASSUME TypeOK, NEW f \in Fetchers, run[f].pc \in {"put", "index"}
  PROVE  /\ Piece(f) = [of |-> run[f].cur, channel |-> run[f].channel,
                        kind |-> FirstOf(run[f].pieces)]
         /\ run[f].cur \in Artifacts /\ FirstOf(run[f].pieces) \in Pieces
         /\ Piece(f).kind # "prefix" => Piece(f) \in Records
BY DEF TypeOK, Run, WellFormed, Piece, FirstOf, Records

\* The record updates of Written and of Flush.
LEMMA UpdateType ==
  ASSUME NEW r \in Run, NEW s \in Steps, NEW recs \in SUBSET Records,
         NEW all \in SUBSET Records, NEW left \in SUBSET Pieces
  PROVE  [r EXCEPT !.pieces = left, !.buffer = @ \cup recs, !.wrote = all,
                   !.pc = s] \in Run
BY DEF Run

LEMMA FlushedType ==
  ASSUME NEW r \in Run, NEW s \in Steps
  PROVE  [r EXCEPT !.buffer = {}, !.wrote = {}, !.marking = r.undurable,
                   !.pc = s] \in Run
BY DEF Run

LEMMA PickedType ==
  ASSUME NEW r \in Run, NEW a \in Artifacts, NEW s \in Steps
  PROVE  [r EXCEPT !.pc = s, !.cur = a, !.todo = @ \ {a}] \in Run
BY DEF Run

LEMMA WrittenType ==
  ASSUME TypeOK, NEW f \in Fetchers, run[f].pc \in {"put", "index"}
  PROVE  Written(f) \in Run /\ WellFormed(Written(f))
<1> DEFINE p    == Piece(f)
           recs == Lines(f)
           left == run[f].pieces \ {p.kind}
           all  == run[f].wrote \cup recs
           next == After(p.of, p.channel, left, all)
<1>1. run[f] \in Run /\ WellFormed(run[f]) /\ run[f].cur \in Artifacts
  BY PieceType DEF TypeOK
<1>2. recs \subseteq Records /\ p.channel \in Channels
  BY <1>1, PieceType DEF Run, Lines
<1>3. next \in {"put", "api", "seal"}
  BY <1>2, AfterType
<1>4. Written(f) = [run[f] EXCEPT !.pieces = left, !.buffer = @ \cup recs,
                                  !.wrote = all, !.pc = next]
  BY DEF Written
<1>5. left \subseteq Pieces
  BY <1>1 DEF Run
<1> HIDE DEF p, recs, left, all, next
<1>6. all \subseteq Records
  BY <1>1, <1>2 DEF Run, all
<1>7. Written(f) \in Run
  <2>1. /\ recs \in SUBSET Records /\ all \in SUBSET Records
        /\ left \in SUBSET Pieces /\ next \in Steps
    BY <1>2, <1>3, <1>5, <1>6
  <2>2. [run[f] EXCEPT !.pieces = left, !.buffer = @ \cup recs,
                       !.wrote = all, !.pc = next] \in Run
    BY <1>1, <2>1, UpdateType
  <2> QED BY <1>4, <2>2
<1> QED BY <1>1, <1>3, <1>4, <1>7 DEF Run, WellFormed

----------------------------------------------------------------------------
\* Type correctness.

LEMMA InitType == Init => TypeOK
BY DEF Init, TypeOK, Row, Run, Idle, Records, WellFormed

LEMMA NextType == TypeOK /\ [Next]_vars => TypeOK'
<1> SUFFICES ASSUME TypeOK, [Next]_vars PROVE TypeOK'
  OBVIOUS
<1>0. \A f \in Fetchers : run[f] \in Run /\ WellFormed(run[f])
  BY DEF TypeOK
<1>1. ASSUME NEW f \in Fetchers, Claim(f) PROVE TypeOK'
  <2>1. PICK batch \in SUBSET Claimable :
          /\ row' = [a \in Artifacts |-> IF a \in batch THEN Leased(a, f)
                                         ELSE row[a]]
          /\ Becomes(f, [Idle EXCEPT !.pc = "loop", !.todo = batch,
                                     !.unprocessed = batch])
    BY <1>1 DEF Claim
  <2>2. \A a \in Artifacts : row[a] \in Row /\ Leased(a, f) \in Row
    BY RowType DEF TypeOK, Leased
  <2>3. row' \in [Artifacts -> Row]
    BY <2>1, <2>2
  <2>4. batch \in SUBSET Artifacts
    BY DEF Claimable
  <2> DEFINE n == [Idle EXCEPT !.pc = "loop", !.todo = batch,
                               !.unprocessed = batch]
  <2>5. n \in Run /\ WellFormed(n)
    BY <2>4 DEF Run, Idle, WellFormed
  <2>6. Becomes(f, n)
    BY <2>1
  <2> HIDE DEF n
  <2> QED BY <2>3, <2>5, <2>6, BecomesType, <1>1 DEF Claim, TypeOK
<1>2. ASSUME NEW f \in Fetchers, Pick(f) PROVE TypeOK'
  <2>1. PICK a \in run[f].todo :
          Becomes(f, [run[f] EXCEPT !.pc = "resolve", !.cur = a,
                                    !.todo = @ \ {a}])
    BY <1>2 DEF Pick
  <2> DEFINE n == [run[f] EXCEPT !.pc = "resolve", !.cur = a, !.todo = @ \ {a}]
  <2>2. n \in Run /\ WellFormed(n)
    <3>1. a \in Artifacts /\ "resolve" \in Steps
      BY <1>0 DEF Run, Steps
    <3>2. a # NoArtifact
      BY <3>1, ConstantsAssumption
    <3>3. n \in Run
      <4>1. run[f] \in Run
        BY <1>0
      <4> QED BY <3>1, <4>1, PickedType
    <3>4. /\ n.pc = "resolve" /\ n.cur = a /\ n.todo = run[f].todo \ {a}
          /\ n.unprocessed = run[f].unprocessed
          /\ n.marking = run[f].marking /\ n.undurable = run[f].undurable
      BY <1>0 DEF Run
    <3> HIDE DEF n
    <3>5. WellFormed(n)
      BY <1>0, <3>2, <3>4 DEF WellFormed
    <3> QED BY <3>3, <3>5
  <2>3. Becomes(f, n)
    BY <2>1
  <2> HIDE DEF n
  <2> QED BY <2>2, <2>3, BecomesType, <1>2 DEF Pick, TypeOK
<1>3. ASSUME NEW f \in Fetchers, EndLoop(f) PROVE TypeOK'
  <2>1. faults' \in 0 .. MaxFaults
    BY <1>3, FaultType DEF EndLoop, TypeOK
  <2>2. Goto(f, "lastflush")
    BY <1>3 DEF EndLoop
  <2> QED BY <2>1, <2>2, GotoType, <1>3 DEF EndLoop, TypeOK
<1>4. ASSUME NEW f \in Fetchers, Resolve(f) PROVE TypeOK'
  <2>1. run[f].cur \in Artifacts
    BY <1>4, <1>0 DEF Resolve, Run, WellFormed
  <2>2. CASE Goto(f, "bytes") /\ UNCHANGED row
    BY <1>4, <2>1, <2>2, GotoType DEF Resolve, TypeOK
  <2> DEFINE n == [PutDown(run[f], "loop") EXCEPT !.unprocessed = @ \ {run[f].cur}]
  <2>3. CASE Finish(run[f].cur, "skipped", "barren") /\ Becomes(f, n)
    <3>1. row' \in [Artifacts -> Row]
      BY <2>1, <2>3, FinishType
    <3>2. n \in Run /\ WellFormed(n)
      BY <1>0, DropType
    <3> HIDE DEF n
    <3> QED BY <1>4, <2>3, <3>1, <3>2, BecomesType DEF Resolve, TypeOK
  <2> QED BY <1>4, <2>2, <2>3 DEF Resolve
<1>5. ASSUME NEW f \in Fetchers, NoRecord(f) PROVE TypeOK'
  <2>1. run[f].cur \in Artifacts
    BY <1>5, <1>0 DEF NoRecord, Run, WellFormed
  <2>2. row' \in [Artifacts -> Row]
    BY <1>5, <2>1, FinishType DEF NoRecord
  <2>3. PutDown(run[f], "loop") \in Run /\ WellFormed(PutDown(run[f], "loop"))
    BY <1>0, PutDownType
  <2> QED BY <1>5, <2>2, <2>3, BecomesType DEF NoRecord, TypeOK
<1>6. ASSUME NEW f \in Fetchers, FetchBytes(f) PROVE TypeOK'
  <2>1. run[f].cur \in Artifacts
    BY <1>6, <1>0 DEF FetchBytes, Run, WellFormed
  <2>2. \E got \in SUBSET Pieces : Answered(f, "bytes", got)
    BY <1>6, <2>1 DEF FetchBytes
  <2> QED BY <1>6, <2>1, <2>2, AnsweredType DEF FetchBytes, TypeOK
<1>7. ASSUME NEW f \in Fetchers, AskApi(f) PROVE TypeOK'
  <2>1. run[f].cur \in Artifacts
    BY <1>7, <1>0 DEF AskApi, Run, WellFormed
  <2>2. \E got \in SUBSET Pieces : Answered(f, "api", got)
    BY <1>7, <2>1 DEF AskApi
  <2> QED BY <1>7, <2>1, <2>2, AnsweredType DEF AskApi, TypeOK
<1>8. ASSUME NEW f \in Fetchers, Put(f) PROVE TypeOK'
  <2>1. CASE Becomes(f, Written(f))
    BY <1>8, <2>1, WrittenType, BecomesType DEF Put, TypeOK
  <2>2. CASE Goto(f, "index")
    <3>1. run[f].cur # NoArtifact
      BY <1>8, <1>0 DEF Put, WellFormed
    <3> QED BY <1>8, <2>2, <3>1, GotoType DEF Put, TypeOK
  <2> QED BY <1>8, <2>1, <2>2 DEF Put
<1>9. ASSUME NEW f \in Fetchers, RecordBlob(f) PROVE TypeOK'
  BY <1>9, WrittenType, BecomesType DEF RecordBlob, TypeOK
<1>10. ASSUME NEW f \in Fetchers, Seal(f) PROVE TypeOK'
  <2> DEFINE r    == run[f]
             w    == r.wrote
             recs == IF w = {} THEN {Negative(r.cur)} ELSE w
             und  == r.undurable \cup {r.cur}
             full == Cardinality(und) >= FlushEvery
             held == IF full THEN [r EXCEPT !.pc = "flush"]
                     ELSE PutDown(r, "loop")
             n    == [held EXCEPT !.buffer = IF w = {} THEN @ \cup recs ELSE @,
                                  !.undurable = und,
                                  !.unprocessed = @ \ {r.cur}]
  <2>1. r \in Run /\ WellFormed(r) /\ r.cur \in Artifacts /\ r.pc = "seal"
    BY <1>10, <1>0 DEF Seal, Run, WellFormed
  <2>2. recs \subseteq Records
    BY <2>1 DEF Negative, Records, Run
  <2>3. /\ held \in Run /\ WellFormed(held)
        /\ r.cur \notin held.todo /\ held.undurable = r.undurable
        /\ held.pc \in {"flush", "loop"}
    <3>1. CASE full
      <4> DEFINE h == [r EXCEPT !.pc = "flush"]
      <4>1. /\ h \in Run /\ WellFormed(h) /\ r.cur \notin h.todo
            /\ h.undurable = r.undurable /\ h.pc = "flush"
        BY <2>1 DEF Run, WellFormed
      <4>2. held = h
        BY <3>1
      <4> HIDE DEF held, h
      <4> QED BY <4>1, <4>2
    <3>2. CASE ~full
      <4> DEFINE h == PutDown(r, "loop")
      <4>1. /\ h \in Run /\ WellFormed(h) /\ r.cur \notin h.todo
            /\ h.undurable = r.undurable /\ h.pc = "loop"
        BY <2>1, PutDownType DEF WellFormed
      <4>2. held = h
        BY <3>2
      <4> HIDE DEF held, h
      <4> QED BY <4>1, <4>2
    <3> QED BY <3>1, <3>2
  <2>4. n \in Run /\ WellFormed(n)
    <3> HIDE DEF held, recs
    <3>1. /\ (IF w = {} THEN held.buffer \cup recs ELSE held.buffer) \subseteq Records
          /\ und \subseteq Artifacts
          /\ held.unprocessed \ {r.cur} \subseteq Artifacts
      BY <2>1, <2>2, <2>3 DEF Run
    <3>2. n \in Run
      BY <2>3, <3>1 DEF Run
    <3>3. /\ n.pc = held.pc /\ n.cur = held.cur /\ n.todo = held.todo
          /\ n.marking = held.marking /\ n.undurable = und
          /\ n.unprocessed = held.unprocessed \ {r.cur}
      BY <2>3 DEF Run
    <3> HIDE DEF n
    <3>4. WellFormed(n)
      BY <2>3, <3>3 DEF WellFormed
    <3> QED BY <3>2, <3>4
  <2>5. Becomes(f, n) /\ sealed' = [sealed EXCEPT ![r.cur] = @ \cup {recs}]
    BY <1>10 DEF Seal
  <2>6. sealed' \in [Artifacts -> SUBSET SUBSET Records]
    <3> HIDE DEF recs
    <3> QED BY <2>1, <2>2, <2>5 DEF TypeOK
  <2> HIDE DEF n
  <2> QED BY <1>10, <2>4, <2>5, <2>6, BecomesType DEF Seal, TypeOK
<1>11. ASSUME NEW f \in Fetchers, Flush(f) PROVE TypeOK'
  <2> DEFINE s == CASE run[f].pc = "flush" -> "mark"
                    [] run[f].pc = "lastflush" /\ run[f].undurable = {} -> "release"
                    [] OTHER -> "lastmark"
             n == [run[f] EXCEPT !.buffer = {}, !.wrote = {},
                                 !.marking = run[f].undurable, !.pc = s]
  <2>1. s \in Steps /\ (s \in InHand => run[f].pc = "flush")
    BY <1>11 DEF Flush
  <2>2. n \in Run /\ WellFormed(n)
    <3>1. run[f].pc = "flush" => run[f].cur # NoArtifact
      BY <1>0 DEF WellFormed
    <3> HIDE DEF s
    <3>2. n \in Run
      <4>1. run[f] \in Run /\ s \in Steps
        BY <1>0, <2>1
      <4> QED BY <4>1, FlushedType
    <3>3. /\ n.pc = s /\ n.cur = run[f].cur /\ n.todo = run[f].todo
          /\ n.unprocessed = run[f].unprocessed
          /\ n.marking = run[f].undurable /\ n.undurable = run[f].undurable
      BY <1>0 DEF Run
    <3> HIDE DEF n
    <3>4. WellFormed(n)
      BY <1>0, <2>1, <3>1, <3>3 DEF WellFormed
    <3> QED BY <3>2, <3>4
  <2>3. Becomes(f, n)
    BY <1>11 DEF Flush
  <2>4. durable' \subseteq Records
    BY <1>0, <1>11 DEF Flush, TypeOK, Run
  <2> HIDE DEF n
  <2> QED BY <1>11, <2>2, <2>3, <2>4, BecomesType DEF Flush, TypeOK
<1>12. ASSUME NEW f \in Fetchers, Mark(f) PROVE TypeOK'
  <2>1. PICK a \in run[f].marking :
          LET left == run[f].marking \ {a} IN
          /\ Finish(a, "done", "none")
          /\ IF left # {}
             THEN Becomes(f, [run[f] EXCEPT !.marking = left])
             ELSE Becomes(f, [PutDown(run[f], IF run[f].pc = "mark"
                                              THEN "loop" ELSE "release")
                                EXCEPT !.undurable = {}])
    BY <1>12 DEF Mark
  <2> DEFINE m == [run[f] EXCEPT !.marking = run[f].marking \ {a}]
             s == IF run[f].pc = "mark" THEN "loop" ELSE "release"
             n == [PutDown(run[f], s) EXCEPT !.undurable = {}]
  <2>2. a \in Artifacts
    BY <1>0 DEF Run
  <2>3. row' \in [Artifacts -> Row]
    BY <2>1, <2>2, FinishType
  <2>4. m \in Run /\ WellFormed(m)
    BY <1>0 DEF Run, WellFormed
  <2>5. n \in Run /\ WellFormed(n)
    <3>1. s \in Steps \ InHand
      OBVIOUS
    <3> HIDE DEF s
    <3>2. PutDown(run[f], s) \in Run /\ WellFormed(PutDown(run[f], s))
          /\ PutDown(run[f], s).marking = {}
      BY <1>0, <3>1, PutDownType
    <3> QED BY <3>2 DEF Run, WellFormed
  <2>6. Becomes(f, m) \/ Becomes(f, n)
    BY <2>1
  <2> HIDE DEF m, n
  <2> QED BY <1>12, <2>3, <2>4, <2>5, <2>6, BecomesType DEF Mark, TypeOK
<1>13. ASSUME NEW f \in Fetchers, Release(f) PROVE TypeOK'
  BY <1>13, ReleaseType, GotoType DEF Release, TypeOK
<1>14. ASSUME NEW f \in Fetchers, Commit(f) PROVE TypeOK'
  <2>1. durable' \subseteq Records
    BY <1>0, <1>14 DEF Commit, TypeOK, Run
  <2> QED BY <1>14, <2>1, DieType DEF Commit, TypeOK
<1>15. ASSUME NEW f \in Fetchers, LastFails(f) PROVE TypeOK'
  <2>1. faults' \in 0 .. MaxFaults /\ durable' \subseteq Records
    BY <1>15, FaultType, PartType DEF LastFails, TypeOK
  <2>2. PutDown(run[f], "release") \in Run /\ WellFormed(PutDown(run[f], "release"))
    BY <1>0, PutDownType
  <2> QED BY <1>15, <2>1, <2>2, BecomesType DEF LastFails, TypeOK
<1>16. ASSUME NEW f \in Fetchers, Fail(f) PROVE TypeOK'
  <2> DEFINE n == [PutDown(run[f], "loop") EXCEPT !.unprocessed = @ \ {run[f].cur}]
  <2>1. faults' \in 0 .. MaxFaults /\ durable' \subseteq Records
    BY <1>16, FaultType, PartType DEF Fail, TypeOK
  <2>2. run[f].cur \in Artifacts
    BY <1>16, <1>0 DEF Fail, Risky, Run, WellFormed
  <2>3. row' \in [Artifacts -> Row]
    BY <1>16, <2>2, FinishType DEF Fail
  <2>4. n \in Run /\ WellFormed(n)
    BY <1>0, DropType
  <2>5. Becomes(f, n)
    BY <1>16 DEF Fail
  <2> HIDE DEF n
  <2> QED BY <1>16, <2>1, <2>3, <2>4, <2>5, BecomesType DEF Fail, TypeOK
<1>17. ASSUME NEW f \in Fetchers, FailTwice(f) PROVE TypeOK'
  <2>1. faults' \in 0 .. MaxFaults /\ durable' \subseteq Records
    BY <1>17, FaultType, PartType DEF FailTwice, TypeOK
  <2>2. PutDown(run[f], "lastflush") \in Run /\ WellFormed(PutDown(run[f], "lastflush"))
    BY <1>0, PutDownType
  <2> QED BY <1>17, <2>1, <2>2, BecomesType DEF FailTwice, TypeOK
<1>18. ASSUME NEW f \in Fetchers, Refused(f) PROVE TypeOK'
  <2> DEFINE n == [PutDown(run[f], "lastflush") EXCEPT
                     !.unprocessed = @ \ {run[f].cur}]
  <2>1. faults' \in 0 .. MaxFaults
    BY <1>18, FaultType DEF Refused, TypeOK
  <2>2. run[f].cur \in Artifacts
    BY <1>18, <1>0 DEF Refused, Run, WellFormed
  <2>3. row' \in [Artifacts -> Row]
    BY <1>18, <2>2, FinishType DEF Refused
  <2>4. n \in Run /\ WellFormed(n)
    BY <1>0, DropType
  <2>5. Becomes(f, n)
    BY <1>18 DEF Refused
  <2> HIDE DEF n
  <2> QED BY <1>18, <2>1, <2>3, <2>4, <2>5, BecomesType DEF Refused, TypeOK
<1>19. ASSUME NEW f \in Fetchers, Crash(f) PROVE TypeOK'
  BY <1>19, FaultType, DieType DEF Crash, TypeOK
<1>20. ASSUME NEW f \in Fetchers, LoseDatabase(f) PROVE TypeOK'
  <2>1. durable' \subseteq Records
    BY <1>0, <1>20 DEF LoseDatabase, TypeOK, Run
  <2> QED BY <1>20, <2>1, FaultType, DieType DEF LoseDatabase, TypeOK
<1>21. ASSUME NEW a \in Artifacts, Lapse(a) PROVE TypeOK'
  <2>1. [row[a] EXCEPT !.lapsed = TRUE] \in Row
    BY RowType DEF TypeOK
  <2> QED BY <1>21, <2>1 DEF Lapse, TypeOK
<1>22. CASE UNCHANGED vars
  BY <1>22 DEF vars, TypeOK
<1>23. ASSUME NEW f \in Fetchers, RefusedTwice(f) PROVE TypeOK'
  <2>1. faults' \in 0 .. MaxFaults
    BY <1>23, FaultType DEF RefusedTwice, TypeOK
  <2> DEFINE n == Stranded(run[f], "lastflush")
  <2>2. run[f].cur \in Artifacts
    BY <1>23, <1>0 DEF RefusedTwice, Run, WellFormed
  <2>3. n \in Run /\ WellFormed(n)
    BY <1>0, <2>2, StrandType DEF Steps, InHand
  <2>4. Becomes(f, n)
    BY <1>23 DEF RefusedTwice, Stranded, Strand
  <2> HIDE DEF n
  <2> QED BY <1>23, <2>1, <2>3, <2>4, BecomesType DEF RefusedTwice, TypeOK
<1> QED
  BY <1>1, <1>2, <1>3, <1>4, <1>5, <1>6, <1>7, <1>8, <1>9, <1>10, <1>11, <1>12,
     <1>13, <1>14, <1>15, <1>16, <1>17, <1>18, <1>19, <1>20, <1>21, <1>22, <1>23
  DEF Next, Proceed, Disturb

\* Every reachable state is well typed.
THEOREM TypeCorrect == Spec => []TypeOK
<1> QED BY InitType, NextType, PTL DEF Spec

----------------------------------------------------------------------------
\* What the operators do to the states of the rows and to a process.

LEMMA FinishState ==
  ASSUME TypeOK, NEW a \in Artifacts, NEW s, NEW e, Finish(a, s, e)
  PROVE  \A b \in Artifacts : row'[b].state = IF b = a THEN s ELSE row[b].state
BY DEF TypeOK, Finish

LEMMA ReleaseState ==
  ASSUME TypeOK, NEW as, ReleaseRows(as)
  PROVE  \A b \in Artifacts : row'[b].state = "done" <=> row[b].state = "done"
BY DEF TypeOK, ReleaseRows, Leased, Row

LEMMA DieState ==
  ASSUME TypeOK, NEW f \in Fetchers, Die(f)
  PROVE  \A b \in Artifacts : row'[b].state = row[b].state
<1>1. \A b \in Artifacts : row[b] \in Row
                           /\ [row[b] EXCEPT !.holder = NoFetcher].state = row[b].state
  BY DEF TypeOK, Row
<1> QED BY <1>1 DEF Die

LEMMA BecomesValue ==
  ASSUME TypeOK, NEW f \in Fetchers, NEW r, Becomes(f, r)
  PROVE  run'[f] = r /\ \A g \in Fetchers \ {f} : run'[g] = run[g]
BY DEF TypeOK, Becomes

\* The record sets of the bucket only grow, so what is captured stays so.
LEMMA DoneStep ==
  ASSUME DoneIsDurable, durable \subseteq durable',
         \A a \in Artifacts : sealed[a] \subseteq sealed'[a],
         \A a \in Artifacts : row'[a].state = "done" =>
                                \/ row[a].state = "done"
                                \/ \E recs \in sealed[a] : recs \subseteq durable
  PROVE  DoneIsDurable'
BY DEF DoneIsDurable, Captured

\* Only f's process moves: what it owes must still be covered.
LEMMA BufferedStep ==
  ASSUME UndurableIsBuffered, NEW f \in Fetchers,
         TypeOK, \A g \in Fetchers \ {f} : run'[g] = run[g],
         durable \subseteq durable',
         \A a \in Artifacts : sealed[a] \subseteq sealed'[a],
         run'[f].wrote \subseteq run'[f].buffer,
         run'[f].pc \in {"mark", "lastmark"} => run'[f].buffer = {},
         \A a \in run'[f].undurable : \E recs \in sealed'[a] :
           recs \subseteq durable' \cup run'[f].buffer
  PROVE  UndurableIsBuffered'
<1>1. \A g \in Fetchers : run[g].undurable \subseteq Artifacts
  BY DEF TypeOK, Run
<1>2. ASSUME NEW g \in Fetchers, g # f PROVE Buffered(run[g])'
  <2>1. run'[g] = run[g] /\ Buffered(run[g])
    BY <1>2 DEF UndurableIsBuffered
  <2>2. ASSUME NEW a \in run[g].undurable
        PROVE  \E recs \in sealed'[a] : recs \subseteq durable' \cup run[g].buffer
    BY <1>1, <2>1 DEF Buffered
  <2> QED BY <2>1, <2>2 DEF Buffered
<1>3. Buffered(run[f])'
  BY DEF Buffered
<1> QED BY <1>2, <1>3 DEF UndurableIsBuffered

\* The common case: f keeps its list, and nothing leaves its buffer but into
\* the bucket.
LEMMA BufferedKept ==
  ASSUME UndurableIsBuffered, NEW f \in Fetchers,
         TypeOK, \A g \in Fetchers \ {f} : run'[g] = run[g],
         durable \subseteq durable', UNCHANGED sealed,
         run'[f].wrote \subseteq run'[f].buffer,
         run'[f].pc \in {"mark", "lastmark"} => run'[f].buffer = {},
         run'[f].undurable \subseteq run[f].undurable,
         run[f].buffer \subseteq durable' \cup run'[f].buffer
  PROVE  UndurableIsBuffered'
<1>1. \A a \in run'[f].undurable : \E recs \in sealed'[a] :
        recs \subseteq durable' \cup run'[f].buffer
  BY DEF UndurableIsBuffered, Buffered
<1> QED BY <1>1, BufferedStep

\* What Goto and PutDown do to the process.
LEMMA GotoValue ==
  ASSUME TypeOK, NEW f \in Fetchers, NEW s \in Steps, Goto(f, s)
  PROVE  /\ run'[f].pc = s /\ run'[f].cur = run[f].cur
         /\ run'[f].undurable = run[f].undurable
         /\ run'[f].unprocessed = run[f].unprocessed
         /\ run'[f].marking = run[f].marking
         /\ run'[f].stranded = run[f].stranded
         /\ run'[f].pieces = run[f].pieces /\ run'[f].channel = run[f].channel
         /\ run'[f].buffer = run[f].buffer /\ run'[f].wrote = run[f].wrote
         /\ \A g \in Fetchers \ {f} : run'[g] = run[g]
<1>1. run[f] \in Run
  BY DEF TypeOK
<1>2. /\ run'[f] = [run[f] EXCEPT !.pc = s]
      /\ \A g \in Fetchers \ {f} : run'[g] = run[g]
  BY BecomesValue DEF Goto
<1> QED BY <1>1, <1>2 DEF Run

LEMMA PutDownValue ==
  ASSUME TypeOK, NEW f \in Fetchers, NEW s \in Steps \ InHand, NEW u,
         \/ Becomes(f, [PutDown(run[f], s) EXCEPT !.unprocessed = u])
         \/ Becomes(f, PutDown(run[f], s)) /\ u = run[f].unprocessed
  PROVE  /\ run'[f].pc = s /\ run'[f].wrote = {} /\ run'[f].marking = {}
         /\ run'[f].undurable = run[f].undurable
         /\ run'[f].unprocessed = u /\ run'[f].buffer = run[f].buffer
         /\ run'[f].stranded = run[f].stranded
         /\ \A g \in Fetchers \ {f} : run'[g] = run[g]
<1> DEFINE p == PutDown(run[f], s)
<1>1. /\ p \in Run /\ p.pc = s /\ p.wrote = {} /\ p.marking = {}
      /\ p.undurable = run[f].undurable /\ p.buffer = run[f].buffer
      /\ p.unprocessed = run[f].unprocessed /\ p.stranded = run[f].stranded
  BY PutDownType DEF TypeOK
<1> HIDE DEF p
<1>2. CASE Becomes(f, [p EXCEPT !.unprocessed = u])
  <2>1. /\ run'[f] = [p EXCEPT !.unprocessed = u]
        /\ \A g \in Fetchers \ {f} : run'[g] = run[g]
    BY <1>2, BecomesValue
  <2> QED BY <1>1, <2>1 DEF Run
<1>3. CASE Becomes(f, p) /\ u = run[f].unprocessed
  BY <1>1, <1>3, BecomesValue
<1> QED BY <1>2, <1>3 DEF p

\* The two cases of PutDownValue.
Dropped(r, s, u) == [PutDown(r, s) EXCEPT !.unprocessed = u]

LEMMA PutDownOnly ==
  ASSUME TypeOK, NEW f \in Fetchers, NEW s \in Steps \ InHand, Becomes(f, PutDown(run[f], s))
  PROVE  /\ run'[f].pc = s /\ run'[f].undurable = run[f].undurable
         /\ run'[f].unprocessed = run[f].unprocessed
         /\ run'[f].stranded = run[f].stranded
         /\ \A g \in Fetchers \ {f} : run'[g] = run[g]
<1> DEFINE p == PutDown(run[f], s)
<1>1. /\ p.pc = s /\ p.undurable = run[f].undurable
      /\ p.unprocessed = run[f].unprocessed /\ p.stranded = run[f].stranded
  BY PutDownType DEF TypeOK
<1> HIDE DEF p
<1>2. Becomes(f, p)
  BY DEF p
<1> QED BY <1>1, <1>2, BecomesValue

LEMMA PutDownDrops ==
  ASSUME TypeOK, NEW f \in Fetchers, NEW s \in Steps \ InHand, NEW u,
         Becomes(f, Dropped(run[f], s, u))
  PROVE  /\ run'[f].pc = s /\ run'[f].undurable = run[f].undurable
         /\ run'[f].unprocessed = u
         /\ run'[f].stranded = run[f].stranded
         /\ \A g \in Fetchers \ {f} : run'[g] = run[g]
<1> DEFINE p == PutDown(run[f], s)
           n == Dropped(run[f], s, u)
<1>1. /\ p \in Run /\ p.pc = s /\ p.undurable = run[f].undurable
      /\ p.stranded = run[f].stranded
  BY PutDownType DEF TypeOK
<1>2. n = [p EXCEPT !.unprocessed = u]
  BY DEF Dropped
<1> HIDE DEF p
<1>3. /\ n.pc = s /\ n.undurable = run[f].undurable
      /\ n.unprocessed = u /\ n.stranded = run[f].stranded
  BY <1>1, <1>2 DEF Run
<1> HIDE DEF n
<1>4. Becomes(f, n)
  BY DEF n
<1> QED BY <1>3, <1>4, BecomesValue

\* What a claim of these rows leaves behind.
Takes(f, batch) ==
  /\ \A a \in Artifacts \ batch : row'[a] = row[a]
  /\ \A a \in batch : row'[a].state = "leased" /\ row'[a].holder = f
  /\ run'[f].pc = "loop" /\ run'[f].unprocessed = batch
  /\ run'[f].undurable = {} /\ run'[f].buffer = {}
  /\ run'[f].wrote = {}
  /\ \A g \in Fetchers \ {f} : run'[g] = run[g]

LEMMA ClaimValue ==
  ASSUME TypeOK, NEW f \in Fetchers, Claim(f)
  PROVE  \E batch \in SUBSET Claimable : Takes(f, batch)
<1>1. PICK batch \in SUBSET Claimable :
        /\ row' = [a \in Artifacts |-> IF a \in batch THEN Leased(a, f)
                                       ELSE row[a]]
        /\ Becomes(f, [Idle EXCEPT !.pc = "loop", !.todo = batch,
                                   !.unprocessed = batch])
  BY DEF Claim
<1>2. \A a \in Artifacts : /\ row[a] \in Row /\ Leased(a, f).state = "leased"
                           /\ Leased(a, f).holder = f
  BY DEF TypeOK, Leased, Row
<1>3. batch \subseteq Artifacts
  BY DEF Claimable
<1> DEFINE n == [Idle EXCEPT !.pc = "loop", !.todo = batch, !.unprocessed = batch]
<1>4. /\ n.pc = "loop" /\ n.unprocessed = batch /\ n.undurable = {}
      /\ n.buffer = {} /\ n.wrote = {}
  BY DEF Idle
<1>5. Becomes(f, n)
  BY <1>1
<1> HIDE DEF n
<1>6. run'[f] = n /\ \A g \in Fetchers \ {f} : run'[g] = run[g]
  BY <1>5, BecomesValue
<1>7. /\ \A a \in Artifacts \ batch : row'[a] = row[a]
      /\ \A a \in batch : row'[a].state = "leased" /\ row'[a].holder = f
  BY <1>1, <1>2, <1>3
<1>8. Takes(f, batch)
  BY <1>4, <1>6, <1>7 DEF Takes
<1> QED BY <1>8

LEMMA SealValue ==
  ASSUME TypeOK, NEW f \in Fetchers, Seal(f)
  PROVE  LET a    == run[f].cur
             recs == IF run[f].wrote = {} THEN {Negative(a)} ELSE run[f].wrote
         IN /\ a \in Artifacts
            /\ run'[f].undurable = run[f].undurable \cup {a}
            /\ run'[f].unprocessed = run[f].unprocessed \ {a}
            /\ run'[f].buffer = IF run[f].wrote = {} THEN run[f].buffer \cup recs
                                ELSE run[f].buffer
            /\ run'[f].wrote \subseteq run[f].wrote
            /\ run'[f].pc \in {"flush", "loop"}
            /\ run'[f].stranded = run[f].stranded
            /\ sealed' = [sealed EXCEPT ![a] = @ \cup {recs}]
            /\ \A g \in Fetchers \ {f} : run'[g] = run[g]
<1> DEFINE r    == run[f]
           w    == r.wrote
           recs == IF w = {} THEN {Negative(r.cur)} ELSE w
           und  == r.undurable \cup {r.cur}
           full == Cardinality(und) >= FlushEvery
           held == IF full THEN [r EXCEPT !.pc = "flush"]
                   ELSE PutDown(r, "loop")
           n    == [held EXCEPT !.buffer = IF w = {} THEN @ \cup recs ELSE @,
                                !.undurable = und,
                                !.unprocessed = @ \ {r.cur}]
<1>1. r \in Run /\ WellFormed(r) /\ r.cur \in Artifacts
  BY DEF Seal, TypeOK, Run, WellFormed
<1>2. /\ held \in Run /\ held.pc \in {"flush", "loop"} /\ held.wrote \subseteq w
      /\ held.buffer = r.buffer /\ held.unprocessed = r.unprocessed
      /\ held.stranded = r.stranded
  <2>1. CASE full
    <3> DEFINE h == [r EXCEPT !.pc = "flush"]
    <3>1. /\ h \in Run /\ h.pc = "flush" /\ h.wrote = w /\ h.stranded = r.stranded
          /\ h.buffer = r.buffer /\ h.unprocessed = r.unprocessed
      BY <1>1 DEF Run
    <3>2. held = h
      BY <2>1
    <3> HIDE DEF held, h
    <3> QED BY <3>1, <3>2
  <2>2. CASE ~full
    <3> DEFINE h == PutDown(r, "loop")
    <3>1. /\ h \in Run /\ h.pc = "loop" /\ h.wrote = {} /\ h.stranded = r.stranded
          /\ h.buffer = r.buffer /\ h.unprocessed = r.unprocessed
      BY <1>1, PutDownType
    <3>2. held = h
      BY <2>2
    <3> HIDE DEF held, h
    <3> QED BY <3>1, <3>2
  <2> QED BY <2>1, <2>2
<1>3. Becomes(f, n) /\ sealed' = [sealed EXCEPT ![r.cur] = @ \cup {recs}]
  BY DEF Seal
<1>4. /\ n.undurable = und /\ n.unprocessed = r.unprocessed \ {r.cur}
      /\ n.buffer = IF w = {} THEN r.buffer \cup recs ELSE r.buffer
      /\ n.wrote \subseteq w /\ n.pc \in {"flush", "loop"}
      /\ n.stranded = r.stranded
  <2> HIDE DEF held, recs, und
  <2> QED BY <1>1, <1>2 DEF Run
<1>5. run'[f] = n /\ \A g \in Fetchers \ {f} : run'[g] = run[g]
  <2> HIDE DEF n
  <2> QED BY <1>3, BecomesValue
<1> HIDE DEF n
<1> QED BY <1>1, <1>3, <1>4, <1>5

LEMMA FlushValue ==
  ASSUME TypeOK, NEW f \in Fetchers, Flush(f)
  PROVE  /\ durable' = durable \cup run[f].buffer
         /\ run'[f].buffer = {} /\ run'[f].wrote = {}
         /\ run'[f].undurable = run[f].undurable
         /\ run'[f].unprocessed = run[f].unprocessed
         /\ run'[f].marking = run[f].undurable
         /\ run'[f].stranded = run[f].stranded
         /\ \/ run'[f].pc \in {"mark", "lastmark"}
            \/ run'[f].pc = "release" /\ run[f].undurable = {}
         /\ \A g \in Fetchers \ {f} : run'[g] = run[g]
<1> DEFINE s == CASE run[f].pc = "flush" -> "mark"
                  [] run[f].pc = "lastflush" /\ run[f].undurable = {} -> "release"
                  [] OTHER -> "lastmark"
           n == [run[f] EXCEPT !.buffer = {}, !.wrote = {},
                               !.marking = run[f].undurable, !.pc = s]
<1>1. run[f] \in Run
  BY DEF TypeOK
<1>2. \/ s \in {"mark", "lastmark"}
      \/ s = "release" /\ run[f].undurable = {}
  BY DEF Flush
<1>3. Becomes(f, n)
  BY DEF Flush
<1>4. /\ n.buffer = {} /\ n.wrote = {}
      /\ n.undurable = run[f].undurable /\ n.unprocessed = run[f].unprocessed
      /\ n.marking = run[f].undurable /\ n.pc = s
      /\ n.stranded = run[f].stranded
  <2> HIDE DEF s
  <2> QED BY <1>1 DEF Run
<1> HIDE DEF n, s
<1> QED BY <1>2, <1>3, <1>4, BecomesValue DEF Flush

LEMMA MarkValue ==
  ASSUME TypeOK, NEW f \in Fetchers, Mark(f)
  PROVE  \E a \in run[f].marking :
           /\ Finish(a, "done", "none")
           /\ run'[f].buffer = run[f].buffer
           /\ run'[f].unprocessed = run[f].unprocessed
           /\ run'[f].stranded = run[f].stranded
           /\ \/ /\ run'[f].undurable = run[f].undurable
                 /\ run'[f].marking = run[f].marking \ {a}
                 /\ run'[f].pc = run[f].pc /\ run'[f].wrote = run[f].wrote
              \/ /\ run[f].marking = {a} /\ run'[f].undurable = {}
                 /\ run'[f].pc \in {"loop", "release"} /\ run'[f].wrote = {}
           /\ \A g \in Fetchers \ {f} : run'[g] = run[g]
<1>1. PICK a \in run[f].marking :
        LET left == run[f].marking \ {a} IN
        /\ Finish(a, "done", "none")
        /\ IF left # {}
           THEN Becomes(f, [run[f] EXCEPT !.marking = left])
           ELSE Becomes(f, [PutDown(run[f], IF run[f].pc = "mark"
                                            THEN "loop" ELSE "release")
                              EXCEPT !.undurable = {}])
  BY DEF Mark
<1>2. run[f] \in Run /\ WellFormed(run[f])
  BY DEF TypeOK
<1> DEFINE left == run[f].marking \ {a}
           m == [run[f] EXCEPT !.marking = left]
           s == IF run[f].pc = "mark" THEN "loop" ELSE "release"
           p == PutDown(run[f], s)
           n == [p EXCEPT !.undurable = {}]
<1>3. CASE left # {}
  <2>1. Becomes(f, m)
    BY <1>1, <1>3
  <2>2. /\ m.undurable = run[f].undurable /\ m.marking = left
        /\ m.unprocessed = run[f].unprocessed /\ m.stranded = run[f].stranded
        /\ m.buffer = run[f].buffer /\ m.pc = run[f].pc /\ m.wrote = run[f].wrote
    BY <1>2 DEF Run
  <2> HIDE DEF m
  <2> QED BY <1>1, <2>1, <2>2, BecomesValue
<1>4. CASE left = {}
  <2>1. Becomes(f, n)
    BY <1>1, <1>4
  <2>2. s \in {"loop", "release"} /\ s \in Steps \ InHand
    OBVIOUS
  <2> HIDE DEF s
  <2>3. /\ p \in Run /\ p.pc = s /\ p.wrote = {} /\ p.buffer = run[f].buffer
        /\ p.unprocessed = run[f].unprocessed /\ p.stranded = run[f].stranded
    BY <1>2, <2>2, PutDownType
  <2> HIDE DEF p
  <2>4. /\ n.undurable = {} /\ n.pc = s /\ n.wrote = {}
        /\ n.stranded = run[f].stranded
        /\ n.buffer = run[f].buffer /\ n.unprocessed = run[f].unprocessed
    BY <2>3 DEF Run
  <2> HIDE DEF n
  <2>5. run[f].marking = {a}
    BY <1>4
  <2> QED BY <1>1, <2>1, <2>2, <2>4, <2>5, BecomesValue
<1> QED BY <1>3, <1>4

LEMMA DieValue ==
  ASSUME TypeOK, NEW f \in Fetchers, Die(f) \/ Becomes(f, Idle)
  PROVE  /\ run'[f].pc = "idle" /\ run'[f].buffer = {} /\ run'[f].wrote = {}
         /\ run'[f].undurable = {} /\ run'[f].unprocessed = {}
         /\ \A g \in Fetchers \ {f} : run'[g] = run[g]
<1>1. Becomes(f, Idle)
  BY DEF Die
<1> QED BY <1>1, BecomesValue DEF Idle

\* The row whose refusal could not be recorded is stranded; nothing else is
\* forgotten.
LEMMA RefusedTwiceValue ==
  ASSUME TypeOK, NEW f \in Fetchers, RefusedTwice(f)
  PROVE  /\ run[f].cur \in Artifacts /\ run'[f] \in Run /\ WellFormed(run'[f])
         /\ run'[f].pc = "lastflush" /\ run'[f].wrote = {}
         /\ run'[f].buffer = run[f].buffer /\ run'[f].todo = run[f].todo
         /\ run'[f].undurable = run[f].undurable
         /\ run'[f].unprocessed = run[f].unprocessed \ {run[f].cur}
         /\ run'[f].stranded = run[f].stranded \cup {run[f].cur}
         /\ \A g \in Fetchers \ {f} : run'[g] = run[g]
<1>1. run[f] \in Run /\ WellFormed(run[f]) /\ run[f].cur \in Artifacts
  BY DEF TypeOK, RefusedTwice, Run, WellFormed
<1> DEFINE n == Stranded(run[f], "lastflush")
<1>2. Becomes(f, n)
  BY DEF RefusedTwice, Stranded, Strand
<1>3. "lastflush" \in Steps \ InHand
  BY DEF Steps, InHand
<1>4. /\ n \in Run /\ WellFormed(n) /\ n.pc = "lastflush" /\ n.wrote = {}
      /\ n.buffer = run[f].buffer /\ n.todo = run[f].todo
      /\ n.undurable = run[f].undurable
      /\ n.unprocessed = run[f].unprocessed \ {run[f].cur}
      /\ n.stranded = run[f].stranded \cup {run[f].cur}
  BY <1>1, <1>3, StrandType
<1> HIDE DEF n
<1> QED BY <1>1, <1>2, <1>4, BecomesValue

LEMMA AnsweredValue ==
  ASSUME TypeOK, NEW f \in Fetchers, NEW c, c \in Channels, NEW got,
         Answered(f, c, got)
  PROVE  /\ run'[f].pc \in {"put", "api", "seal"}
         /\ run'[f].undurable = run[f].undurable
         /\ run'[f].unprocessed = run[f].unprocessed
         /\ run'[f].stranded = run[f].stranded
         /\ run'[f].buffer = run[f].buffer /\ run'[f].wrote = run[f].wrote
         /\ \A g \in Fetchers \ {f} : run'[g] = run[g]
<1> DEFINE s == After(run[f].cur, c, got, run[f].wrote)
           n == [run[f] EXCEPT !.pieces = got, !.channel = c, !.pc = s]
<1>1. run[f] \in Run
  BY DEF TypeOK
<1>2. s \in {"put", "api", "seal"}
  BY AfterType
<1>3. Becomes(f, n)
  BY DEF Answered
<1>4. /\ n.pc = s /\ n.undurable = run[f].undurable
      /\ n.unprocessed = run[f].unprocessed /\ n.stranded = run[f].stranded
      /\ n.buffer = run[f].buffer /\ n.wrote = run[f].wrote
  <2> HIDE DEF s
  <2> QED BY <1>1 DEF Run
<1> HIDE DEF n, s
<1> QED BY <1>2, <1>3, <1>4, BecomesValue

\* What Written does to the process.
LEMMA WrittenValue ==
  ASSUME TypeOK, NEW f \in Fetchers, run[f].pc \in {"put", "index"}
  PROVE  /\ Written(f).undurable = run[f].undurable
         /\ Written(f).unprocessed = run[f].unprocessed
         /\ Written(f).stranded = run[f].stranded
         /\ Written(f).buffer = run[f].buffer \cup Lines(f)
         /\ Written(f).wrote = run[f].wrote \cup Lines(f)
         /\ Written(f).pc \in {"put", "api", "seal"}
<1> DEFINE p    == Piece(f)
           left == run[f].pieces \ {p.kind}
           all  == run[f].wrote \cup Lines(f)
           next == After(p.of, p.channel, left, all)
<1>1. run[f] \in Run
  BY DEF TypeOK
<1>2. next \in {"put", "api", "seal"}
  BY AfterType, PieceType, <1>1 DEF Run
<1>3. Written(f) = [run[f] EXCEPT !.pieces = left, !.buffer = @ \cup Lines(f),
                                  !.wrote = all, !.pc = next]
  BY DEF Written
<1> HIDE DEF p, left, next
<1> QED BY <1>1, <1>2, <1>3 DEF Run

----------------------------------------------------------------------------
\* Rows marked done are durable.

Durability == DoneIsDurable /\ UndurableIsBuffered

LEMMA InitDurability == Init => Durability
BY DEF Init, Durability, DoneIsDurable, UndurableIsBuffered, Buffered, Idle

LEMMA NextDurability == TypeOK /\ Durability /\ [Next]_vars => Durability'
<1> SUFFICES ASSUME TypeOK, Durability, [Next]_vars PROVE Durability'
  OBVIOUS
<1> USE DEF Durability
<1>0. \A f \in Fetchers : run[f] \in Run /\ WellFormed(run[f]) /\ Buffered(run[f])
  BY DEF TypeOK, UndurableIsBuffered
<1>1. \A a \in Artifacts : sealed[a] \subseteq sealed[a]
  OBVIOUS
<1>2. ASSUME NEW f \in Fetchers, Claim(f) PROVE Durability'
  <2>1. /\ run'[f].undurable = {} /\ run'[f].wrote = {} /\ run'[f].pc = "loop"
        /\ \A g \in Fetchers \ {f} : run'[g] = run[g]
        /\ \A a \in Artifacts : row'[a].state = "done" => row[a].state = "done"
    <3>1. PICK batch \in SUBSET Claimable : Takes(f, batch)
      BY <1>2, ClaimValue
    <3> QED BY <3>1 DEF Takes
  <2> QED BY <1>2, <2>1, BufferedStep, DoneStep DEF Claim
<1>3. ASSUME NEW f \in Fetchers, Pick(f) PROVE Durability'
  <2>1. PICK a \in run[f].todo :
          Becomes(f, [run[f] EXCEPT !.pc = "resolve", !.cur = a, !.todo = @ \ {a}])
    BY <1>3 DEF Pick
  <2> DEFINE n == [run[f] EXCEPT !.pc = "resolve", !.cur = a, !.todo = @ \ {a}]
  <2>2. /\ n.pc = "resolve" /\ n.undurable = run[f].undurable
        /\ n.buffer = run[f].buffer /\ n.wrote = run[f].wrote
    BY <1>0 DEF Run
  <2>3. Becomes(f, n)
    BY <2>1
  <2> HIDE DEF n
  <2>4. /\ run'[f].pc = "resolve" /\ run'[f].undurable = run[f].undurable
        /\ run'[f].buffer = run[f].buffer /\ run'[f].wrote = run[f].wrote
        /\ \A g \in Fetchers \ {f} : run'[g] = run[g]
    BY <2>2, <2>3, BecomesValue
  <2> QED BY <1>0, <1>3, <2>4, BufferedKept, DoneStep DEF Pick, Buffered
<1>4. ASSUME NEW f \in Fetchers, EndLoop(f) PROVE Durability'
  BY <1>0, <1>4, GotoValue, BufferedKept, DoneStep DEF EndLoop, Buffered
\* Steps that end work on the artifact in hand without marking it done.
<1>5. ASSUME NEW f \in Fetchers, NEW s \in {"loop", "lastflush", "release"},
             NEW u, \/ Becomes(f, [PutDown(run[f], s) EXCEPT !.unprocessed = u])
                    \/ Becomes(f, PutDown(run[f], s)) /\ u = run[f].unprocessed,
             UNCHANGED sealed, durable \subseteq durable',
             \/ UNCHANGED row
             \/ \E a \in Artifacts, t \in States \ {"done"}, e \in Errors :
                  Finish(a, t, e)
      PROVE  Durability'
  <2>1. /\ run'[f].pc = s /\ run'[f].wrote = {}
        /\ run'[f].undurable = run[f].undurable /\ run'[f].buffer = run[f].buffer
        /\ \A g \in Fetchers \ {f} : run'[g] = run[g]
    <3>1. s \in Steps \ InHand
      BY DEF Steps, InHand
    <3> QED BY <1>5, <3>1, PutDownValue
  <2>2. \A a \in Artifacts : row'[a].state = "done" => row[a].state = "done"
    BY <1>5, FinishState
  <2> QED BY <1>5, <2>1, <2>2, BufferedKept, DoneStep
<1>6. ASSUME NEW f \in Fetchers, Resolve(f) PROVE Durability'
  <2>1. run[f].cur \in Artifacts
    BY <1>6, <1>0 DEF Resolve, Run, WellFormed
  <2>2. CASE Goto(f, "bytes") /\ UNCHANGED row
    BY <1>0, <1>6, <2>2, GotoValue, BufferedKept, DoneStep DEF Resolve, Buffered
  <2>3. CASE /\ Finish(run[f].cur, "skipped", "barren")
             /\ Becomes(f, [PutDown(run[f], "loop") EXCEPT
                              !.unprocessed = @ \ {run[f].cur}])
    BY <1>5, <1>6, <2>1, <2>3 DEF Resolve
  <2> QED BY <1>6, <2>2, <2>3 DEF Resolve
<1>7. ASSUME NEW f \in Fetchers, NoRecord(f) PROVE Durability'
  <2>1. run[f].cur \in Artifacts
    BY <1>7, <1>0 DEF NoRecord, Run, WellFormed
  <2> QED BY <1>5, <1>7, <2>1 DEF NoRecord
<1>8. ASSUME NEW f \in Fetchers, NEW c \in Channels, NEW got, Answered(f, c, got),
             UNCHANGED <<row, durable, sealed>>
      PROVE  Durability'
  BY <1>0, <1>8, AnsweredValue, BufferedKept, DoneStep DEF Buffered
<1>9. ASSUME NEW f \in Fetchers, FetchBytes(f) PROVE Durability'
  BY <1>8, <1>9 DEF FetchBytes
<1>10. ASSUME NEW f \in Fetchers, AskApi(f) PROVE Durability'
  BY <1>8, <1>10 DEF AskApi
<1>11. ASSUME NEW f \in Fetchers, run[f].pc \in {"put", "index"},
              Becomes(f, Written(f)), UNCHANGED <<row, durable, sealed>>
       PROVE  Durability'
  <2>1. /\ run'[f].undurable = run[f].undurable
        /\ run'[f].buffer = run[f].buffer \cup Lines(f)
        /\ run'[f].wrote = run[f].wrote \cup Lines(f)
        /\ run'[f].pc \in {"put", "api", "seal"}
        /\ \A g \in Fetchers \ {f} : run'[g] = run[g]
    BY <1>11, WrittenValue, BecomesValue
  <2> QED BY <1>0, <1>11, <2>1, BufferedKept, DoneStep DEF Buffered
<1>12. ASSUME NEW f \in Fetchers, Put(f) PROVE Durability'
  <2>1. CASE Becomes(f, Written(f))
    BY <1>11, <1>12, <2>1 DEF Put
  <2>2. CASE Goto(f, "index")
    BY <1>0, <1>12, <2>2, GotoValue, BufferedKept, DoneStep DEF Put, Buffered
  <2> QED BY <1>12, <2>1, <2>2 DEF Put
<1>13. ASSUME NEW f \in Fetchers, RecordBlob(f) PROVE Durability'
  BY <1>11, <1>13 DEF RecordBlob
<1>14. ASSUME NEW f \in Fetchers, Seal(f) PROVE Durability'
  <2> DEFINE a    == run[f].cur
             recs == IF run[f].wrote = {} THEN {Negative(a)} ELSE run[f].wrote
  <2>1. /\ a \in Artifacts
        /\ run'[f].undurable = run[f].undurable \cup {a}
        /\ run'[f].buffer = IF run[f].wrote = {} THEN run[f].buffer \cup recs
                            ELSE run[f].buffer
        /\ run'[f].wrote \subseteq run[f].wrote
        /\ run'[f].pc \in {"flush", "loop"}
        /\ sealed' = [sealed EXCEPT ![a] = @ \cup {recs}]
        /\ \A g \in Fetchers \ {f} : run'[g] = run[g]
    BY <1>14, SealValue
  <2>2. /\ recs \subseteq run'[f].buffer /\ run[f].buffer \subseteq run'[f].buffer
        /\ run'[f].wrote \subseteq run'[f].buffer
    <3>1. CASE run[f].wrote = {}
      BY <1>0, <2>1, <3>1
    <3>2. CASE run[f].wrote # {}
      BY <1>0, <2>1, <3>2 DEF Buffered
    <3> QED BY <3>1, <3>2
  <2> HIDE DEF recs
  <2>3. /\ \A b \in Artifacts : sealed[b] \subseteq sealed'[b]
        /\ recs \in sealed'[a]
    BY <2>1 DEF TypeOK
  <2>4. ASSUME NEW b \in run'[f].undurable
        PROVE  \E rs \in sealed'[b] : rs \subseteq durable' \cup run'[f].buffer
    <3>1. CASE b = a
      BY <2>2, <2>3, <3>1
    <3>2. CASE b \in run[f].undurable
      <4>1. b \in Artifacts
        BY <1>0, <3>2 DEF Run
      <4>2. PICK rs \in sealed[b] : rs \subseteq durable \cup run[f].buffer
        BY <1>0, <3>2 DEF Buffered
      <4> QED BY <1>14, <2>2, <2>3, <4>1, <4>2 DEF Seal
    <3> QED BY <2>1, <3>1, <3>2
  <2> QED BY <1>14, <2>1, <2>2, <2>3, <2>4, BufferedStep, DoneStep DEF Seal
<1>15. ASSUME NEW f \in Fetchers, Flush(f) PROVE Durability'
  BY <1>15, FlushValue, BufferedKept, DoneStep DEF Flush
<1>16. ASSUME NEW f \in Fetchers, Mark(f) PROVE Durability'
  <2>1. PICK a \in run[f].marking :
           /\ Finish(a, "done", "none")
           /\ run'[f].buffer = run[f].buffer
           /\ run'[f].undurable \subseteq run[f].undurable
           /\ run'[f].wrote \subseteq run[f].wrote
           /\ \A g \in Fetchers \ {f} : run'[g] = run[g]
    BY <1>16, MarkValue
  <2>2. a \in run[f].undurable /\ a \in Artifacts
    BY <1>0 DEF WellFormed, Run
  <2>3. run[f].buffer = {}
    BY <1>0, <1>16 DEF Mark, Buffered
  <2>4. \E recs \in sealed[a] : recs \subseteq durable
    BY <1>0, <2>2, <2>3 DEF Buffered
  <2>5. DoneIsDurable'
    BY <1>16, <2>1, <2>2, <2>4, FinishState, DoneStep DEF Mark
  <2> QED BY <1>0, <1>16, <2>1, <2>3, <2>5, BufferedKept DEF Mark, Buffered
<1>17. ASSUME NEW f \in Fetchers, Release(f) PROVE Durability'
  BY <1>0, <1>17, ReleaseState, GotoValue, BufferedKept, DoneStep
  DEF Release, Buffered
<1>18. ASSUME NEW f \in Fetchers, Commit(f) PROVE Durability'
  BY <1>18, DieValue, DieState, BufferedKept, DoneStep DEF Commit
<1>19. ASSUME NEW f \in Fetchers, LastFails(f) PROVE Durability'
  BY <1>5, <1>19 DEF LastFails, PartUncertain
<1>20. ASSUME NEW f \in Fetchers, Fail(f) PROVE Durability'
  <2>1. run[f].cur \in Artifacts
    BY <1>20, <1>0 DEF Fail, Risky, Run, WellFormed
  <2> QED BY <1>5, <1>20, <2>1 DEF Fail, PartUncertain
<1>21. ASSUME NEW f \in Fetchers, FailTwice(f) PROVE Durability'
  BY <1>5, <1>21 DEF FailTwice, PartUncertain
<1>22. ASSUME NEW f \in Fetchers, Refused(f) PROVE Durability'
  <2>1. run[f].cur \in Artifacts
    BY <1>22, <1>0 DEF Refused, Run, WellFormed
  <2> QED BY <1>5, <1>22, <2>1 DEF Refused
<1>23. ASSUME NEW f \in Fetchers, Crash(f) \/ LoseDatabase(f) PROVE Durability'
  <2>1. /\ run'[f].undurable = {} /\ run'[f].wrote = {} /\ run'[f].pc = "idle"
        /\ \A g \in Fetchers \ {f} : run'[g] = run[g]
    BY <1>23, DieValue DEF Crash, LoseDatabase
  <2>2. \A a \in Artifacts : row'[a].state = row[a].state
    BY <1>23, DieState DEF Crash, LoseDatabase
  <2>3. durable \subseteq durable' /\ UNCHANGED sealed
    BY <1>23 DEF Crash, LoseDatabase
  <2> QED BY <2>1, <2>2, <2>3, BufferedStep, DoneStep
<1>24. ASSUME NEW a \in Artifacts, Lapse(a) PROVE Durability'
  <2>1. \A b \in Artifacts : row'[b].state = row[b].state
    BY <1>24 DEF Lapse, TypeOK, Row
  <2> QED BY <1>24, <2>1, DoneStep DEF Lapse, UndurableIsBuffered, Buffered
<1>25. CASE UNCHANGED vars
  BY <1>25 DEF vars, DoneIsDurable, Captured, UndurableIsBuffered, Buffered
<1>26. ASSUME NEW f \in Fetchers, RefusedTwice(f) PROVE Durability'
  BY <1>0, <1>26, RefusedTwiceValue, BufferedKept, DoneStep DEF RefusedTwice
<1> QED
  BY <1>2, <1>3, <1>4, <1>6, <1>7, <1>9, <1>10, <1>12, <1>13, <1>14, <1>15,
     <1>16, <1>17, <1>18, <1>19, <1>20, <1>21, <1>22, <1>23, <1>24, <1>25, <1>26
  DEF Next, Proceed, Disturb

\* A row is marked done only when a complete capture of its artifact is in the
\* bucket, whatever runs die, fail or overlap in between.
THEOREM DoneDurable == Spec => []DoneIsDurable
<1>1. TypeOK /\ Durability /\ [Next]_vars => (TypeOK /\ Durability)'
  BY NextType, NextDurability
<1>2. Init => TypeOK /\ Durability
  BY InitType, InitDurability
<1>3. TypeOK /\ Durability => DoneIsDurable
  BY DEF Durability
<1> QED BY <1>1, <1>2, <1>3, PTL DEF Spec

----------------------------------------------------------------------------
\* Records name blobs the bucket has.

Resolving == RecordsResolve /\ BlobsFirst

\* Blobs are never removed, so only f's buffer, the pieces it is writing and
\* what it makes durable matter.
LEMMA BlobsStep ==
  ASSUME Resolving, TypeOK, NEW f \in Fetchers,
         \A g \in Fetchers \ {f} : run'[g] = run[g],
         stored \subseteq stored', indexed' \subseteq stored',
         durable' \subseteq durable \cup run[f].buffer,
         \A r \in run'[f].buffer : r.kind # "none" => DigestOf(r) \in stored',
         run'[f].pc = "index" => DigestOf(Piece(f))' \in stored'
  PROVE  Resolving'
<1> USE DEF Resolving, BlobsFirst
<1>1. RecordsResolve'
  BY DEF RecordsResolve, DigestOf
<1>2. ASSUME NEW g \in Fetchers, g # f
      PROVE  /\ \A r \in run'[g].buffer : r.kind # "none" => DigestOf(r) \in stored'
             /\ run'[g].pc = "index" => DigestOf(Piece(g))' \in stored'
  BY <1>2 DEF Piece, DigestOf
<1> QED BY <1>1, <1>2 DEF DigestOf

LEMMA InitResolving == Init => Resolving
BY DEF Init, Resolving, RecordsResolve, BlobsFirst, Idle

LEMMA NextResolving == TypeOK /\ Resolving /\ [Next]_vars => Resolving'
<1> SUFFICES ASSUME TypeOK, Resolving, [Next]_vars PROVE Resolving'
  OBVIOUS
<1>0. \A f \in Fetchers :
        /\ run[f] \in Run /\ WellFormed(run[f])
        /\ \A r \in run[f].buffer : r.kind # "none" => DigestOf(r) \in stored
  BY DEF TypeOK, Resolving, BlobsFirst
<1>1. indexed \subseteq stored
  BY DEF Resolving, BlobsFirst
\* Every step that neither stores nor indexes a blob.
<1>2. ASSUME NEW f \in Fetchers, \A g \in Fetchers \ {f} : run'[g] = run[g],
             UNCHANGED <<stored, indexed>>,
             durable' \subseteq durable \cup run[f].buffer,
             run'[f].buffer \subseteq run[f].buffer, run'[f].pc # "index"
      PROVE  Resolving'
  BY <1>0, <1>1, <1>2, BlobsStep
<1>3. ASSUME NEW f \in Fetchers, Claim(f) PROVE Resolving'
  <2>1. PICK batch \in SUBSET Claimable : Takes(f, batch)
    BY <1>3, ClaimValue
  <2> QED BY <1>2, <1>3, <2>1 DEF Claim, Takes
<1>4. ASSUME NEW f \in Fetchers, Pick(f) PROVE Resolving'
  <2>1. PICK a \in run[f].todo :
          Becomes(f, [run[f] EXCEPT !.pc = "resolve", !.cur = a, !.todo = @ \ {a}])
    BY <1>4 DEF Pick
  <2> DEFINE n == [run[f] EXCEPT !.pc = "resolve", !.cur = a, !.todo = @ \ {a}]
  <2>2. n.pc = "resolve" /\ n.buffer = run[f].buffer
    BY <1>0 DEF Run
  <2>3. Becomes(f, n)
    BY <2>1
  <2> HIDE DEF n
  <2> QED BY <1>2, <1>4, <2>2, <2>3, BecomesValue DEF Pick
<1>5. ASSUME NEW f \in Fetchers, EndLoop(f) PROVE Resolving'
  BY <1>2, <1>5, GotoValue DEF EndLoop
\* Steps that end work on the artifact in hand.
<1>6. ASSUME NEW f \in Fetchers, NEW s \in {"loop", "lastflush", "release"},
             NEW u, \/ Becomes(f, [PutDown(run[f], s) EXCEPT !.unprocessed = u])
                    \/ Becomes(f, PutDown(run[f], s)) /\ u = run[f].unprocessed,
             UNCHANGED <<stored, indexed>>,
             durable' \subseteq durable \cup run[f].buffer
      PROVE  Resolving'
  <2>1. s \in Steps \ InHand /\ s # "index"
    BY DEF Steps, InHand
  <2>2. /\ run'[f].pc = s /\ run'[f].buffer = run[f].buffer
        /\ \A g \in Fetchers \ {f} : run'[g] = run[g]
    BY <1>6, <2>1, PutDownValue
  <2> QED BY <1>2, <1>6, <2>1, <2>2
<1>7. ASSUME NEW f \in Fetchers, Resolve(f) PROVE Resolving'
  <2>1. CASE Goto(f, "bytes")
    BY <1>2, <1>7, <2>1, GotoValue DEF Resolve
  <2>2. CASE Becomes(f, [PutDown(run[f], "loop") EXCEPT
                           !.unprocessed = @ \ {run[f].cur}])
    BY <1>6, <1>7, <2>2 DEF Resolve
  <2> QED BY <1>7, <2>1, <2>2 DEF Resolve
<1>8. ASSUME NEW f \in Fetchers, NoRecord(f) PROVE Resolving'
  BY <1>6, <1>8 DEF NoRecord
<1>9. ASSUME NEW f \in Fetchers, FetchBytes(f) PROVE Resolving'
  BY <1>2, <1>9, AnsweredValue DEF FetchBytes
<1>10. ASSUME NEW f \in Fetchers, AskApi(f) PROVE Resolving'
  BY <1>2, <1>10, AnsweredValue DEF AskApi
\* The line that is buffered names a blob that is in the bucket.
<1>11. ASSUME NEW f \in Fetchers, run[f].pc \in {"put", "index"},
              Becomes(f, Written(f)), UNCHANGED <<stored, durable>>,
              DigestOf(Piece(f)) \in stored, indexed' \subseteq stored
       PROVE  Resolving'
  <2>1. /\ run'[f].buffer = run[f].buffer \cup Lines(f)
        /\ run'[f].pc # "index"
        /\ \A g \in Fetchers \ {f} : run'[g] = run[g]
    BY <1>11, WrittenValue, BecomesValue
  <2>2. \A r \in Lines(f) : DigestOf(r) \in stored
    BY <1>11 DEF Lines
  <2> QED BY <1>0, <1>11, <2>1, <2>2, BlobsStep
<1>12. ASSUME NEW f \in Fetchers, Put(f) PROVE Resolving'
  <2>1. CASE DigestOf(Piece(f)) \in indexed /\ Becomes(f, Written(f)) /\ UNCHANGED stored
    BY <1>1, <1>11, <1>12, <2>1 DEF Put
  <2>2. CASE stored' = stored \cup {DigestOf(Piece(f))} /\ Goto(f, "index")
    <3>1. /\ run'[f].cur = run[f].cur /\ run'[f].pieces = run[f].pieces
          /\ run'[f].channel = run[f].channel /\ run'[f].buffer = run[f].buffer
          /\ \A g \in Fetchers \ {f} : run'[g] = run[g]
      BY <2>2, GotoValue
    <3>2. DigestOf(Piece(f))' = DigestOf(Piece(f))
      BY <3>1 DEF Piece, DigestOf
    <3> QED BY <1>0, <1>1, <1>12, <2>2, <3>1, <3>2, BlobsStep DEF Put
  <2> QED BY <1>12, <2>1, <2>2 DEF Put
<1>13. ASSUME NEW f \in Fetchers, RecordBlob(f) PROVE Resolving'
  <2>1. DigestOf(Piece(f)) \in stored
    BY <1>13 DEF RecordBlob, Resolving, BlobsFirst
  <2> QED BY <1>1, <1>11, <1>13, <2>1 DEF RecordBlob
<1>14. ASSUME NEW f \in Fetchers, Seal(f) PROVE Resolving'
  <2>1. /\ run'[f].pc # "index"
        /\ run'[f].buffer \subseteq run[f].buffer \cup {Negative(run[f].cur)}
        /\ \A g \in Fetchers \ {f} : run'[g] = run[g]
    BY <1>14, SealValue
  <2>2. Negative(run[f].cur).kind = "none"
    BY DEF Negative
  <2> QED BY <1>0, <1>1, <1>14, <2>1, <2>2, BlobsStep DEF Seal
<1>15. ASSUME NEW f \in Fetchers, Flush(f) PROVE Resolving'
  BY <1>2, <1>15, FlushValue DEF Flush
<1>16. ASSUME NEW f \in Fetchers, Mark(f) PROVE Resolving'
  BY <1>2, <1>16, MarkValue DEF Mark
<1>17. ASSUME NEW f \in Fetchers, Release(f) PROVE Resolving'
  BY <1>2, <1>17, GotoValue DEF Release
<1>18. ASSUME NEW f \in Fetchers, Commit(f) PROVE Resolving'
  BY <1>2, <1>18, DieValue DEF Commit
<1>19. ASSUME NEW f \in Fetchers, LastFails(f) PROVE Resolving'
  BY <1>6, <1>19 DEF LastFails, PartUncertain
<1>20. ASSUME NEW f \in Fetchers, Fail(f) PROVE Resolving'
  BY <1>6, <1>20 DEF Fail, PartUncertain
<1>21. ASSUME NEW f \in Fetchers, FailTwice(f) PROVE Resolving'
  BY <1>6, <1>21 DEF FailTwice, PartUncertain
<1>22. ASSUME NEW f \in Fetchers, Refused(f) PROVE Resolving'
  BY <1>6, <1>22 DEF Refused
<1>23. ASSUME NEW f \in Fetchers, Crash(f) PROVE Resolving'
  BY <1>2, <1>23, DieValue DEF Crash
<1>24. ASSUME NEW f \in Fetchers, LoseDatabase(f) PROVE Resolving'
  BY <1>2, <1>24, DieValue DEF LoseDatabase
<1>25. ASSUME NEW a \in Artifacts, Lapse(a) PROVE Resolving'
  BY <1>25 DEF Lapse, Resolving, RecordsResolve, BlobsFirst, DigestOf, Piece
<1>26. CASE UNCHANGED vars
  BY <1>26 DEF vars, Resolving, RecordsResolve, BlobsFirst, DigestOf, Piece
<1>27. ASSUME NEW f \in Fetchers, RefusedTwice(f) PROVE Resolving'
  BY <1>2, <1>27, RefusedTwiceValue DEF RefusedTwice
<1> QED
  BY <1>3, <1>4, <1>5, <1>7, <1>8, <1>9, <1>10, <1>12, <1>13, <1>14, <1>15,
     <1>16, <1>17, <1>18, <1>19, <1>20, <1>21, <1>22, <1>23, <1>24, <1>25, <1>26, <1>27
  DEF Next, Proceed, Disturb

\* No manifest line in the bucket names a payload the bucket lacks, also when
\* the put was skipped because another run's blob has the same digest.
THEOREM RecordsResolved == Spec => []RecordsResolve
<1>1. TypeOK /\ Resolving /\ [Next]_vars => (TypeOK /\ Resolving)'
  BY NextType, NextResolving
<1>2. Init => TypeOK /\ Resolving
  BY InitType, InitResolving
<1>3. TypeOK /\ Resolving => RecordsResolve
  BY DEF Resolving
<1> QED BY <1>1, <1>2, <1>3, PTL DEF Spec

----------------------------------------------------------------------------
\* A run that ends cleanly holds no lease.

HeldBy(a, f) == row[a].state = "leased" /\ row[a].holder = f

\* f's process moves; no other run gains a lease.
LEMMA LeaseStep ==
  ASSUME LeasesAreOwed, NEW f \in Fetchers,
         \A g \in Fetchers \ {f} : run'[g] = run[g],
         \A g \in Fetchers \ {f}, a \in Artifacts : HeldBy(a, g)' => HeldBy(a, g),
         \A a \in Artifacts : HeldBy(a, f)' =>
           /\ run'[f].pc # "idle"
           /\ \/ a \in run'[f].stranded
              \/ run'[f].pc # "commit" /\ a \in Owed(run'[f])
  PROVE  LeasesAreOwed'
BY DEF LeasesAreOwed, HeldBy, Owed

\* Finishing a row ends whatever lease it was under.
LEMMA FinishHeld ==
  ASSUME TypeOK, NEW a \in Artifacts, NEW s \in States \ {"leased"}, NEW e,
         Finish(a, s, e)
  PROVE  \A b \in Artifacts, g \in Fetchers :
           HeldBy(b, g)' => HeldBy(b, g) /\ b # a
BY DEF TypeOK, Finish, HeldBy

LEMMA ReleaseHeld ==
  ASSUME TypeOK, NEW as, ReleaseRows(as)
  PROVE  \A b \in Artifacts, g \in Fetchers :
           HeldBy(b, g)' => HeldBy(b, g) /\ b \notin as
<1>1. ASSUME NEW b \in Artifacts, NEW g \in Fetchers, HeldBy(b, g)'
      PROVE  HeldBy(b, g) /\ b \notin as
  <2>1. row'[b] = IF b \in as /\ row[b].state = "leased"
                  THEN [Leased(b, NoFetcher) EXCEPT !.state = "pending"]
                  ELSE row[b]
    BY DEF ReleaseRows
  <2>2. row[b] \in Row
    BY DEF TypeOK
  <2>3. [Leased(b, NoFetcher) EXCEPT !.state = "pending"].state = "pending"
    BY <2>2 DEF Leased, Row
  <2>4. row'[b].state = "leased" /\ row'[b].holder = g
    BY <1>1 DEF HeldBy
  <2>5. CASE b \in as /\ row[b].state = "leased"
    BY <2>1, <2>3, <2>4, <2>5
  <2>6. CASE ~(b \in as /\ row[b].state = "leased")
    BY <2>1, <2>4, <2>6 DEF HeldBy
  <2> QED BY <2>5, <2>6
<1> QED BY <1>1

LEMMA DieHeld ==
  ASSUME TypeOK, NEW f \in Fetchers, Die(f)
  PROVE  \A b \in Artifacts, g \in Fetchers :
           HeldBy(b, g)' => HeldBy(b, g) /\ g # f
<1>1. ASSUME NEW b \in Artifacts, NEW g \in Fetchers, HeldBy(b, g)'
      PROVE  HeldBy(b, g) /\ g # f
  <2>1. row'[b] = IF row[b].holder = f
                  THEN [row[b] EXCEPT !.holder = NoFetcher] ELSE row[b]
    BY DEF Die
  <2>2. row[b] \in Row
    BY DEF TypeOK
  <2>3. [row[b] EXCEPT !.holder = NoFetcher].holder = NoFetcher
    BY <2>2 DEF Row
  <2>4. row'[b].state = "leased" /\ row'[b].holder = g
    BY <1>1 DEF HeldBy
  <2>5. row[b].holder # f
    BY <2>1, <2>3, <2>4
  <2> QED BY <2>1, <2>4, <2>5 DEF HeldBy
<1> QED BY <1>1

LEMMA InitLeases == Init => LeasesAreOwed
BY DEF Init, LeasesAreOwed

LEMMA NextLeases == TypeOK /\ LeasesAreOwed /\ [Next]_vars => LeasesAreOwed'
<1> SUFFICES ASSUME TypeOK, LeasesAreOwed, [Next]_vars PROVE LeasesAreOwed'
  OBVIOUS
<1>0. \A f \in Fetchers : run[f] \in Run /\ WellFormed(run[f])
  BY DEF TypeOK
<1>1. \A f \in Fetchers, a \in Artifacts : HeldBy(a, f) =>
        /\ run[f].pc # "idle"
        /\ \/ a \in run[f].stranded
           \/ /\ run[f].pc # "commit" /\ a \in Owed(run[f])
              /\ a \in run[f].unprocessed \cup run[f].undurable
  BY <1>0 DEF LeasesAreOwed, HeldBy, Owed, WellFormed
\* Steps that leave the rows alone, and what the run owes.
<1>2. ASSUME NEW f \in Fetchers, \A g \in Fetchers \ {f} : run'[g] = run[g],
             UNCHANGED row,
             run[f].pc \notin {"mark", "lastmark"},
             run'[f].pc \notin {"mark", "lastmark", "idle", "commit"},
             run'[f].unprocessed = run[f].unprocessed,
             run'[f].undurable = run[f].undurable,
             run'[f].stranded = run[f].stranded
      PROVE  LeasesAreOwed'
  BY <1>1, <1>2, LeaseStep DEF HeldBy, Owed
<1>3. ASSUME NEW f \in Fetchers, Claim(f) PROVE LeasesAreOwed'
  <2>0. PICK batch \in SUBSET Claimable : Takes(f, batch)
    BY <1>3, ClaimValue
  <2>1. /\ \A a \in Artifacts \ batch : row'[a] = row[a]
        /\ \A a \in batch : row'[a].state = "leased" /\ row'[a].holder = f
        /\ run'[f].pc = "loop" /\ run'[f].unprocessed = batch
        /\ run'[f].undurable = {}
        /\ \A g \in Fetchers \ {f} : run'[g] = run[g]
    BY <2>0 DEF Takes
  <2>2. \A a \in Artifacts : ~ HeldBy(a, f)
    BY <1>1, <1>3 DEF Claim
  <2>3. \A g \in Fetchers \ {f}, a \in Artifacts : HeldBy(a, g)' => HeldBy(a, g)
    BY <2>1 DEF HeldBy
  <2>4. \A a \in Artifacts : HeldBy(a, f)' => a \in batch
    BY <2>1, <2>2 DEF HeldBy
  <2> QED BY <2>1, <2>3, <2>4, LeaseStep DEF Owed
<1>4. ASSUME NEW f \in Fetchers, Pick(f) PROVE LeasesAreOwed'
  <2>1. PICK a \in run[f].todo :
          Becomes(f, [run[f] EXCEPT !.pc = "resolve", !.cur = a, !.todo = @ \ {a}])
    BY <1>4 DEF Pick
  <2> DEFINE n == [run[f] EXCEPT !.pc = "resolve", !.cur = a, !.todo = @ \ {a}]
  <2>2. /\ n.pc = "resolve" /\ n.undurable = run[f].undurable
        /\ n.unprocessed = run[f].unprocessed /\ n.stranded = run[f].stranded
    BY <1>0 DEF Run
  <2>3. Becomes(f, n)
    BY <2>1
  <2> HIDE DEF n
  <2> QED BY <1>2, <1>4, <2>2, <2>3, BecomesValue DEF Pick
<1>5. ASSUME NEW f \in Fetchers, EndLoop(f) PROVE LeasesAreOwed'
  BY <1>2, <1>5, GotoValue DEF EndLoop
\* Steps that finish the row in hand and put it down.
<1>6. ASSUME NEW f \in Fetchers, NEW s \in {"loop", "lastflush"}, NEW u,
             \/ Becomes(f, [PutDown(run[f], s) EXCEPT !.unprocessed = u])
             \/ Becomes(f, PutDown(run[f], s)) /\ u = run[f].unprocessed,
             NEW a \in Artifacts, NEW t \in States \ {"leased"}, NEW e,
             Finish(a, t, e), run[f].unprocessed \ {a} \subseteq u
      PROVE  LeasesAreOwed'
  <2>1. /\ run'[f].pc = s /\ run'[f].undurable = run[f].undurable
        /\ run'[f].unprocessed = u /\ run'[f].stranded = run[f].stranded
        /\ \A g \in Fetchers \ {f} : run'[g] = run[g]
    <3>1. s \in Steps \ InHand
      BY DEF Steps, InHand
    <3>2. \/ Becomes(f, [PutDown(run[f], s) EXCEPT !.unprocessed = u])
          \/ Becomes(f, PutDown(run[f], s)) /\ u = run[f].unprocessed
      BY <1>6
    <3>3. CASE Becomes(f, [PutDown(run[f], s) EXCEPT !.unprocessed = u])
      <4>1. Becomes(f, Dropped(run[f], s, u))
        BY <3>3 DEF Dropped
      <4> QED BY <3>1, <4>1, PutDownDrops
    <3>4. CASE Becomes(f, PutDown(run[f], s)) /\ u = run[f].unprocessed
      BY <1>0, <3>1, <3>4, PutDownOnly
    <3> QED BY <3>2, <3>3, <3>4
  <2>2. \A b \in Artifacts, g \in Fetchers : HeldBy(b, g)' => HeldBy(b, g) /\ b # a
    BY <1>6, FinishHeld
  <2>3. \A b \in Artifacts : HeldBy(b, f)' =>
          b \in run'[f].unprocessed \cup run'[f].undurable \cup run'[f].stranded
    BY <1>1, <1>6, <2>1, <2>2
  <2> QED BY <2>1, <2>2, <2>3, LeaseStep DEF Owed
\* Steps that put it down without finishing a row.
<1>7. ASSUME NEW f \in Fetchers, NEW s \in {"lastflush", "release"},
             Becomes(f, PutDown(run[f], s)), UNCHANGED row
      PROVE  LeasesAreOwed'
  <2>1. /\ run'[f].pc = s /\ run'[f].undurable = run[f].undurable
        /\ run'[f].unprocessed = run[f].unprocessed
        /\ run'[f].stranded = run[f].stranded
        /\ \A g \in Fetchers \ {f} : run'[g] = run[g]
    <3>1. s \in Steps \ InHand
      BY DEF Steps, InHand
    <3> QED BY <1>0, <1>7, <3>1, PutDownOnly
  <2>2. \A b \in Artifacts, g \in Fetchers : HeldBy(b, g)' => HeldBy(b, g)
    BY <1>7 DEF HeldBy
  <2>3. \A b \in Artifacts : HeldBy(b, f)' =>
          b \in run'[f].unprocessed \cup run'[f].undurable \cup run'[f].stranded
    BY <1>1, <2>1, <2>2
  <2> QED BY <2>1, <2>2, <2>3, LeaseStep DEF Owed
<1>8. ASSUME NEW f \in Fetchers, Resolve(f) PROVE LeasesAreOwed'
  <2>1. run[f].cur \in Artifacts
    BY <1>8, <1>0 DEF Resolve, Run, WellFormed
  <2>2. CASE Goto(f, "bytes") /\ UNCHANGED row
    BY <1>2, <1>8, <2>2, GotoValue DEF Resolve
  <2>3. CASE /\ Finish(run[f].cur, "skipped", "barren")
             /\ Becomes(f, [PutDown(run[f], "loop") EXCEPT
                              !.unprocessed = @ \ {run[f].cur}])
    <3>1. PutDown(run[f], "loop").unprocessed = run[f].unprocessed
      BY <1>0, PutDownType
    <3> QED BY <1>6, <2>1, <2>3, <3>1
  <2> QED BY <1>8, <2>2, <2>3 DEF Resolve
<1>9. ASSUME NEW f \in Fetchers, NoRecord(f) PROVE LeasesAreOwed'
  <2>1. run[f].cur \in Artifacts
    BY <1>9, <1>0 DEF NoRecord, Run, WellFormed
  <2> QED BY <1>6, <1>9, <2>1 DEF NoRecord
<1>10. ASSUME NEW f \in Fetchers, FetchBytes(f) PROVE LeasesAreOwed'
  BY <1>2, <1>10, AnsweredValue DEF FetchBytes
<1>11. ASSUME NEW f \in Fetchers, AskApi(f) PROVE LeasesAreOwed'
  BY <1>2, <1>11, AnsweredValue DEF AskApi
<1>12. ASSUME NEW f \in Fetchers, Put(f) PROVE LeasesAreOwed'
  <2>1. CASE Becomes(f, Written(f))
    BY <1>2, <1>12, <2>1, WrittenValue, BecomesValue DEF Put
  <2>2. CASE Goto(f, "index")
    BY <1>2, <1>12, <2>2, GotoValue DEF Put
  <2> QED BY <1>12, <2>1, <2>2 DEF Put
<1>13. ASSUME NEW f \in Fetchers, RecordBlob(f) PROVE LeasesAreOwed'
  BY <1>2, <1>13, WrittenValue, BecomesValue DEF RecordBlob
<1>14. ASSUME NEW f \in Fetchers, Seal(f) PROVE LeasesAreOwed'
  <2>1. /\ run'[f].undurable = run[f].undurable \cup {run[f].cur}
        /\ run'[f].unprocessed = run[f].unprocessed \ {run[f].cur}
        /\ run'[f].pc \in {"flush", "loop"}
        /\ run'[f].stranded = run[f].stranded
        /\ \A g \in Fetchers \ {f} : run'[g] = run[g]
    BY <1>14, SealValue
  <2>2. UNCHANGED row
    BY <1>14 DEF Seal
  <2> QED BY <1>1, <2>1, <2>2, LeaseStep DEF HeldBy, Owed
<1>15. ASSUME NEW f \in Fetchers, Flush(f) PROVE LeasesAreOwed'
  <2>1. UNCHANGED row
    BY <1>15 DEF Flush
  <2>2. \A a \in Artifacts : HeldBy(a, f)' =>
          a \in run[f].unprocessed \cup run[f].undurable \cup run[f].stranded
    BY <1>1, <2>1 DEF HeldBy
  <2> QED BY <1>15, <2>1, <2>2, FlushValue, LeaseStep DEF HeldBy, Owed
<1>16. ASSUME NEW f \in Fetchers, Mark(f) PROVE LeasesAreOwed'
  <2>1. PICK a \in run[f].marking :
           /\ Finish(a, "done", "none")
           /\ run'[f].unprocessed = run[f].unprocessed
           /\ run'[f].stranded = run[f].stranded
           /\ \/ /\ run'[f].marking = run[f].marking \ {a}
                 /\ run'[f].pc = run[f].pc
              \/ /\ run[f].marking = {a}
                 /\ run'[f].pc \in {"loop", "release"}
           /\ \A g \in Fetchers \ {f} : run'[g] = run[g]
    BY <1>16, MarkValue
  <2>2. a \in Artifacts
    BY <1>0 DEF Run
  <2>3. \A b \in Artifacts, g \in Fetchers : HeldBy(b, g)' => HeldBy(b, g) /\ b # a
    BY <2>1, <2>2, FinishHeld
  <2>4. run[f].pc \in {"mark", "lastmark"}
    BY <1>16 DEF Mark
  <2>5. \A b \in Artifacts : HeldBy(b, f)' =>
          b \in run[f].unprocessed \cup (run[f].marking \ {a}) \cup run[f].stranded
    BY <1>1, <2>3, <2>4 DEF Owed
  <2> QED BY <2>1, <2>3, <2>4, <2>5, LeaseStep DEF Owed
<1>17. ASSUME NEW f \in Fetchers, Release(f) PROVE LeasesAreOwed'
  <2>1. \A b \in Artifacts, g \in Fetchers :
          HeldBy(b, g)' => /\ HeldBy(b, g)
                           /\ b \notin run[f].unprocessed \cup run[f].undurable
    BY <1>17, ReleaseHeld DEF Release
  <2>2. /\ run'[f].pc = "commit" /\ run'[f].stranded = run[f].stranded
        /\ \A g \in Fetchers \ {f} : run'[g] = run[g]
    BY <1>17, GotoValue DEF Release
  <2> QED BY <1>1, <2>1, <2>2, LeaseStep
<1>18. ASSUME NEW f \in Fetchers, RefusedTwice(f) PROVE LeasesAreOwed'
  <2>1. UNCHANGED row
    BY <1>18 DEF RefusedTwice
  <2>2. \A b \in Artifacts : HeldBy(b, f)' =>
          b \in run[f].unprocessed \cup run[f].undurable \cup run[f].stranded
    BY <1>1, <2>1 DEF HeldBy
  <2> QED BY <1>18, <2>1, <2>2, RefusedTwiceValue, LeaseStep DEF HeldBy, Owed
<1>19. ASSUME NEW f \in Fetchers, LastFails(f) PROVE LeasesAreOwed'
  BY <1>7, <1>19 DEF LastFails
<1>20. ASSUME NEW f \in Fetchers, Fail(f) PROVE LeasesAreOwed'
  <2>1. run[f].cur \in Artifacts
    BY <1>20, <1>0 DEF Fail, Risky, Run, WellFormed
  <2>2. PutDown(run[f], "loop").unprocessed = run[f].unprocessed
    BY <1>0, PutDownType
  <2> QED BY <1>6, <1>20, <2>1, <2>2 DEF Fail
<1>21. ASSUME NEW f \in Fetchers, FailTwice(f) PROVE LeasesAreOwed'
  BY <1>7, <1>21 DEF FailTwice
<1>22. ASSUME NEW f \in Fetchers, Refused(f) PROVE LeasesAreOwed'
  <2>1. run[f].cur \in Artifacts
    BY <1>22, <1>0 DEF Refused, Run, WellFormed
  <2>2. PutDown(run[f], "lastflush").unprocessed = run[f].unprocessed
    BY <1>0, PutDownType
  <2> QED BY <1>6, <1>22, <2>1, <2>2 DEF Refused
<1>23. ASSUME NEW f \in Fetchers, Commit(f) \/ Crash(f) \/ LoseDatabase(f)
       PROVE  LeasesAreOwed'
  <2>1. \A b \in Artifacts, g \in Fetchers : HeldBy(b, g)' => HeldBy(b, g) /\ g # f
    BY <1>23, DieHeld DEF Commit, Crash, LoseDatabase
  <2>2. \A g \in Fetchers \ {f} : run'[g] = run[g]
    BY <1>23, DieValue DEF Commit, Crash, LoseDatabase
  <2> QED BY <2>1, <2>2, LeaseStep
<1>24. ASSUME NEW a \in Artifacts, Lapse(a) PROVE LeasesAreOwed'
  <2>1. \A b \in Artifacts : row'[b].state = row[b].state /\ row'[b].holder = row[b].holder
    BY <1>24 DEF Lapse, TypeOK, Row
  <2> QED BY <1>24, <2>1 DEF Lapse, LeasesAreOwed, Owed
<1>25. CASE UNCHANGED vars
  BY <1>25 DEF vars, LeasesAreOwed, Owed
<1> QED
  BY <1>3, <1>4, <1>5, <1>8, <1>9, <1>10, <1>11, <1>12, <1>13, <1>14, <1>15,
     <1>16, <1>17, <1>18, <1>19, <1>20, <1>21, <1>22, <1>23, <1>24, <1>25
  DEF Next, Proceed, Disturb

\* A run that reaches its last step has handed back every lease it took, also
\* after a refusal, an early stop or a flush that failed, but for the row whose
\* refusal it could not record.
THEOREM CleanExit == Spec => []CleanExitHoldsNoLease
<1>1. TypeOK /\ LeasesAreOwed /\ [Next]_vars => (TypeOK /\ LeasesAreOwed)'
  BY NextType, NextLeases
<1>2. Init => TypeOK /\ LeasesAreOwed
  BY InitType, InitLeases
<1>3. TypeOK /\ LeasesAreOwed => CleanExitHoldsNoLease
  BY DEF LeasesAreOwed, CleanExitHoldsNoLease
<1> QED BY <1>1, <1>2, <1>3, PTL DEF Spec

\* The whole inductive invariant.
THEOREM Invariant == Spec => []IInv
<1>1. IInv <=> TypeOK /\ Durability /\ Resolving /\ LeasesAreOwed
  BY DEF IInv, Durability, Resolving
<1>2. Init => IInv
  BY <1>1, InitType, InitDurability, InitResolving, InitLeases
<1>3. IInv /\ [Next]_vars => IInv'
  BY NextType, NextDurability, NextResolving, NextLeases
  DEF IInv, Durability, Resolving
<1> QED BY <1>2, <1>3, PTL DEF Spec

----------------------------------------------------------------------------
\* One fetcher at a time keeps the promise of CaptureContract.

\* `concurrencyPolicy: Forbid` keeps the CronJob's runs apart (migrate.py:13);
\* a run started by hand beside it would be a second fetcher.
OneFetcher == \A f, g \in Fetchers : f = g

\* What a run may still skip, fail or hand back is leased, and nothing it may
\* mark done was ever skipped.  No statement of the code looks at the state it
\* overwrites: this is what stands in for the missing guards.
Owns(r) ==
  /\ r.pc \in InHand \cup {"loop"} =>
       \A a \in r.todo : row[a].state = "leased" /\ a \notin r.undurable
  /\ r.pc \in InHand => row[r.cur].state = "leased"
  /\ r.pc \in InHand \ {"flush", "mark"} => r.cur \notin r.undurable
  /\ r.pc # "commit" => \A a \in r.undurable : row[a].state \in {"leased", "failed", "done"}
Owning == \A f \in Fetchers : Owns(run[f])

LEMMA NextTyped == IInv /\ [Next]_vars => TypeOK'
BY NextType DEF IInv

\* With one fetcher its own process is all there is to look at.
LEMMA OwnsAll ==
  ASSUME OneFetcher, NEW f \in Fetchers, Owns(run[f])'
  PROVE  Owning'
BY DEF OneFetcher, Owning

\* A step with an artifact in hand that leaves the rows alone.
LEMMA HandKept ==
  ASSUME OneFetcher, TypeOK, Owning, NEW f \in Fetchers, NEW n, Becomes(f, n),
         UNCHANGED row, run[f].pc \in InHand \ {"flush", "mark"},
         n.pc \in InHand \ {"flush", "mark"}, n.cur = run[f].cur,
         n.todo = run[f].todo, n.undurable = run[f].undurable
  PROVE  Owning'
<1>1. run'[f] = n
  BY BecomesValue
<1>2. Owns(run[f])
  BY DEF Owning
<1>3. Owns(run[f])'
  BY <1>1, <1>2 DEF Owns
<1> QED BY <1>3, OwnsAll

\* A step that puts down the artifact in hand, if any; a row it writes is not
\* one the run has still to do, and may be marked done later unless skipped.
LEMMA HandDropped ==
  ASSUME OneFetcher, TypeOK, Owning, NEW f \in Fetchers,
         NEW s \in {"loop", "lastflush", "release"}, NEW u,
         \/ Becomes(f, [PutDown(run[f], s) EXCEPT !.unprocessed = u])
         \/ Becomes(f, PutDown(run[f], s)),
         s = "loop" => run[f].pc \in InHand,
         run[f].pc # "commit",
         \/ UNCHANGED row
         \/ /\ run[f].pc \in InHand
            /\ \E e : \/ Finish(run[f].cur, "failed", e)
                      \/ /\ run[f].pc \notin {"flush", "mark"}
                         /\ \E t \in {"skipped", "pending"} : Finish(run[f].cur, t, e)
  PROVE  Owning'
<1>1. Owns(run[f]) /\ run[f] \in Run /\ WellFormed(run[f])
  BY DEF Owning, TypeOK
<1> DEFINE p == PutDown(run[f], s)
           q == [p EXCEPT !.unprocessed = u]
<1>2. /\ p \in Run /\ p.pc = s /\ p.todo = run[f].todo /\ p.undurable = run[f].undurable
      /\ p.cur = NoArtifact
  <2>1. s \in Steps \ InHand
    OBVIOUS
  <2> QED BY <1>1, <2>1, PutDownType
<1>3. /\ q.pc = s /\ q.todo = run[f].todo /\ q.undurable = run[f].undurable
  <2> HIDE DEF p
  <2> QED BY <1>2 DEF Run
<1>4. run'[f] \in {p, q}
  <2> HIDE DEF p, q
  <2>1. Becomes(f, q) \/ Becomes(f, p)
    BY DEF p, q
  <2> QED BY <2>1, BecomesValue
<1> HIDE DEF p, q
<1>5. /\ run'[f].pc = s /\ run'[f].todo = run[f].todo
      /\ run'[f].undurable = run[f].undurable
  BY <1>2, <1>3, <1>4
<1>6. run[f].todo \subseteq Artifacts /\ run[f].undurable \subseteq Artifacts
  BY <1>1 DEF Run
<1>7. CASE UNCHANGED row
  <2>1. Owns(run[f])'
    BY <1>1, <1>5, <1>7 DEF Owns
  <2> QED BY <2>1, OwnsAll
<1>8. ASSUME run[f].pc \in InHand, NEW t, NEW e, Finish(run[f].cur, t, e),
             t = "failed" \/ run[f].pc \notin {"flush", "mark"}
      PROVE  Owning'
  <2>1. run[f].cur \in Artifacts /\ run[f].cur \notin run[f].todo
    BY <1>1, <1>8 DEF Run, WellFormed
  <2>2. \A b \in Artifacts : row'[b].state = IF b = run[f].cur THEN t ELSE row[b].state
    BY <1>8, <2>1, FinishState
  <2>3. t # "failed" => run[f].cur \notin run[f].undurable
    BY <1>1, <1>8 DEF Owns
  <2>4. \A a \in run[f].todo : row'[a].state = "leased" /\ a \notin run[f].undurable
    BY <1>1, <1>6, <1>8, <2>1, <2>2 DEF Owns
  <2>5. \A a \in run[f].undurable : row'[a].state \in {"leased", "failed", "done"}
    BY <1>1, <1>6, <1>8, <2>2, <2>3 DEF Owns
  <2>6. Owns(run[f])'
    BY <1>5, <2>4, <2>5 DEF Owns
  <2> QED BY <2>6, OwnsAll
<1> QED BY <1>7, <1>8

LEMMA InitOwning == Init => Owning
BY DEF Init, Owning, Owns, Idle

LEMMA SealOwning ==
  ASSUME OneFetcher, TypeOK, Owning, NEW f \in Fetchers, Seal(f)
  PROVE  Owning'
<1> DEFINE r    == run[f]
           und  == r.undurable \cup {r.cur}
           full == Cardinality(und) >= FlushEvery
           buf  == IF r.wrote = {} THEN {Negative(r.cur)} ELSE r.wrote
           held == IF full THEN [r EXCEPT !.pc = "flush"] ELSE PutDown(r, "loop")
           n    == [held EXCEPT !.buffer = IF r.wrote = {} THEN @ \cup buf ELSE @,
                                !.undurable = und, !.unprocessed = @ \ {r.cur}]
<1>1. /\ r \in Run /\ WellFormed(r) /\ Owns(r) /\ r.cur \in Artifacts
      /\ r.pc = "seal" /\ r.cur \notin r.todo /\ row' = row
  BY DEF Seal, TypeOK, Run, WellFormed, Owning
<1>2. /\ held \in Run /\ held.todo = r.todo
      /\ (held.pc = "loop" \/ (held.pc = "flush" /\ held.cur = r.cur))
  <2>1. CASE full
    <3> DEFINE h == [r EXCEPT !.pc = "flush"]
    <3>1. h \in Run /\ h.pc = "flush" /\ h.todo = r.todo /\ h.cur = r.cur
      BY <1>1 DEF Run
    <3>2. held = h
      BY <2>1
    <3> HIDE DEF held, h
    <3> QED BY <3>1, <3>2
  <2>2. CASE ~full
    <3> DEFINE h == PutDown(r, "loop")
    <3>1. h \in Run /\ h.pc = "loop" /\ h.todo = r.todo
      BY <1>1, PutDownType
    <3>2. held = h
      BY <2>2
    <3> HIDE DEF held, h
    <3>3. held \in Run /\ held.todo = r.todo /\ held.pc = "loop"
      BY <3>1, <3>2
    <3> QED BY <3>3
  <2> QED BY <2>1, <2>2
<1>3. Becomes(f, n)
  BY DEF Seal
<1>4. /\ n.undurable = und /\ n.todo = r.todo
      /\ (n.pc = "loop" \/ (n.pc = "flush" /\ n.cur = r.cur))
  <2> HIDE DEF held, buf, und
  <2> QED BY <1>1, <1>2 DEF Run
<1>5. run'[f] = n
  <2> HIDE DEF n
  <2> QED BY <1>3, BecomesValue
<1> HIDE DEF n
<1>6. Owns(run[f])'
  BY <1>1, <1>4, <1>5 DEF Owns
<1> QED BY <1>6, OwnsAll

LEMMA MarkOwning ==
  ASSUME OneFetcher, TypeOK, Owning, NEW f \in Fetchers, Mark(f)
  PROVE  Owning'
<1> DEFINE r == run[f]
<1>1. PICK a \in r.marking :
        LET left == r.marking \ {a} IN
        /\ r.pc = "mark" /\ a = r.cur => left = {}
        /\ Finish(a, "done", "none")
        /\ IF left # {}
           THEN Becomes(f, [r EXCEPT !.marking = left])
           ELSE Becomes(f, [PutDown(r, IF r.pc = "mark" THEN "loop" ELSE "release")
                              EXCEPT !.undurable = {}])
  BY DEF Mark
<1>2. /\ r \in Run /\ WellFormed(r) /\ Owns(r) /\ a \in r.undurable /\ a \in Artifacts
      /\ r.pc \in {"mark", "lastmark"}
      /\ r.todo \subseteq Artifacts /\ r.undurable \subseteq Artifacts
  BY DEF TypeOK, Owning, Run, WellFormed, Mark
<1>3. \A b \in Artifacts : row'[b].state = IF b = a THEN "done" ELSE row[b].state
  BY <1>1, <1>2, FinishState
<1>4. CASE r.marking \ {a} # {}
  <2> DEFINE m == [r EXCEPT !.marking = r.marking \ {a}]
  <2>1. /\ m.pc = r.pc /\ m.cur = r.cur /\ m.todo = r.todo /\ m.undurable = r.undurable
    BY <1>2 DEF Run
  <2>2. Becomes(f, m)
    BY <1>1, <1>4
  <2> HIDE DEF m
  <2>3. run'[f] = m
    BY <2>2, BecomesValue
  <2>4. r.pc = "mark" => a # r.cur /\ r.cur \in Artifacts
    BY <1>1, <1>2, <1>4 DEF Run, WellFormed
  <2>5. r.pc = "mark" => row'[r.cur].state = "leased"
    BY <1>2, <1>3, <2>4 DEF Owns
  <2>6. r.pc = "mark" => \A b \in r.todo : row'[b].state = "leased" /\ b \notin r.undurable
    BY <1>2, <1>3 DEF Owns
  <2>7. \A b \in r.undurable : row'[b].state \in {"leased", "failed", "done"}
    BY <1>2, <1>3 DEF Owns
  <2>8. Owns(run[f])'
    BY <1>2, <2>1, <2>3, <2>5, <2>6, <2>7 DEF Owns
  <2> QED BY <2>8, OwnsAll
<1>5. CASE r.marking \ {a} = {}
  <2> DEFINE s == IF r.pc = "mark" THEN "loop" ELSE "release"
             p == PutDown(r, s)
             n == [p EXCEPT !.undurable = {}]
  <2>1. s \in Steps \ InHand /\ (s = "loop" => r.pc = "mark") /\ s \in {"loop", "release"}
    OBVIOUS
  <2>2. Becomes(f, n)
    BY <1>1, <1>5
  <2> HIDE DEF s
  <2>3. p \in Run /\ p.pc = s /\ p.todo = r.todo
    BY <1>2, <2>1, PutDownType
  <2> HIDE DEF p
  <2>4. n.undurable = {} /\ n.pc = s /\ n.todo = r.todo
    BY <2>3 DEF Run
  <2> HIDE DEF n
  <2>5. run'[f] = n
    BY <2>2, BecomesValue
  <2>6. s = "loop" => \A b \in r.todo : row'[b].state = "leased"
    BY <1>2, <1>3, <2>1 DEF Owns
  <2>7. Owns(run[f])'
    BY <2>1, <2>4, <2>5, <2>6 DEF Owns
  <2> QED BY <2>7, OwnsAll
<1> QED BY <1>4, <1>5

LEMMA ClaimOwning ==
  ASSUME OneFetcher, TypeOK, Owning, NEW f \in Fetchers, Claim(f)
  PROVE  Owning'
<1>1. PICK batch \in SUBSET Claimable :
        /\ row' = [a \in Artifacts |-> IF a \in batch THEN Leased(a, f)
                                       ELSE row[a]]
        /\ Becomes(f, [Idle EXCEPT !.pc = "loop", !.todo = batch,
                                   !.unprocessed = batch])
  BY DEF Claim
<1>2. \A a \in Artifacts : Leased(a, f).state = "leased"
  BY DEF TypeOK, Leased, Row
<1>3. batch \subseteq Artifacts
  BY DEF Claimable
<1> DEFINE n == [Idle EXCEPT !.pc = "loop", !.todo = batch, !.unprocessed = batch]
<1>4. n.pc = "loop" /\ n.todo = batch /\ n.undurable = {}
  BY DEF Idle
<1>5. Becomes(f, n)
  BY <1>1
<1> HIDE DEF n
<1>6. run'[f] = n
  BY <1>5, BecomesValue
<1>7. \A a \in batch : row'[a].state = "leased"
  BY <1>1, <1>2, <1>3
<1>8. Owns(run[f])'
  BY <1>4, <1>6, <1>7 DEF Owns
<1> QED BY <1>8, OwnsAll

LEMMA PickOwning ==
  ASSUME OneFetcher, TypeOK, Owning, NEW f \in Fetchers, Pick(f)
  PROVE  Owning'
<1>1. PICK a \in run[f].todo :
        Becomes(f, [run[f] EXCEPT !.pc = "resolve", !.cur = a, !.todo = @ \ {a}])
  BY DEF Pick
<1> DEFINE n == [run[f] EXCEPT !.pc = "resolve", !.cur = a, !.todo = @ \ {a}]
<1>2. run[f] \in Run /\ Owns(run[f]) /\ run[f].pc = "loop" /\ row' = row
  BY DEF TypeOK, Owning, Pick
<1>3. /\ n.pc = "resolve" /\ n.cur = a /\ n.todo = run[f].todo \ {a}
      /\ n.undurable = run[f].undurable
  BY <1>2 DEF Run
<1>4. Becomes(f, n)
  BY <1>1
<1> HIDE DEF n
<1>5. run'[f] = n
  BY <1>4, BecomesValue
<1>6. Owns(run[f])'
  BY <1>2, <1>3, <1>5 DEF Owns
<1> QED BY <1>6, OwnsAll

\* A request that was answered, or a piece that was written.
LEMMA AnsweredOwning ==
  ASSUME OneFetcher, TypeOK, Owning, NEW f \in Fetchers, NEW c, NEW got, c \in Channels,
         Answered(f, c, got), UNCHANGED row, run[f].pc \in {"bytes", "api"}
  PROVE  Owning'
<1> DEFINE s == After(run[f].cur, c, got, run[f].wrote)
           n == [run[f] EXCEPT !.pieces = got, !.channel = c, !.pc = s]
<1>1. run[f] \in Run
  BY DEF TypeOK
<1>2. s \in {"put", "api", "seal"}
  BY AfterType
<1>3. Becomes(f, n)
  BY DEF Answered
<1>4. /\ n.pc = s /\ n.undurable = run[f].undurable
      /\ n.todo = run[f].todo /\ n.cur = run[f].cur
  <2> HIDE DEF s
  <2> QED BY <1>1 DEF Run
<1> HIDE DEF n, s
<1>5. n.pc \in InHand \ {"flush", "mark"}
  BY <1>2, <1>4
<1> QED BY <1>3, <1>4, <1>5, HandKept

LEMMA WrittenOwning ==
  ASSUME OneFetcher, TypeOK, Owning, NEW f \in Fetchers, Becomes(f, Written(f)),
         UNCHANGED row, run[f].pc \in {"put", "index"}
  PROVE  Owning'
<1> DEFINE p    == Piece(f)
           left == run[f].pieces \ {p.kind}
           all  == run[f].wrote \cup Lines(f)
           next == After(p.of, p.channel, left, all)
           n    == [run[f] EXCEPT !.pieces = left, !.buffer = @ \cup Lines(f),
                                  !.wrote = all, !.pc = next]
<1>1. run[f] \in Run
  BY DEF TypeOK
<1>2. Becomes(f, n)
  BY DEF Written
<1>3. n.todo = run[f].todo /\ n.cur = run[f].cur /\ n.undurable = run[f].undurable
  <2> HIDE DEF p, left, next
  <2> QED BY <1>1 DEF Run
<1>4. n.pc \in InHand \ {"flush", "mark"}
  <2>1. n = Written(f)
    BY DEF Written
  <2> QED BY <2>1, WrittenValue
<1> HIDE DEF n
<1> QED BY <1>2, <1>3, <1>4, HandKept

LEMMA FlushOwning ==
  ASSUME OneFetcher, TypeOK, Owning, NEW f \in Fetchers, Flush(f)
  PROVE  Owning'
<1> DEFINE s == CASE run[f].pc = "flush" -> "mark"
                  [] run[f].pc = "lastflush" /\ run[f].undurable = {} -> "release"
                  [] OTHER -> "lastmark"
           n == [run[f] EXCEPT !.buffer = {}, !.wrote = {},
                               !.marking = run[f].undurable, !.pc = s]
<1>1. run[f] \in Run /\ Owns(run[f]) /\ row' = row /\ run[f].pc \in {"flush", "lastflush"}
  BY DEF TypeOK, Owning, Flush
<1>2. /\ s \in {"mark", "lastmark", "release"}
      /\ s = "mark" => run[f].pc = "flush"
  BY <1>1
<1>3. Becomes(f, n)
  BY DEF Flush
<1>4. /\ n.undurable = run[f].undurable /\ n.todo = run[f].todo
      /\ n.cur = run[f].cur /\ n.pc = s
  <2> HIDE DEF s
  <2> QED BY <1>1 DEF Run
<1> HIDE DEF n, s
<1>5. run'[f] = n
  BY <1>3, BecomesValue
<1>6. Owns(run[f])'
  BY <1>1, <1>2, <1>4, <1>5 DEF Owns
<1> QED BY <1>6, OwnsAll

\* With one fetcher no row is lost under a run's hands.
LEMMA NextOwning ==
  OneFetcher /\ TypeOK /\ Owning /\ [Next]_vars => Owning'
<1> SUFFICES ASSUME OneFetcher, TypeOK, Owning, [Next]_vars PROVE Owning'
  OBVIOUS
<1>0. \A f \in Fetchers : /\ run[f] \in Run /\ WellFormed(run[f]) /\ Owns(run[f])
                          /\ (run[f].pc \in InHand => run[f].cur \in Artifacts)
                          /\ run[f].undurable \subseteq Artifacts
  BY DEF TypeOK, Owning, Run, WellFormed
<1>1. ASSUME NEW f \in Fetchers, EndLoop(f) PROVE Owning'
  <2>1. /\ run'[f].pc = "lastflush" /\ run'[f].undurable = run[f].undurable
        /\ row' = row /\ run[f].pc = "loop"
    BY <1>1, GotoValue DEF EndLoop
  <2>2. Owns(run[f])'
    BY <1>0, <2>1 DEF Owns
  <2> QED BY <2>2, OwnsAll
<1>2. ASSUME NEW f \in Fetchers, Resolve(f) PROVE Owning'
  <2>1. CASE Goto(f, "bytes") /\ UNCHANGED row
    <3> DEFINE n == [run[f] EXCEPT !.pc = "bytes"]
    <3>1. /\ n.pc = "bytes" /\ n.cur = run[f].cur /\ n.todo = run[f].todo
          /\ n.undurable = run[f].undurable
      BY <1>0 DEF Run
    <3>2. Becomes(f, n)
      BY <2>1 DEF Goto
    <3> HIDE DEF n
    <3> QED BY <1>2, <2>1, <3>1, <3>2, HandKept DEF Resolve
  <2>2. CASE /\ Finish(run[f].cur, "skipped", "barren")
             /\ Becomes(f, [PutDown(run[f], "loop") EXCEPT
                              !.unprocessed = @ \ {run[f].cur}])
    <3> DEFINE u == PutDown(run[f], "loop").unprocessed \ {run[f].cur}
    <3>1. Becomes(f, [PutDown(run[f], "loop") EXCEPT !.unprocessed = u])
      BY <2>2
    <3> HIDE DEF u
    <3>2. run[f].pc = "resolve"
      BY <1>2 DEF Resolve
    <3> QED BY <2>2, <3>1, <3>2, HandDropped
  <2> QED BY <1>2, <2>1, <2>2 DEF Resolve
<1>3. ASSUME NEW f \in Fetchers, NoRecord(f) PROVE Owning'
  <2>1. /\ run[f].pc = "resolve" /\ Finish(run[f].cur, "skipped", "gone")
        /\ Becomes(f, PutDown(run[f], "loop"))
    BY <1>3 DEF NoRecord
  <2> QED BY <2>1, HandDropped
<1>4. ASSUME NEW f \in Fetchers, FetchBytes(f) PROVE Owning'
  <2>1. PICK got : Answered(f, "bytes", got)
    BY <1>4 DEF FetchBytes
  <2>2. run[f].pc = "bytes" /\ UNCHANGED row
    BY <1>4 DEF FetchBytes
  <2> QED BY <2>1, <2>2, AnsweredOwning
<1>5. ASSUME NEW f \in Fetchers, AskApi(f) PROVE Owning'
  <2>1. PICK got : Answered(f, "api", got)
    BY <1>5 DEF AskApi
  <2>2. run[f].pc = "api" /\ UNCHANGED row
    BY <1>5 DEF AskApi
  <2> QED BY <2>1, <2>2, AnsweredOwning
<1>6. ASSUME NEW f \in Fetchers, Put(f) PROVE Owning'
  <2>1. CASE Becomes(f, Written(f))
    BY <1>6, <2>1, WrittenOwning DEF Put
  <2>2. CASE Goto(f, "index")
    <3> DEFINE n == [run[f] EXCEPT !.pc = "index"]
    <3>1. /\ n.pc = "index" /\ n.cur = run[f].cur /\ n.todo = run[f].todo
          /\ n.undurable = run[f].undurable
      BY <1>0 DEF Run
    <3>2. Becomes(f, n)
      BY <2>2 DEF Goto
    <3> HIDE DEF n
    <3> QED BY <1>6, <3>1, <3>2, HandKept DEF Put
  <2> QED BY <1>6, <2>1, <2>2 DEF Put
<1>7. ASSUME NEW f \in Fetchers, RecordBlob(f) PROVE Owning'
  BY <1>7, WrittenOwning DEF RecordBlob
<1>8. ASSUME NEW f \in Fetchers, LastFails(f) PROVE Owning'
  <2>1. /\ run[f].pc \in {"lastflush", "lastmark"} /\ UNCHANGED row
        /\ Becomes(f, PutDown(run[f], "release"))
    BY <1>8 DEF LastFails
  <2> QED BY <2>1, HandDropped
<1>9. ASSUME NEW f \in Fetchers, Release(f) PROVE Owning'
  <2>1. run'[f].pc = "commit"
    BY <1>9, GotoValue DEF Release
  <2>2. Owns(run[f])'
    BY <2>1 DEF Owns
  <2> QED BY <2>2, OwnsAll
<1>10. ASSUME NEW f \in Fetchers, Becomes(f, Idle) PROVE Owning'
  <2>1. run'[f].pc = "idle" /\ run'[f].undurable = {}
    BY <1>10, DieValue
  <2>2. Owns(run[f])'
    BY <2>1 DEF Owns
  <2> QED BY <2>2, OwnsAll
<1>11. ASSUME NEW f \in Fetchers, Commit(f) \/ Crash(f) \/ LoseDatabase(f) PROVE Owning'
  BY <1>10, <1>11 DEF Commit, Crash, LoseDatabase, Die
<1>12. ASSUME NEW f \in Fetchers, Fail(f) PROVE Owning'
  <2> DEFINE u == PutDown(run[f], "loop").unprocessed \ {run[f].cur}
  <2>1. Becomes(f, [PutDown(run[f], "loop") EXCEPT !.unprocessed = u])
    BY <1>12 DEF Fail
  <2>2. run[f].pc \in InHand /\ run[f].pc # "commit" /\ Finish(run[f].cur, "failed", "exception")
    BY <1>12 DEF Fail, Risky
  <2> HIDE DEF u
  <2> QED BY <2>1, <2>2, HandDropped
<1>13. ASSUME NEW f \in Fetchers, FailTwice(f) PROVE Owning'
  <2>1. /\ run[f].pc # "commit" /\ UNCHANGED row
        /\ Becomes(f, PutDown(run[f], "lastflush"))
    BY <1>13 DEF FailTwice, Risky
  <2> QED BY <2>1, HandDropped
<1>14. ASSUME NEW f \in Fetchers, Refused(f) PROVE Owning'
  <2> DEFINE u == PutDown(run[f], "lastflush").unprocessed \ {run[f].cur}
  <2>1. Becomes(f, [PutDown(run[f], "lastflush") EXCEPT !.unprocessed = u])
    BY <1>14 DEF Refused
  <2>2. /\ run[f].pc \in InHand /\ run[f].pc \notin {"flush", "mark", "commit"}
        /\ Finish(run[f].cur, "pending", "none")
    BY <1>14 DEF Refused
  <2> HIDE DEF u
  <2> QED BY <2>1, <2>2, HandDropped
<1>15. ASSUME NEW a \in Artifacts, Lapse(a) PROVE Owning'
  <2>1. \A b \in Artifacts : row'[b].state = row[b].state
    BY <1>15 DEF Lapse, TypeOK, Row
  <2>2. ASSUME NEW f \in Fetchers PROVE Owns(run[f])'
    <3>1. run' = run /\ run[f].todo \subseteq Artifacts
      BY <1>0, <1>15 DEF Lapse, Run
    <3> QED BY <1>0, <2>1, <3>1 DEF Owns
  <2> QED BY <2>2 DEF Owning
<1>16. CASE UNCHANGED vars
  BY <1>16 DEF vars, Owning, Owns
<1>17. ASSUME NEW f \in Fetchers, RefusedTwice(f) PROVE Owning'
  <2>1. /\ run'[f].pc = "lastflush" /\ run'[f].undurable = run[f].undurable
        /\ run[f].pc # "commit" /\ UNCHANGED row
    BY <1>17, RefusedTwiceValue DEF RefusedTwice
  <2>2. Owns(run[f])'
    BY <1>0, <2>1 DEF Owns
  <2> QED BY <2>2, OwnsAll
<1> QED
  BY <1>1, <1>2, <1>3, <1>4, <1>5, <1>6, <1>7, <1>8, <1>9, <1>11, <1>12, <1>13,
     <1>14, <1>15, <1>16, <1>17, ClaimOwning, PickOwning, SealOwning, FlushOwning,
     MarkOwning
  DEF Next, Proceed, Disturb

\* What is in the bucket, and what has been captured, only grows.
LEMMA CapturesStay ==
  TypeOK /\ [Next]_vars =>
    durable \subseteq durable' /\ \A a \in Artifacts : sealed[a] \subseteq sealed'[a]
<1> SUFFICES ASSUME TypeOK, [Next]_vars
             PROVE  durable \subseteq durable' /\ \A a \in Artifacts : sealed[a] \subseteq sealed'[a]
  OBVIOUS
<1>1. ASSUME NEW f \in Fetchers, Seal(f)
      PROVE  durable' = durable /\ \A a \in Artifacts : sealed[a] \subseteq sealed'[a]
  <2>1. \E recs : sealed' = [sealed EXCEPT ![run[f].cur] = @ \cup {recs}]
    BY <1>1, SealValue
  <2> QED BY <1>1, <2>1 DEF Seal, TypeOK
<1>2. ASSUME NEW f \in Fetchers, PartUncertain(f) PROVE durable \subseteq durable'
  BY <1>2 DEF PartUncertain
<1>3. ASSUME NEW f \in Fetchers, Claim(f) \/ Proceed(f), ~ Seal(f)
      PROVE  durable \subseteq durable' /\ sealed' = sealed
  BY <1>3 DEF Claim, Proceed, Pick, EndLoop, Resolve, NoRecord, FetchBytes, Put,
     RecordBlob, AskApi, Flush, Mark, Release, Commit
<1>4. ASSUME NEW f \in Fetchers, Disturb(f)
      PROVE  durable \subseteq durable' /\ sealed' = sealed
  BY <1>2, <1>4 DEF Disturb, LastFails, Fail, FailTwice, Refused, RefusedTwice, Crash,
     LoseDatabase
<1>5. CASE \E a \in Artifacts : Lapse(a)
  BY <1>5 DEF Lapse
<1>6. CASE UNCHANGED vars
  BY <1>6 DEF vars
<1> QED BY <1>1, <1>3, <1>4, <1>5, <1>6 DEF Next

LEMMA CapturedGrows == TypeOK /\ [Next]_vars => Captured \subseteq Captured'
BY CapturesStay DEF Captured

Open == {"pending", "leased"}

ContractStep == [Contract!Next]_(Contract!vars)

\* Rows may come and go as long as they stay open.
LEMMA PersistStep ==
  ASSUME Captured \subseteq Captured',
         \A a \in Artifacts : \/ row'[a].state = row[a].state
                              \/ row'[a].state \in Open /\ row[a].state \in Open
  PROVE  ContractStep
<1>1. Captured' \in SUBSET Artifacts /\ Captured' = Captured \cup Captured'
  BY DEF Captured
<1>2. Contract!Persist
  BY <1>1 DEF Contract!Persist, Open
<1> QED BY <1>2 DEF ContractStep, Contract!Next

\* A leased row is given up.
LEMMA GiveUpStep ==
  ASSUME TypeOK, NEW a \in Artifacts, row[a].state = "leased", NEW t, NEW e, Finish(a, t, e),
         \/ t = "skipped" /\ Captured' = Captured
         \/ t = "failed" /\ Captured \subseteq Captured'
  PROVE  ContractStep
<1>1. \A b \in Artifacts : row'[b].state = IF b = a THEN t ELSE row[b].state
  BY FinishState
<1> DEFINE v  == [b \in Artifacts |-> IF row[b].state \in {"pending", "leased"}
                                      THEN "open" ELSE row[b].state]
           v1 == [b \in Artifacts |-> IF row'[b].state \in {"pending", "leased"}
                                      THEN "open" ELSE row'[b].state]
<1>2. v[a] = "open" /\ v1 = [v EXCEPT ![a] = t]
  BY <1>1
<1>3. CASE t = "skipped" /\ Captured' = Captured
  <2>1. Contract!GiveUp(a)
    BY <1>2, <1>3 DEF Contract!GiveUp
  <2> QED BY <2>1 DEF ContractStep, Contract!Next
<1>4. CASE t = "failed" /\ Captured \subseteq Captured'
  <2>1. Captured' \in SUBSET Artifacts /\ Captured' = Captured \cup Captured'
    BY <1>4 DEF Captured
  <2>2. Contract!GiveUpUncertain(a)
    BY <1>2, <1>4, <2>1 DEF Contract!GiveUpUncertain
  <2> QED BY <2>2 DEF ContractStep, Contract!Next
<1> QED BY <1>3, <1>4

\* A row is only marked done when its capture is in the bucket.
LEMMA MarkStep ==
  ASSUME OneFetcher, TypeOK, Durability, Owning, NEW f \in Fetchers, Mark(f),
         Captured \subseteq Captured'
  PROVE  ContractStep
<1>1. PICK a \in run[f].marking : Finish(a, "done", "none")
  BY DEF Mark
<1>2. /\ a \in Artifacts /\ a \in run[f].undurable
      /\ row[a].state \in {"leased", "failed", "done"}
  BY DEF TypeOK, Owning, Owns, Run, WellFormed, Mark
<1>3. \A b \in Artifacts : row'[b].state = IF b = a THEN "done" ELSE row[b].state
  BY <1>1, <1>2, FinishState
<1>4. CASE row[a].state = "done"
  BY <1>3, <1>4, PersistStep
<1>5. CASE row[a].state \in {"leased", "failed"}
  <2> DEFINE v  == [b \in Artifacts |-> IF row[b].state \in {"pending", "leased"}
                                        THEN "open" ELSE row[b].state]
             v1 == [b \in Artifacts |-> IF row'[b].state \in {"pending", "leased"}
                                        THEN "open" ELSE row'[b].state]
  <2>1. v[a] \in {"open", "failed"} /\ v1 = [v EXCEPT ![a] = "done"]
    BY <1>2, <1>3, <1>5
  <2>2. Buffered(run[f]) /\ run[f].buffer = {}
    BY DEF Durability, UndurableIsBuffered, Buffered, Mark
  <2>3. a \in Captured
    BY <1>2, <2>2 DEF Buffered, Captured
  <2>4. Captured' = Captured
    BY DEF Mark, Captured
  <2>5. Contract!Conclude(a)
    BY <2>1, <2>3, <2>4 DEF Contract!Conclude
  <2> QED BY <1>2, <2>5 DEF ContractStep, Contract!Next
<1> QED BY <1>2, <1>4, <1>5

LEMMA NextContract ==
  OneFetcher /\ TypeOK /\ Durability /\ Owning /\ [Next]_vars => ContractStep
<1> SUFFICES ASSUME OneFetcher, TypeOK, Durability, Owning, [Next]_vars PROVE ContractStep
  OBVIOUS
<1>1. Captured \subseteq Captured'
  BY CapturedGrows
<1>2. \A f \in Fetchers : /\ Owns(run[f])
                          /\ run[f].pc \in InHand => run[f].cur \in Artifacts
  BY DEF TypeOK, Owning, Run, WellFormed
<1>3. CASE row' = row
  BY <1>1, <1>3, PersistStep
<1>4. ASSUME NEW f \in Fetchers, Claim(f) PROVE ContractStep
  <2>0. PICK batch \in SUBSET Claimable : Takes(f, batch)
    BY <1>4, ClaimValue
  <2>1. /\ \A a \in Artifacts \ batch : row'[a] = row[a]
        /\ \A a \in batch : row'[a].state = "leased" /\ row'[a].holder = f
    BY <2>0 DEF Takes
  <2>2. \A a \in batch : row[a].state \in Open
    BY DEF Claimable, Open
  <2> QED BY <1>1, <2>1, <2>2, PersistStep DEF Open
<1>5. ASSUME NEW f \in Fetchers, Resolve(f) PROVE ContractStep
  <2>1. CASE Finish(run[f].cur, "skipped", "barren")
    <3>1. Captured' = Captured /\ run[f].pc \in InHand
      BY <1>5 DEF Resolve, Captured
    <3>2. run[f].cur \in Artifacts /\ row[run[f].cur].state = "leased"
      BY <1>2, <3>1 DEF Owns
    <3> QED BY <2>1, <3>1, <3>2, GiveUpStep
  <2> QED BY <1>3, <1>5, <2>1 DEF Resolve
<1>6. ASSUME NEW f \in Fetchers, NoRecord(f) PROVE ContractStep
  <2>1. /\ Captured' = Captured /\ run[f].pc \in InHand
        /\ Finish(run[f].cur, "skipped", "gone")
    BY <1>6 DEF NoRecord, Captured
  <2>2. run[f].cur \in Artifacts /\ row[run[f].cur].state = "leased"
    BY <1>2, <2>1 DEF Owns
  <2> QED BY <2>1, <2>2, GiveUpStep
<1>7. ASSUME NEW f \in Fetchers, Fail(f) PROVE ContractStep
  <2>1. run[f].pc \in InHand /\ Finish(run[f].cur, "failed", "exception")
    BY <1>7 DEF Fail, Risky
  <2>2. run[f].cur \in Artifacts /\ row[run[f].cur].state = "leased"
    BY <1>2, <2>1 DEF Owns
  <2> QED BY <1>1, <2>1, <2>2, GiveUpStep
<1>8. ASSUME NEW f \in Fetchers, Refused(f) PROVE ContractStep
  <2>1. run[f].pc \in InHand /\ Finish(run[f].cur, "pending", "none")
    BY <1>8 DEF Refused
  <2>2. run[f].cur \in Artifacts /\ row[run[f].cur].state = "leased"
    BY <1>2, <2>1 DEF Owns
  <2>3. \A b \in Artifacts : row'[b].state = IF b = run[f].cur THEN "pending" ELSE row[b].state
    BY <2>1, <2>2, FinishState
  <2> QED BY <1>1, <2>2, <2>3, PersistStep DEF Open
<1>9. ASSUME NEW f \in Fetchers, Release(f) PROVE ContractStep
  <2>1. PICK as : ReleaseRows(as)
    BY <1>9 DEF Release
  <2>2. ASSUME NEW b \in Artifacts
        PROVE  \/ row'[b].state = row[b].state
               \/ row'[b].state \in Open /\ row[b].state \in Open
    <3>1. [Leased(b, NoFetcher) EXCEPT !.state = "pending"].state = "pending"
      BY DEF TypeOK, Leased, Row
    <3> QED BY <2>1, <3>1 DEF ReleaseRows, Open
  <2> QED BY <1>1, <2>2, PersistStep
<1>10. ASSUME NEW f \in Fetchers, Die(f) PROVE ContractStep
  BY <1>1, <1>10, DieState, PersistStep
<1>11. ASSUME NEW a \in Artifacts, Lapse(a) PROVE ContractStep
  <2>1. \A b \in Artifacts : row'[b].state = row[b].state
    BY <1>11 DEF Lapse, TypeOK, Row
  <2> QED BY <1>1, <2>1, PersistStep
<1>12. ASSUME NEW f \in Fetchers, Mark(f) PROVE ContractStep
  BY <1>1, <1>12, MarkStep
<1>13. ASSUME NEW f \in Fetchers,
              \/ Pick(f) \/ EndLoop(f) \/ FetchBytes(f) \/ Put(f) \/ RecordBlob(f)
              \/ AskApi(f) \/ Seal(f) \/ Flush(f) \/ LastFails(f) \/ FailTwice(f)
              \/ RefusedTwice(f)
       PROVE  ContractStep
  BY <1>3, <1>13 DEF Pick, EndLoop, FetchBytes, Put, RecordBlob, AskApi, Seal, Flush,
     LastFails, FailTwice, RefusedTwice
<1>14. ASSUME NEW f \in Fetchers, Commit(f) \/ Crash(f) \/ LoseDatabase(f)
       PROVE  ContractStep
  BY <1>10, <1>14 DEF Commit, Crash, LoseDatabase
<1>15. CASE UNCHANGED vars
  BY <1>3, <1>15 DEF vars
<1> QED
  BY <1>4, <1>5, <1>6, <1>7, <1>8, <1>9, <1>11, <1>12, <1>13, <1>14, <1>15
  DEF Next, Proceed, Disturb

LEMMA InitContract == Init => Contract!Init
<1> SUFFICES ASSUME Init PROVE Contract!Init
  OBVIOUS
<1>1. Captured = {} /\ \A a \in Artifacts : row[a].state = "pending"
  BY DEF Init, Captured
<1> QED BY <1>1 DEF Contract!Init

LEMMA OwningHolds ==
  ASSUME OneFetcher
  PROVE  Spec => [](TypeOK /\ Durability /\ Owning)
<1>1. Init => TypeOK /\ Durability /\ Owning
  BY InitType, InitDurability, InitOwning
<1>2. TypeOK /\ Durability /\ Owning /\ [Next]_vars => (TypeOK /\ Durability /\ Owning)'
  BY NextType, NextDurability, NextOwning
<1> QED BY <1>1, <1>2, PTL DEF Spec

\* With one fetcher at a time, whatever crashes, failed flushes and refusals it
\* meets, the queue and the bucket behave as CaptureContract says: a row is done
\* only when its capture is in the bucket, and a conclusion is never taken back.
THEOREM ContractKept ==
  ASSUME OneFetcher
  PROVE  Spec => KeepsContract
<1>1. Init => Contract!Init
  BY InitContract
<1>2. TypeOK /\ Durability /\ Owning /\ [Next]_vars => [Contract!Next]_(Contract!vars)
  BY NextContract DEF ContractStep
<1> QED BY <1>1, <1>2, OwningHolds, PTL DEF Spec, KeepsContract, Contract!Spec

LEMMA ContractFinal ==
  ContractStep => \A a \in Artifacts : row[a].state \in Concluded =>
                                         row'[a].state = row[a].state
<1> SUFFICES ASSUME ContractStep, NEW a \in Artifacts, row[a].state \in Concluded
             PROVE  row'[a].state = row[a].state
  OBVIOUS
<1> DEFINE v  == [b \in Artifacts |-> IF row[b].state \in {"pending", "leased"}
                                      THEN "open" ELSE row[b].state]
           v1 == [b \in Artifacts |-> IF row'[b].state \in {"pending", "leased"}
                                      THEN "open" ELSE row'[b].state]
<1>1. v[a] = row[a].state /\ v[a] \in {"done", "skipped"}
  BY DEF Concluded
<1>2. v1[a] \in {"done", "skipped"} => row'[a].state = v1[a]
  OBVIOUS
<1>3. \/ v1 = v
      \/ \E b \in Artifacts : \E t :
           /\ v1 = [v EXCEPT ![b] = t]
           /\ v[b] = "open" \/ (v[b] = "failed" /\ t = "done")
  BY DEF ContractStep, Contract!Next, Contract!vars, Contract!Persist, Contract!Conclude,
     Contract!GiveUp, Contract!GiveUpUncertain
<1>4. v1[a] = v[a]
  <2> HIDE DEF v, v1
  <2>1. CASE v1 = v
    BY <2>1
  <2>2. ASSUME NEW b \in Artifacts, NEW t, v1 = [v EXCEPT ![b] = t],
               v[b] = "open" \/ (v[b] = "failed" /\ t = "done")
        PROVE  v1[a] = v[a]
    <3>1. a # b
      BY <1>1, <2>2
    <3>2. a \in DOMAIN v
      BY DEF v
    <3> QED BY <2>2, <3>1, <3>2
  <2> QED BY <1>3, <2>1, <2>2
<1> QED BY <1>1, <1>2, <1>4

\* With one fetcher at a time a row that was captured or skipped is never
\* handed out or rewritten again, though no statement guards the state it
\* overwrites (frontier.finish, db.py).
THEOREM ConclusionsFinal ==
  ASSUME OneFetcher
  PROVE  Spec => ConcludedIsFinal
<1>1. TypeOK /\ Durability /\ Owning /\ [Next]_vars =>
        [\A a \in Artifacts : row[a].state \in Concluded =>
                                row'[a].state = row[a].state]_vars
  BY NextContract, ContractFinal
<1> QED BY <1>1, OwningHolds, PTL DEF Spec, ConcludedIsFinal

=============================================================================
