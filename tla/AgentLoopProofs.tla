---------------------------- MODULE AgentLoopProofs ----------------------------
(***************************************************************************)
(* Proofs about AgentLoop, for any runs, peers, tools, limits and bounds.  *)
(* A step is a move of one run, or of a peer that the runs do not notice   *)
(* but in the journal.  The moves are stated of a run's variables and a    *)
(* journal as values, so that what a run keeps true is shown for one run   *)
(* and one journal at a time; what others append does not disturb it.      *)
(***************************************************************************)
EXTENDS AgentLoop, FiniteSetTheorems, TLAPS

Records ==
  [of : Runs \cup Peers, kind : {"call"}, id : 1 .. MaxIds, tool : Tools]
  \cup [of : Runs \cup Peers, kind : {"result"}, id : 1 .. MaxIds, isError : BOOLEAN]

\* The variables of a driver, over any journal.
Drivers ==
  [at : Positions, attempt : 0 .. MaxAttempts, status : Failures \cup {"running", "completed"},
   decided : BOOLEAN, shown : Nat, target : 0 .. MaxAttempts, retries : 0 .. MaxRetries,
   retryOf : 0 .. MaxAttempts, turn : Seq(Calls), next : Nat \ {0},
   result : {"none", "ok", "isError", "thrown"}, counts : [Tools -> 0 .. RepeatLimit],
   ran : [Tools -> Nat]]

LEMMA JournalType == TypeOK => journal \in Seq(Records) /\ Len(journal) \in Nat
BY DEF TypeOK, Records

LEMMA RunStatesAreDrivers ==
  ASSUME TypeOK
  PROVE  \A q : q \in RunStates <=> q \in Drivers /\ q.shown \in 0 .. Len(journal)
<1> SUFFICES ASSUME NEW q
             PROVE  q \in RunStates <=> q \in Drivers /\ q.shown \in 0 .. Len(journal)
  OBVIOUS
<1>1. Len(journal) \in Nat
  BY JournalType
<1>2. ASSUME q \in RunStates PROVE q \in Drivers /\ q.shown \in 0 .. Len(journal)
  BY <1>1, <1>2 DEF RunStates, Drivers
<1>3. ASSUME q \in Drivers, q.shown \in 0 .. Len(journal) PROVE q \in RunStates
  BY <1>1, <1>3 DEF RunStates, Drivers
<1>4. QED
  BY <1>2, <1>3

-----------------------------------------------------------------------------
(* The moves: a driver q over a journal s becomes n over t.                *)

Busy == {"record", "call", "worker", "answering"}
Call(q) == q.turn[q.next]
Last(q) == q.next = Len(q.turn)
After(q) == IF Last(q) THEN 1 ELSE q.next + 1

LeaveMove(r, n, s, t) ==
  /\ n = Idle("settled")
  /\ t = s \/ \E e \in Records : e.of = r /\ t = Append(s, e)

StartMove(q, n) == q.at \in {"none", "backoff"} /\ n = [q EXCEPT !.at = "driver"]

AskMove(q, n, s) ==
  /\ q.at = "driver" /\ q.attempt < MaxAttempts /\ ToolStructureOK(s)
  /\ n = [q EXCEPT !.at = "provider", !.attempt = q.attempt + 1, !.status = "running",
                   !.decided = FALSE, !.shown = Len(s), !.target = q.retryOf]

AnswerMove(q, n, calls) ==
  /\ q.at = "provider" /\ calls \in Seq(Calls) /\ calls # <<>>
  /\ n = [q EXCEPT !.at = "record", !.status = "completed", !.turn = calls, !.retries = 0,
                   !.retryOf = 0]

FailMove(q, n) ==
  /\ q.at = "provider" /\ q.retries < MaxRetries
  /\ n = [q EXCEPT !.at = "deciding", !.status = "retryable", !.retries = q.retries + 1]

DecideMove(q, n) ==
  q.at = "deciding" /\ n = [q EXCEPT !.at = "backoff", !.decided = TRUE, !.retryOf = q.attempt]

RecordMove(r, q, n, s, t) ==
  /\ q.at = "record" /\ t = Append(s, CallRecord(r, Call(q)))
  /\ n = [q EXCEPT !.at = IF Last(q) THEN "call" ELSE "record", !.next = After(q)]

CountMove(q, n, carried) ==
  LET tool == Call(q).tool IN
  /\ q.at = "call" /\ q.counts[tool] + 1 < RepeatLimit
  /\ n = IF carried
           THEN [q EXCEPT !.at = "worker", !.counts[tool] = q.counts[tool] + 1,
                          !.ran[tool] = q.ran[tool] + 1]
           ELSE [q EXCEPT !.at = "answering", !.counts[tool] = q.counts[tool] + 1,
                          !.result = "thrown"]

SettleMove(q, n, how) ==
  /\ q.at = "worker" /\ how \in {"ok", "isError", "thrown"}
  /\ n = [q EXCEPT !.at = "answering", !.result = how]

RespondMove(r, q, n, s, t) ==
  /\ q.at = "answering" /\ t = Append(s, ResultRecord(r, Call(q), q.result # "ok"))
  /\ n = [q EXCEPT !.at = IF Last(q) THEN "driver" ELSE "call",
                   !.turn = IF Last(q) THEN <<>> ELSE q.turn, !.next = After(q),
                   !.result = "none"]

RetellMove(r, q, n, s, t) ==
  /\ q.at = "answering" /\ n = [q EXCEPT !.result = "thrown"]
  /\ t = s \/ t = Append(s, ResultRecord(r, Call(q), q.result # "ok"))

QuietMove(q, n, s) ==
  \/ StartMove(q, n) \/ AskMove(q, n, s) \/ FailMove(q, n) \/ DecideMove(q, n)
  \/ \E calls \in Seq(Calls) : AnswerMove(q, n, calls)
  \/ \E carried \in BOOLEAN : CountMove(q, n, carried)
  \/ \E how \in {"ok", "isError", "thrown"} : SettleMove(q, n, how)

Move(r, q, n, s, t) ==
  \/ LeaveMove(r, n, s, t)
  \/ QuietMove(q, n, s) /\ t = s
  \/ RecordMove(r, q, n, s, t) \/ RespondMove(r, q, n, s, t) \/ RetellMove(r, q, n, s, t)

-----------------------------------------------------------------------------
(* What a run keeps true.                                                  *)

\* A driver has a turn while it carries one out, and a result while it answers.
TurnInv(q) ==
  /\ q.at \in Busy => q.next \in 1 .. Len(q.turn) /\ q.status = "completed" /\ q.retryOf = 0
  /\ q.at \notin Busy => q.turn = <<>> /\ q.next = 1
  /\ q.at = "answering" <=> q.result # "none"

\* The calls of the turn that are recorded and not answered; those not carried out.
Taken(q) ==
  IF q.at = "record" THEN 1 .. q.next - 1
  ELSE IF q.at \in Busy THEN q.next .. Len(q.turn) ELSE {}
Due(q, tool) ==
  {k \in Taken(q) : q.turn[k].tool = tool /\ (q.at \in {"worker", "answering"} => k # q.next)}

Recorded(s, r, tool) ==
  {i \in DOMAIN s : s[i].of = r /\ s[i].kind = "call" /\ s[i].tool = tool}

\* Each call that is carried out, or still will be, has a record of its own.
CountInv(r, q, s) ==
  \A tool \in Tools :
    /\ q.ran[tool] <= q.counts[tool] /\ q.counts[tool] < RepeatLimit
    /\ q.ran[tool] + Cardinality(Due(q, tool)) <= Cardinality(Recorded(s, r, tool))

Answered(s, c) == \E j \in c + 1 .. Len(s) : s[j].kind = "result" /\ s[j].id = s[c].id

\* What the run has recorded is answered or will be.
AnswerInv(r, q, s) ==
  q.at # "settled" =>
    \A c \in DOMAIN s :
      s[c].of = r /\ s[c].kind = "call" =>
        Answered(s, c) \/ \E k \in Taken(q) : q.turn[k].id = s[c].id

Silent(r, q, s) == \A i \in q.shown + 1 .. Len(s) : s[i].of # r

\* From a failed attempt to the next one nothing is recorded.
RetryInv(r, q, s) ==
  /\ q.at = "none" => q.attempt = 0 /\ q.retryOf = 0
  /\ q.at \in {"provider", "deciding", "backoff"} => q.attempt > 0 /\ Silent(r, q, s)
  /\ q.at = "deciding" => q.status = "retryable"
  /\ q.at \in {"driver", "backoff"} =>
       IF q.retryOf = 0
         THEN q.at = "driver" /\ (q.attempt = 0 \/ q.status = "completed")
         ELSE /\ q.retryOf = q.attempt /\ q.status = "retryable" /\ q.decided
              /\ Silent(r, q, s)

\* What a provider is shown is answered, once.
Answers(s, i) == {j \in i + 1 .. Len(s) : s[j].kind = "result" /\ s[j].id = s[i].id}
AnsweredOnce(r, s) ==
  \A i \in DOMAIN s : s[i].of = r /\ s[i].kind = "call" => Cardinality(Answers(s, i)) = 1
AskedInv(r, q, s) == q.at = "provider" => AnsweredOnce(r, SubSeq(s, 1, q.shown))

RunInv(r, q, s) ==
  /\ TurnInv(q) /\ CountInv(r, q, s) /\ AnswerInv(r, q, s) /\ RetryInv(r, q, s)
  /\ AskedInv(r, q, s)

-----------------------------------------------------------------------------
(* Moves keep the types.                                                   *)

LEMMA Bounds ==
  /\ MaxAttempts \in Nat \ {0} /\ RepeatLimit \in Nat \ {0} /\ MaxRetries \in Nat
  /\ MaxIds \in Nat /\ MaxCalls \in Nat /\ MaxReuses \in Nat /\ MaxFaults \in Nat
  /\ MinExchanges \in Nat \ {0} /\ Retain \in Nat \ {0} /\ Batch \in Nat \ {0}
BY AgentLoopAssumption

LEMMA IdleDriver ==
  ASSUME NEW p \in {"none", "settled"}
  PROVE  Idle(p) \in Drivers /\ TurnInv(Idle(p)) /\ Idle(p).shown = 0
<1>1. Idle(p) \in Drivers
  BY AgentLoopAssumption DEF Idle, Drivers, Positions, Calls
<1>2. TurnInv(Idle(p)) /\ Idle(p).shown = 0
  BY DEF Idle, TurnInv, Busy
<1>3. QED
  BY <1>1, <1>2

LEMMA CallType ==
  ASSUME NEW q \in Drivers, TurnInv(q), q.at \in Busy
  PROVE  /\ q.next \in 1 .. Len(q.turn) /\ Len(q.turn) \in Nat /\ Call(q) \in Calls
         /\ After(q) \in Nat \ {0}
BY DEF Drivers, TurnInv, Busy, Call, After, Last

LEMMA RecordType ==
  ASSUME NEW r \in Runs \cup Peers, NEW call \in Calls, NEW e \in BOOLEAN
  PROVE  CallRecord(r, call) \in Records /\ ResultRecord(r, call, e) \in Records
BY DEF CallRecord, ResultRecord, Records, Calls

LEMMA QuietType ==
  ASSUME NEW q \in Drivers, NEW n, NEW s \in Seq(Records), q.shown <= Len(s),
         TurnInv(q), QuietMove(q, n, s)
  PROVE  n \in Drivers /\ TurnInv(n) /\ n.shown <= Len(s)
<1>1. CASE StartMove(q, n)
  BY <1>1 DEF StartMove, Drivers, TurnInv, Busy, Positions
<1>2. CASE AskMove(q, n, s)
  <2>1. q.attempt + 1 \in 0 .. MaxAttempts /\ Len(s) \in Nat
    BY <1>2, Bounds DEF AskMove, Drivers
  <2>2. n \in Drivers
    BY <1>2, <2>1 DEF AskMove, Drivers, Positions
  <2>3. QED
    BY <1>2, <2>1, <2>2 DEF AskMove, Drivers, TurnInv, Busy
<1>3. CASE FailMove(q, n)
  <2>1. q.retries + 1 \in 0 .. MaxRetries
    BY <1>3, Bounds DEF FailMove, Drivers
  <2>2. n \in Drivers
    BY <1>3, <2>1 DEF FailMove, Drivers, Positions, Failures
  <2>3. QED
    BY <1>3, <2>1, <2>2 DEF FailMove, Drivers, TurnInv, Busy
<1>4. CASE DecideMove(q, n)
  BY <1>4 DEF DecideMove, Drivers, TurnInv, Busy, Positions
<1>5. ASSUME NEW calls \in Seq(Calls), AnswerMove(q, n, calls)
      PROVE  n \in Drivers /\ TurnInv(n) /\ n.shown <= Len(s)
  <2>1. Len(calls) \in Nat \ {0}
    BY <1>5 DEF AnswerMove
  <2>2. n \in Drivers
    <3>1. 0 \in 0 .. MaxRetries /\ 0 \in 0 .. MaxAttempts
      BY Bounds
    <3>2. QED
      BY <1>5, <3>1 DEF AnswerMove, Drivers, Positions
  <2>3. QED
    BY <1>5, <2>1, <2>2 DEF AnswerMove, Drivers, TurnInv, Busy
<1>6. ASSUME NEW carried \in BOOLEAN, CountMove(q, n, carried)
      PROVE  n \in Drivers /\ TurnInv(n) /\ n.shown <= Len(s)
  <2>1. Call(q).tool \in Tools
    BY <1>6, CallType DEF CountMove, Busy, Calls
  <2>2. q.counts[Call(q).tool] + 1 \in 0 .. RepeatLimit /\ q.ran[Call(q).tool] + 1 \in Nat
    <3>1. q.counts[Call(q).tool] + 1 < RepeatLimit
      BY <1>6 DEF CountMove
    <3>2. q.counts[Call(q).tool] \in 0 .. RepeatLimit /\ q.ran[Call(q).tool] \in Nat
      BY <2>1 DEF Drivers
    <3>3. QED
      BY <3>1, <3>2, Bounds
  <2>3. n \in Drivers
    <3>1. CASE carried
      BY <1>6, <2>1, <2>2, <3>1 DEF CountMove, Drivers, Positions
    <3>2. CASE ~carried
      BY <1>6, <2>1, <2>2, <3>2 DEF CountMove, Drivers, Positions
    <3>3. QED
      BY <3>1, <3>2
  <2>4. QED
    BY <1>6, <2>3 DEF CountMove, Drivers, TurnInv, Busy
<1>7. ASSUME NEW how \in {"ok", "isError", "thrown"}, SettleMove(q, n, how)
      PROVE  n \in Drivers /\ TurnInv(n) /\ n.shown <= Len(s)
  BY <1>7 DEF SettleMove, Drivers, TurnInv, Busy, Positions
<1>8. QED
  BY <1>1, <1>2, <1>3, <1>4, <1>5, <1>6, <1>7 DEF QuietMove

LEMMA MoveType ==
  ASSUME NEW r \in Runs, NEW q \in Drivers, NEW n, NEW s \in Seq(Records), NEW t,
         q.shown <= Len(s), TurnInv(q), Move(r, q, n, s, t)
  PROVE  /\ n \in Drivers /\ TurnInv(n)
         /\ t \in Seq(Records) /\ Len(s) <= Len(t) /\ n.shown <= Len(t)
<1>1. CASE LeaveMove(r, n, s, t)
  BY <1>1, IdleDriver DEF LeaveMove
<1>2. CASE QuietMove(q, n, s) /\ t = s
  BY <1>2, QuietType
<1>3. CASE RecordMove(r, q, n, s, t)
  <2>1. CallRecord(r, Call(q)) \in Records
    BY <1>3, CallType, RecordType DEF RecordMove, Busy
  <2>2. n \in Drivers /\ n.shown = q.shown
    BY <1>3, CallType DEF RecordMove, Busy, Drivers, Positions
  <2>3. TurnInv(n)
    BY <1>3, <2>2, CallType DEF RecordMove, Busy, Drivers, TurnInv, After, Last
  <2>4. QED
    BY <1>3, <2>1, <2>2, <2>3 DEF RecordMove, Drivers
<1>4. CASE RespondMove(r, q, n, s, t)
  <2>1. ResultRecord(r, Call(q), q.result # "ok") \in Records
    BY <1>4, CallType, RecordType DEF RespondMove, Busy
  <2>2. n \in Drivers /\ n.shown = q.shown
    <3>1. After(q) \in Nat \ {0} /\ <<>> \in Seq(Calls)
      BY <1>4, CallType DEF RespondMove, Busy
    <3>2. QED
      BY <1>4, <3>1 DEF RespondMove, Drivers, Positions
  <2>3. TurnInv(n)
    BY <1>4, <2>2, CallType DEF RespondMove, Busy, Drivers, TurnInv, After, Last
  <2>4. QED
    BY <1>4, <2>1, <2>2, <2>3 DEF RespondMove, Drivers
<1>5. CASE RetellMove(r, q, n, s, t)
  <2>1. ResultRecord(r, Call(q), q.result # "ok") \in Records
    BY <1>5, CallType, RecordType DEF RetellMove, Busy
  <2>2. n \in Drivers /\ TurnInv(n) /\ n.shown = q.shown
    BY <1>5 DEF RetellMove, Busy, Drivers, TurnInv
  <2>3. QED
    <3>1. t \in Seq(Records) /\ Len(s) <= Len(t)
      BY <1>5, <2>1 DEF RetellMove
    <3>2. QED
      BY <2>2, <3>1 DEF Drivers
<1>6. QED
  BY <1>1, <1>2, <1>3, <1>4, <1>5 DEF Move

-----------------------------------------------------------------------------
(* Calls are carried out less often than the limit, each with a record.    *)

LEMMA WithinInterval ==
  ASSUME NEW m \in Nat, NEW S \in SUBSET (1 .. m)
  PROVE  IsFiniteSet(S) /\ Cardinality(S) \in Nat
<1>1. IsFiniteSet(1 .. m)
  BY FS_Interval
<1>2. IsFiniteSet(S)
  BY <1>1, FS_Subset
<1>3. QED
  BY <1>2, FS_CardinalityType

LEMMA CountTypes ==
  ASSUME NEW q \in Drivers, NEW tool \in Tools
  PROVE  q.ran[tool] \in Nat /\ q.counts[tool] \in Nat
BY DEF Drivers

LEMMA RecordedGrows ==
  ASSUME NEW s \in Seq(Records), NEW e \in Records, NEW r, NEW tool
  PROVE  LET old == Recorded(s, r, tool)
             new == Recorded(Append(s, e), r, tool)
         IN  /\ Cardinality(old) \in Nat /\ Cardinality(new) \in Nat
             /\ Cardinality(old) <= Cardinality(new)
             /\ e.of = r /\ e.kind = "call" /\ e.tool = tool =>
                  Cardinality(new) = Cardinality(old) + 1
<1> DEFINE old == Recorded(s, r, tool)
           new == Recorded(Append(s, e), r, tool)
           m == Len(s) + 1
<1>1. IsFiniteSet(old) /\ Cardinality(old) \in Nat
  <2>1. old \subseteq 1 .. Len(s) /\ Len(s) \in Nat
    BY DEF Recorded
  <2>2. QED
    BY <2>1, WithinInterval
<1>2. m \notin old
  BY DEF Recorded
<1>3. IF e.of = r /\ e.kind = "call" /\ e.tool = tool THEN new = old \cup {m} ELSE new = old
  BY DEF Recorded
<1>4. Cardinality(old \cup {m}) = Cardinality(old) + 1
  BY <1>1, <1>2, FS_AddElement
<1> HIDE DEF old, new, m
<1>5. Cardinality(new) \in {Cardinality(old), Cardinality(old) + 1}
  BY <1>3, <1>4
<1>6. Cardinality(new) \in Nat /\ Cardinality(old) <= Cardinality(new)
  BY <1>1, <1>5
<1>7. e.of = r /\ e.kind = "call" /\ e.tool = tool => Cardinality(new) = Cardinality(old) + 1
  BY <1>3, <1>4
<1>8. QED
  BY <1>1, <1>6, <1>7 DEF old, new

LEMMA RecordedCount ==
  ASSUME NEW s \in Seq(Records), NEW r, NEW tool
  PROVE  Cardinality(Recorded(s, r, tool)) \in Nat
<1>1. Recorded(s, r, tool) \subseteq 1 .. Len(s) /\ Len(s) \in Nat
  BY DEF Recorded
<1>2. QED
  BY <1>1, WithinInterval

LEMMA DueCount ==
  ASSUME NEW q \in Drivers, TurnInv(q), NEW tool
  PROVE  IsFiniteSet(Due(q, tool)) /\ Cardinality(Due(q, tool)) \in Nat
<1>1. Due(q, tool) \subseteq 1 .. Len(q.turn) /\ Len(q.turn) \in Nat
  BY DEF Due, Taken, TurnInv, Drivers, Busy
<1>2. QED
  BY <1>1, WithinInterval

\* What others record, and what is no call, does not disturb the count.
LEMMA CountFrame ==
  ASSUME NEW q \in Drivers, TurnInv(q), NEW s \in Seq(Records), NEW e \in Records, NEW r,
         CountInv(r, q, s)
  PROVE  CountInv(r, q, Append(s, e))
<1> SUFFICES ASSUME NEW tool \in Tools
             PROVE  q.ran[tool] + Cardinality(Due(q, tool))
                      <= Cardinality(Recorded(Append(s, e), r, tool))
  BY DEF CountInv
<1>1. q.ran[tool] \in Nat /\ Cardinality(Due(q, tool)) \in Nat
  BY CountTypes, DueCount
<1>2. q.ran[tool] + Cardinality(Due(q, tool)) <= Cardinality(Recorded(s, r, tool))
  BY DEF CountInv
<1>3. QED
  BY <1>1, <1>2, RecordedGrows

\* A driver with no more due and nothing more carried out keeps its count.
LEMMA CountKept ==
  ASSUME NEW q \in Drivers, TurnInv(q), NEW n \in Drivers, TurnInv(n), NEW s \in Seq(Records),
         NEW r, CountInv(r, q, s), n.ran = q.ran,
         \A tool \in Tools : n.counts[tool] >= q.counts[tool] /\ n.counts[tool] < RepeatLimit,
         \A tool \in Tools : Due(n, tool) \subseteq Due(q, tool)
  PROVE  CountInv(r, n, s)
<1> SUFFICES ASSUME NEW tool \in Tools
             PROVE  /\ n.ran[tool] <= n.counts[tool] /\ n.counts[tool] < RepeatLimit
                    /\ n.ran[tool] + Cardinality(Due(n, tool)) <= Cardinality(Recorded(s, r, tool))
  BY DEF CountInv
<1>1. /\ q.ran[tool] \in Nat /\ n.counts[tool] \in Nat /\ q.counts[tool] \in Nat
      /\ Cardinality(Due(q, tool)) \in Nat /\ Cardinality(Due(n, tool)) \in Nat
      /\ Cardinality(Recorded(s, r, tool)) \in Nat
  BY CountTypes, DueCount, RecordedCount
<1>2. Cardinality(Due(n, tool)) <= Cardinality(Due(q, tool))
  BY DueCount, FS_Subset
<1>3. /\ q.ran[tool] <= q.counts[tool]
      /\ q.ran[tool] + Cardinality(Due(q, tool)) <= Cardinality(Recorded(s, r, tool))
  BY DEF CountInv
<1>4. n.counts[tool] >= q.counts[tool] /\ n.counts[tool] < RepeatLimit /\ n.ran[tool] = q.ran[tool]
  OBVIOUS
<1>5. QED
  BY <1>1, <1>2, <1>3, <1>4

LEMMA CountCarried ==
  ASSUME NEW r, NEW q \in Drivers, TurnInv(q), NEW n \in Drivers, TurnInv(n),
         NEW s \in Seq(Records), CountInv(r, q, s), CountMove(q, n, TRUE)
  PROVE  CountInv(r, n, s)
<1> DEFINE used == Call(q).tool
<1> SUFFICES ASSUME NEW tool \in Tools
             PROVE  /\ n.ran[tool] <= n.counts[tool] /\ n.counts[tool] < RepeatLimit
                    /\ n.ran[tool] + Cardinality(Due(n, tool)) <= Cardinality(Recorded(s, r, tool))
  BY DEF CountInv
<1>1. used \in Tools /\ q.next \in 1 .. Len(q.turn)
  BY CallType DEF CountMove, Busy, Calls
<1>2. /\ q.ran[tool] \in Nat /\ q.counts[tool] \in Nat
      /\ Cardinality(Due(q, tool)) \in Nat /\ Cardinality(Due(n, tool)) \in Nat
      /\ Cardinality(Recorded(s, r, tool)) \in Nat
  BY CountTypes, DueCount, RecordedCount
<1>3. /\ q.ran[tool] <= q.counts[tool] /\ q.counts[tool] < RepeatLimit
      /\ q.ran[tool] + Cardinality(Due(q, tool)) <= Cardinality(Recorded(s, r, tool))
  BY DEF CountInv
<1>4. /\ n.turn = q.turn /\ n.next = q.next /\ n.at = "worker" /\ q.at = "call"
      /\ n.ran = [q.ran EXCEPT ![used] = q.ran[used] + 1]
      /\ n.counts = [q.counts EXCEPT ![used] = q.counts[used] + 1]
      /\ q.counts[used] + 1 < RepeatLimit
  BY <1>1 DEF CountMove, Drivers
<1>5. CASE tool = used
  <2>1. q.next \in Due(q, tool) /\ Due(n, tool) = Due(q, tool) \ {q.next}
    BY <1>1, <1>4, <1>5 DEF Due, Taken, Busy, Call, Drivers
  <2>2. Cardinality(Due(n, tool)) = Cardinality(Due(q, tool)) - 1
    BY <2>1, DueCount, FS_RemoveElement
  <2>3. n.ran[tool] = q.ran[tool] + 1 /\ n.counts[tool] = q.counts[tool] + 1
    BY <1>1, <1>4, <1>5 DEF Drivers
  <2>4. QED
    BY <1>2, <1>3, <1>4, <1>5, <2>2, <2>3
<1>6. CASE tool # used
  <2>1. Due(n, tool) = Due(q, tool)
    BY <1>1, <1>4, <1>6 DEF Due, Taken, Busy, Call, Drivers
  <2>2. n.ran[tool] = q.ran[tool] /\ n.counts[tool] = q.counts[tool]
    BY <1>1, <1>4, <1>6 DEF Drivers
  <2>3. QED
    BY <1>2, <1>3, <2>1, <2>2
<1>7. QED
  BY <1>5, <1>6

LEMMA CountRecorded ==
  ASSUME NEW r \in Runs, NEW q \in Drivers, TurnInv(q), NEW n \in Drivers, TurnInv(n),
         NEW s \in Seq(Records), NEW t, CountInv(r, q, s), RecordMove(r, q, n, s, t)
  PROVE  CountInv(r, n, t)
<1> DEFINE used == Call(q).tool
           e == CallRecord(r, Call(q))
<1> SUFFICES ASSUME NEW tool \in Tools
             PROVE  /\ n.ran[tool] <= n.counts[tool] /\ n.counts[tool] < RepeatLimit
                    /\ n.ran[tool] + Cardinality(Due(n, tool)) <= Cardinality(Recorded(t, r, tool))
  BY DEF CountInv
<1>1. /\ q.next \in 1 .. Len(q.turn) /\ Len(q.turn) \in Nat /\ Call(q) \in Calls
      /\ e \in Records /\ e.of = r /\ e.kind = "call" /\ e.tool = used
  BY CallType, RecordType DEF RecordMove, Busy, CallRecord
<1>2. /\ q.ran[tool] \in Nat /\ q.counts[tool] \in Nat
      /\ Cardinality(Due(q, tool)) \in Nat /\ Cardinality(Due(n, tool)) \in Nat
      /\ Cardinality(Recorded(s, r, tool)) \in Nat /\ Cardinality(Recorded(t, r, tool)) \in Nat
  BY <1>1, CountTypes, DueCount, RecordedCount, RecordedGrows DEF RecordMove
<1>3. /\ q.ran[tool] <= q.counts[tool] /\ q.counts[tool] < RepeatLimit
      /\ q.ran[tool] + Cardinality(Due(q, tool)) <= Cardinality(Recorded(s, r, tool))
  BY DEF CountInv
<1>4. /\ n.turn = q.turn /\ n.ran = q.ran /\ n.counts = q.counts /\ q.at = "record"
      /\ n.at = IF Last(q) THEN "call" ELSE "record"
      /\ n.next = IF Last(q) THEN 1 ELSE q.next + 1
  BY DEF RecordMove, Drivers, After
<1>5. Taken(n) = Taken(q) \cup {q.next} /\ q.next \notin Taken(q)
  BY <1>1, <1>4 DEF Taken, Busy, Last
<1>6. CASE tool = used
  <2>1. Due(n, tool) = Due(q, tool) \cup {q.next} /\ q.next \notin Due(q, tool)
    BY <1>4, <1>5, <1>6 DEF Due, Call
  <2>2. Cardinality(Due(n, tool)) = Cardinality(Due(q, tool)) + 1
    BY <2>1, DueCount, FS_AddElement
  <2>3. Cardinality(Recorded(t, r, tool)) = Cardinality(Recorded(s, r, tool)) + 1
    BY <1>1, <1>6, RecordedGrows DEF RecordMove
  <2>4. QED
    BY <1>2, <1>3, <1>4, <2>2, <2>3
<1>7. CASE tool # used
  <2>1. Due(n, tool) = Due(q, tool)
    BY <1>4, <1>5, <1>7 DEF Due, Call
  <2>2. Cardinality(Recorded(s, r, tool)) <= Cardinality(Recorded(t, r, tool))
    BY <1>1, RecordedGrows DEF RecordMove
  <2>3. QED
    BY <1>2, <1>3, <1>4, <2>1, <2>2
<1>8. QED
  BY <1>6, <1>7

LEMMA CountMoves ==
  ASSUME NEW r \in Runs, NEW q \in Drivers, TurnInv(q), NEW n \in Drivers, TurnInv(n),
         NEW s \in Seq(Records), NEW t, CountInv(r, q, s), Move(r, q, n, s, t)
  PROVE  CountInv(r, n, t)
<1>1. CASE LeaveMove(r, n, s, t)
  <2>1. ASSUME NEW tool \in Tools
        PROVE  n.ran[tool] = 0 /\ n.counts[tool] = 0 /\ Cardinality(Due(n, tool)) = 0
    <3>1. n.ran[tool] = 0 /\ n.counts[tool] = 0 /\ n.at = "settled"
      BY <1>1 DEF LeaveMove, Idle
    <3>2. Due(n, tool) = {}
      BY <3>1 DEF Due, Taken, Busy
    <3>3. QED
      BY <3>1, <3>2, FS_EmptySet
  <2>2. t \in Seq(Records)
    BY <1>1 DEF LeaveMove
  <2>3. QED
    BY <2>1, <2>2, RecordedCount, Bounds DEF CountInv
<1>2. CASE QuietMove(q, n, s) /\ t = s
  <2>0. \A tool \in Tools : q.counts[tool] \in Nat /\ q.counts[tool] < RepeatLimit
    BY CountTypes DEF CountInv
  <2>1. ASSUME n.ran = q.ran, n.counts = q.counts, Taken(n) = {} PROVE CountInv(r, n, t)
    <3>1. \A tool \in Tools : Due(n, tool) \subseteq Due(q, tool)
      BY <2>1 DEF Due
    <3>2. \A tool \in Tools : n.counts[tool] >= q.counts[tool] /\ n.counts[tool] < RepeatLimit
      BY <2>0, <2>1
    <3>3. QED
      BY <1>2, <2>1, <3>1, <3>2, CountKept
  <2>2. CASE StartMove(q, n)
    BY <2>1, <2>2 DEF StartMove, Drivers, Taken, Busy
  <2>3. CASE AskMove(q, n, s)
    BY <2>1, <2>3 DEF AskMove, Drivers, Taken, Busy
  <2>4. CASE FailMove(q, n)
    BY <2>1, <2>4 DEF FailMove, Drivers, Taken, Busy
  <2>5. CASE DecideMove(q, n)
    BY <2>1, <2>5 DEF DecideMove, Drivers, Taken, Busy
  <2>6. ASSUME NEW calls \in Seq(Calls), AnswerMove(q, n, calls) PROVE CountInv(r, n, t)
    <3>1. n.next = 1 /\ n.at = "record" /\ n.ran = q.ran /\ n.counts = q.counts
      BY <2>6 DEF AnswerMove, Drivers, TurnInv, Busy
    <3>2. Taken(n) = {}
      BY <3>1 DEF Taken
    <3>3. QED
      BY <2>1, <3>1, <3>2
  <2>7. CASE CountMove(q, n, TRUE)
    BY <1>2, <2>7, CountCarried
  <2>8. CASE CountMove(q, n, FALSE)
    <3>1. /\ n.ran = q.ran /\ n.turn = q.turn /\ n.next = q.next /\ n.at = "answering"
          /\ q.at = "call" /\ q.counts[Call(q).tool] + 1 < RepeatLimit
          /\ n.counts = [q.counts EXCEPT ![Call(q).tool] = q.counts[Call(q).tool] + 1]
      BY <2>8 DEF CountMove, Drivers
    <3>2. \A tool \in Tools : n.counts[tool] >= q.counts[tool] /\ n.counts[tool] < RepeatLimit
      <4>1. \A tool \in Tools :
              n.counts[tool] = IF tool = Call(q).tool THEN q.counts[tool] + 1 ELSE q.counts[tool]
        BY <3>1 DEF Drivers
      <4>2. QED
        BY <2>0, <3>1, <4>1
    <3>3. \A tool \in Tools : Due(n, tool) \subseteq Due(q, tool)
      BY <3>1 DEF Due, Taken, Busy
    <3>4. QED
      BY <1>2, <3>1, <3>2, <3>3, CountKept
  <2>9. ASSUME NEW how \in {"ok", "isError", "thrown"}, SettleMove(q, n, how)
        PROVE  CountInv(r, n, t)
    <3>1. /\ n.ran = q.ran /\ n.turn = q.turn /\ n.next = q.next /\ n.at = "answering"
          /\ q.at = "worker" /\ n.counts = q.counts
      BY <2>9 DEF SettleMove, Drivers
    <3>2. \A tool \in Tools : Due(n, tool) \subseteq Due(q, tool)
      BY <3>1 DEF Due, Taken, Busy
    <3>3. \A tool \in Tools : n.counts[tool] >= q.counts[tool] /\ n.counts[tool] < RepeatLimit
      BY <2>0, <3>1
    <3>4. QED
      BY <1>2, <3>1, <3>2, <3>3, CountKept
  <2>10. QED
    BY <1>2, <2>2, <2>3, <2>4, <2>5, <2>6, <2>7, <2>8, <2>9 DEF QuietMove
<1>3. CASE RecordMove(r, q, n, s, t)
  BY <1>3, CountRecorded
<1>4. ASSUME n.ran = q.ran, n.counts = q.counts, NEW e \in Records, t = s \/ t = Append(s, e),
             \A tool \in Tools : Due(n, tool) \subseteq Due(q, tool)
      PROVE  CountInv(r, n, t)
  <2>1. \A tool \in Tools : n.counts[tool] >= q.counts[tool] /\ n.counts[tool] < RepeatLimit
    BY <1>4, CountTypes DEF CountInv
  <2>2. CountInv(r, n, s)
    BY <1>4, <2>1, CountKept
  <2>3. QED
    BY <1>4, <2>2, CountFrame
<1>5. CASE RespondMove(r, q, n, s, t)
  <2>1. ResultRecord(r, Call(q), q.result # "ok") \in Records /\ q.next \in 1 .. Len(q.turn)
    BY <1>5, CallType, RecordType DEF RespondMove, Busy
  <2>2. /\ n.ran = q.ran /\ n.counts = q.counts /\ q.at = "answering"
        /\ n.at = IF Last(q) THEN "driver" ELSE "call"
        /\ n.turn = IF Last(q) THEN <<>> ELSE q.turn
        /\ n.next = IF Last(q) THEN 1 ELSE q.next + 1
    BY <1>5 DEF RespondMove, Drivers, After
  <2>3. \A tool \in Tools : Due(n, tool) \subseteq Due(q, tool)
    BY <2>1, <2>2 DEF Due, Taken, Busy, Last, Drivers
  <2>4. QED
    BY <1>4, <1>5, <2>1, <2>2, <2>3 DEF RespondMove
<1>6. CASE RetellMove(r, q, n, s, t)
  <2>1. ResultRecord(r, Call(q), q.result # "ok") \in Records
    BY <1>6, CallType, RecordType DEF RetellMove, Busy
  <2>2. /\ n.ran = q.ran /\ n.counts = q.counts /\ n.at = q.at /\ n.turn = q.turn
        /\ n.next = q.next
    BY <1>6 DEF RetellMove, Drivers
  <2>3. \A tool \in Tools : Due(n, tool) \subseteq Due(q, tool)
    BY <2>2 DEF Due, Taken
  <2>4. QED
    BY <1>4, <1>6, <2>1, <2>2, <2>3 DEF RetellMove
<1>7. QED
  BY <1>1, <1>2, <1>3, <1>5, <1>6 DEF Move

-----------------------------------------------------------------------------
(* What a run has recorded is answered, or will be.                        *)

LEMMA AnsweredStays ==
  ASSUME NEW s \in Seq(Records), NEW e \in Records, NEW c \in DOMAIN s, Answered(s, c)
  PROVE  Answered(Append(s, e), c)
BY DEF Answered

LEMMA AnswerFrame ==
  ASSUME NEW r, NEW q, NEW s \in Seq(Records), NEW e \in Records,
         e.of # r \/ e.kind = "result", AnswerInv(r, q, s)
  PROVE  AnswerInv(r, q, Append(s, e))
<1> DEFINE t == Append(s, e)
<1> SUFFICES ASSUME q.at # "settled", NEW c \in DOMAIN t, t[c].of = r, t[c].kind = "call"
             PROVE  Answered(t, c) \/ \E k \in Taken(q) : q.turn[k].id = t[c].id
  BY DEF AnswerInv
<1>1. c \in DOMAIN s /\ t[c] = s[c]
  OBVIOUS
<1>2. Answered(s, c) \/ \E k \in Taken(q) : q.turn[k].id = s[c].id
  BY <1>1 DEF AnswerInv
<1>3. QED
  BY <1>1, <1>2, AnsweredStays

LEMMA AnswerKept ==
  ASSUME NEW r, NEW q, NEW n, NEW s, AnswerInv(r, q, s), q.at # "settled",
         Taken(q) # {} => n.turn = q.turn, Taken(q) \subseteq Taken(n)
  PROVE  AnswerInv(r, n, s)
BY DEF AnswerInv

LEMMA AnswerMoves ==
  ASSUME NEW r \in Runs, NEW q \in Drivers, TurnInv(q), NEW n \in Drivers,
         NEW s \in Seq(Records), NEW t, AnswerInv(r, q, s), Move(r, q, n, s, t)
  PROVE  AnswerInv(r, n, t)
<1>1. CASE LeaveMove(r, n, s, t)
  BY <1>1 DEF LeaveMove, Idle, AnswerInv
<1>2. CASE QuietMove(q, n, s) /\ t = s
  <2>1. ASSUME q.at \notin Busy, q.at # "settled" PROVE AnswerInv(r, n, t)
    <3>1. Taken(q) = {}
      BY <2>1 DEF Taken, Busy
    <3>2. QED
      BY <1>2, <2>1, <3>1, AnswerKept
  <2>2. CASE StartMove(q, n)
    BY <2>1, <2>2 DEF StartMove, Busy
  <2>3. CASE AskMove(q, n, s)
    BY <2>1, <2>3 DEF AskMove, Busy
  <2>4. CASE FailMove(q, n)
    BY <2>1, <2>4 DEF FailMove, Busy
  <2>5. CASE DecideMove(q, n)
    BY <2>1, <2>5 DEF DecideMove, Busy
  <2>6. ASSUME NEW calls \in Seq(Calls), AnswerMove(q, n, calls) PROVE AnswerInv(r, n, t)
    BY <2>1, <2>6 DEF AnswerMove, Busy
  <2>7. ASSUME NEW carried \in BOOLEAN, CountMove(q, n, carried) PROVE AnswerInv(r, n, t)
    <3>1. n.turn = q.turn /\ n.next = q.next /\ q.at = "call" /\ n.at \in {"worker", "answering"}
      BY <2>7 DEF CountMove, Drivers
    <3>2. Taken(n) = Taken(q)
      BY <3>1 DEF Taken, Busy
    <3>3. QED
      BY <1>2, <3>1, <3>2, AnswerKept
  <2>8. ASSUME NEW how \in {"ok", "isError", "thrown"}, SettleMove(q, n, how)
        PROVE  AnswerInv(r, n, t)
    <3>1. n.turn = q.turn /\ n.next = q.next /\ q.at = "worker" /\ n.at = "answering"
      BY <2>8 DEF SettleMove, Drivers
    <3>2. Taken(n) = Taken(q)
      BY <3>1 DEF Taken, Busy
    <3>3. QED
      BY <1>2, <3>1, <3>2, AnswerKept
  <2>9. QED
    BY <1>2, <2>2, <2>3, <2>4, <2>5, <2>6, <2>7, <2>8 DEF QuietMove
<1>3. CASE RecordMove(r, q, n, s, t)
  <2> DEFINE e == CallRecord(r, Call(q))
  <2>1. /\ q.next \in 1 .. Len(q.turn) /\ Len(q.turn) \in Nat /\ e \in Records
        /\ e.id = q.turn[q.next].id /\ t = Append(s, e)
    BY <1>3, CallType, RecordType DEF RecordMove, Busy, CallRecord, Call
  <2>2. /\ n.turn = q.turn /\ q.at = "record" /\ n.at = IF Last(q) THEN "call" ELSE "record"
        /\ n.next = IF Last(q) THEN 1 ELSE q.next + 1
    BY <1>3 DEF RecordMove, Drivers, After
  <2>3. Taken(n) = Taken(q) \cup {q.next}
    BY <2>1, <2>2 DEF Taken, Busy, Last
  <2> SUFFICES ASSUME NEW c \in DOMAIN t, t[c].of = r, t[c].kind = "call"
               PROVE  Answered(t, c) \/ \E k \in Taken(n) : n.turn[k].id = t[c].id
    BY DEF AnswerInv
  <2>4. CASE c = Len(s) + 1
    <3>1. t[c] = e
      BY <2>1, <2>4
    <3>2. QED
      BY <2>1, <2>2, <2>3, <3>1
  <2>5. CASE c # Len(s) + 1
    <3>1. c \in DOMAIN s /\ t[c] = s[c]
      BY <2>1, <2>5
    <3>2. Answered(s, c) \/ \E k \in Taken(q) : q.turn[k].id = s[c].id
      BY <2>2, <3>1 DEF AnswerInv
    <3>3. QED
      BY <2>1, <2>2, <2>3, <3>1, <3>2, AnsweredStays
  <2>6. QED
    BY <2>4, <2>5
<1>4. CASE RespondMove(r, q, n, s, t)
  <2> DEFINE e == ResultRecord(r, Call(q), q.result # "ok")
  <2>1. /\ q.next \in 1 .. Len(q.turn) /\ Len(q.turn) \in Nat /\ e \in Records
        /\ e.id = q.turn[q.next].id /\ e.kind = "result" /\ t = Append(s, e)
    BY <1>4, CallType, RecordType DEF RespondMove, Busy, ResultRecord, Call
  <2>2. /\ q.at = "answering" /\ n.at = IF Last(q) THEN "driver" ELSE "call"
        /\ n.turn = IF Last(q) THEN <<>> ELSE q.turn
        /\ n.next = IF Last(q) THEN 1 ELSE q.next + 1
    BY <1>4 DEF RespondMove, Drivers, After
  <2>3. \A k \in Taken(q) : k # q.next => k \in Taken(n) /\ n.turn = q.turn
    BY <2>1, <2>2 DEF Taken, Busy, Last
  <2> SUFFICES ASSUME NEW c \in DOMAIN t, t[c].of = r, t[c].kind = "call"
               PROVE  Answered(t, c) \/ \E k \in Taken(n) : n.turn[k].id = t[c].id
    BY DEF AnswerInv
  <2>4. c \in DOMAIN s /\ t[c] = s[c] /\ Len(s) \in Nat
    BY <2>1
  <2>5. CASE s[c].id = e.id
    <3>1. Len(s) + 1 \in c + 1 .. Len(t) /\ t[Len(s) + 1] = e
      BY <2>1, <2>4
    <3>2. QED
      BY <2>1, <2>4, <2>5, <3>1 DEF Answered
  <2>6. CASE s[c].id # e.id
    <3>1. Answered(s, c) \/ \E k \in Taken(q) : q.turn[k].id = s[c].id
      BY <2>2, <2>4 DEF AnswerInv
    <3>2. QED
      BY <2>1, <2>3, <2>4, <2>6, <3>1, AnsweredStays
  <2>7. QED
    BY <2>5, <2>6
<1>5. CASE RetellMove(r, q, n, s, t)
  <2> DEFINE e == ResultRecord(r, Call(q), q.result # "ok")
  <2>1. e \in Records /\ e.kind = "result"
    BY <1>5, CallType, RecordType DEF RetellMove, Busy, ResultRecord
  <2>2. n.at = q.at /\ n.turn = q.turn /\ n.next = q.next /\ q.at = "answering"
    BY <1>5 DEF RetellMove, Drivers
  <2>3. Taken(n) = Taken(q)
    BY <2>2 DEF Taken
  <2>4. AnswerInv(r, n, s)
    BY <2>2, <2>3, AnswerKept
  <2>5. QED
    BY <1>5, <2>1, <2>4, AnswerFrame DEF RetellMove
<1>6. QED
  BY <1>1, <1>2, <1>3, <1>4, <1>5 DEF Move

-----------------------------------------------------------------------------
(* Retries follow what failed.                                             *)

LEMMA RetryFrame ==
  ASSUME NEW r, NEW q \in Drivers, NEW s \in Seq(Records), NEW e \in Records, e.of # r,
         RetryInv(r, q, s)
  PROVE  RetryInv(r, q, Append(s, e))
<1>1. Silent(r, q, s) => Silent(r, q, Append(s, e))
  BY DEF Silent, Drivers
<1>2. QED
  BY <1>1 DEF RetryInv

LEMMA RetryMoves ==
  ASSUME NEW r \in Runs, NEW q \in Drivers, TurnInv(q), NEW n \in Drivers,
         NEW s \in Seq(Records), NEW t, RetryInv(r, q, s), Move(r, q, n, s, t)
  PROVE  RetryInv(r, n, t)
<1>1. CASE LeaveMove(r, n, s, t)
  BY <1>1 DEF LeaveMove, Idle, RetryInv
<1>2. ASSUME n.at \in Busy PROVE RetryInv(r, n, t)
  BY <1>2 DEF RetryInv, Busy
<1>3. CASE QuietMove(q, n, s) /\ t = s
  <2>1. CASE StartMove(q, n)
    <3>1. /\ n.at = "driver" /\ n.attempt = q.attempt /\ n.retryOf = q.retryOf
          /\ n.status = q.status /\ n.decided = q.decided /\ n.shown = q.shown
      BY <2>1 DEF StartMove, Drivers
    <3>2. Silent(r, q, s) => Silent(r, n, s)
      BY <3>1 DEF Silent
    <3>3. QED
      BY <1>3, <2>1, <3>1, <3>2 DEF StartMove, RetryInv
  <2>2. CASE AskMove(q, n, s)
    <3>1. n.at = "provider" /\ n.attempt = q.attempt + 1 /\ n.shown = Len(s) /\ q.attempt \in Nat
      BY <2>2 DEF AskMove, Drivers
    <3>2. Silent(r, n, s)
      BY <3>1 DEF Silent
    <3>3. QED
      BY <1>3, <3>1, <3>2 DEF RetryInv
  <2>3. CASE FailMove(q, n)
    <3>1. /\ n.at = "deciding" /\ n.attempt = q.attempt /\ n.status = "retryable"
          /\ n.shown = q.shown /\ q.at = "provider"
      BY <2>3 DEF FailMove, Drivers
    <3>2. Silent(r, q, s) => Silent(r, n, s)
      BY <3>1 DEF Silent
    <3>3. QED
      BY <1>3, <3>1, <3>2 DEF RetryInv
  <2>4. CASE DecideMove(q, n)
    <3>1. /\ n.at = "backoff" /\ n.attempt = q.attempt /\ n.status = q.status
          /\ n.shown = q.shown /\ q.at = "deciding" /\ n.retryOf = q.attempt /\ n.decided
          /\ q.attempt \in Nat
      BY <2>4 DEF DecideMove, Drivers
    <3>2. Silent(r, q, s) => Silent(r, n, s)
      BY <3>1 DEF Silent
    <3>3. QED
      BY <1>3, <3>1, <3>2 DEF RetryInv
  <2>5. ASSUME NEW calls \in Seq(Calls), AnswerMove(q, n, calls) PROVE RetryInv(r, n, t)
    BY <1>2, <2>5 DEF AnswerMove, Drivers, Busy
  <2>6. ASSUME NEW carried \in BOOLEAN, CountMove(q, n, carried) PROVE RetryInv(r, n, t)
    BY <1>2, <2>6 DEF CountMove, Drivers, Busy
  <2>7. ASSUME NEW how \in {"ok", "isError", "thrown"}, SettleMove(q, n, how)
        PROVE  RetryInv(r, n, t)
    BY <1>2, <2>7 DEF SettleMove, Drivers, Busy
  <2>8. QED
    BY <1>3, <2>1, <2>2, <2>3, <2>4, <2>5, <2>6, <2>7 DEF QuietMove
<1>4. CASE RecordMove(r, q, n, s, t)
  BY <1>2, <1>4 DEF RecordMove, Drivers, Busy
<1>5. CASE RespondMove(r, q, n, s, t)
  <2>1. /\ n.at \in {"driver", "call"} /\ n.status = q.status /\ n.retryOf = q.retryOf
        /\ q.at = "answering"
    BY <1>5 DEF RespondMove, Drivers
  <2>2. q.status = "completed" /\ q.retryOf = 0
    BY <2>1 DEF TurnInv, Busy
  <2>3. QED
    BY <2>1, <2>2 DEF RetryInv
<1>6. CASE RetellMove(r, q, n, s, t)
  BY <1>2, <1>6 DEF RetellMove, Drivers, Busy
<1>7. QED
  BY <1>1, <1>3, <1>4, <1>5, <1>6 DEF Move

-----------------------------------------------------------------------------
(* Providers are asked when all is answered.                               *)

LEMMA AskedFrame ==
  ASSUME NEW r, NEW q \in Drivers, NEW s \in Seq(Records), NEW e \in Records, q.shown <= Len(s),
         AskedInv(r, q, s)
  PROVE  AskedInv(r, q, Append(s, e))
<1>1. SubSeq(Append(s, e), 1, q.shown) = SubSeq(s, 1, q.shown)
  BY DEF Drivers
<1>2. QED
  BY <1>1 DEF AskedInv

LEMMA AskedMoves ==
  ASSUME NEW r \in Runs, NEW q \in Drivers, TurnInv(q), NEW n, NEW s \in Seq(Records), NEW t,
         AnswerInv(r, q, s), Move(r, q, n, s, t)
  PROVE  AskedInv(r, n, t)
<1>1. ASSUME n.at # "provider" PROVE AskedInv(r, n, t)
  BY <1>1 DEF AskedInv
<1>2. CASE AskMove(q, n, s) /\ t = s
  <2>1. n.shown = Len(s) /\ q.at = "driver" /\ ToolStructureOK(s)
    BY <1>2 DEF AskMove, Drivers
  <2>2. SubSeq(s, 1, n.shown) = s
    BY <2>1
  <2>3. ASSUME NEW i \in DOMAIN s, s[i].of = r, s[i].kind = "call"
        PROVE  Cardinality(Answers(s, i)) = 1
    <3>1. Taken(q) = {}
      BY <2>1 DEF Taken, Busy
    <3>2. Answered(s, i)
      BY <2>1, <2>3, <3>1 DEF AnswerInv
    <3>3. PICK j \in Answers(s, i) : TRUE
      BY <3>2 DEF Answered, Answers
    <3>4. ASSUME NEW k \in Answers(s, i) PROVE k = j
      <4>1. /\ k \in DOMAIN s /\ j \in DOMAIN s /\ k \in Nat /\ j \in Nat
            /\ <<s[k].kind, s[k].id>> = <<s[j].kind, s[j].id>>
        BY <3>3, <3>4 DEF Answers
      <4>2. ~(k \in 1 .. j - 1) /\ ~(j \in 1 .. k - 1)
        BY <2>1, <4>1 DEF ToolStructureOK
      <4>3. QED
        BY <4>1, <4>2
    <3>5. Answers(s, i) = {j}
      BY <3>3, <3>4
    <3>6. QED
      BY <3>5, FS_Singleton
  <2>4. QED
    BY <1>2, <2>2, <2>3 DEF AskedInv, AnsweredOnce
<1>3. CASE QuietMove(q, n, s) /\ t = s
  <2>1. CASE StartMove(q, n) \/ FailMove(q, n) \/ DecideMove(q, n)
    BY <1>1, <2>1 DEF StartMove, FailMove, DecideMove, Drivers
  <2>2. ASSUME NEW calls \in Seq(Calls), AnswerMove(q, n, calls) PROVE AskedInv(r, n, t)
    BY <1>1, <2>2 DEF AnswerMove, Drivers
  <2>3. ASSUME NEW carried \in BOOLEAN, CountMove(q, n, carried) PROVE AskedInv(r, n, t)
    BY <1>1, <2>3 DEF CountMove, Drivers
  <2>4. ASSUME NEW how \in {"ok", "isError", "thrown"}, SettleMove(q, n, how)
        PROVE  AskedInv(r, n, t)
    BY <1>1, <2>4 DEF SettleMove, Drivers
  <2>5. QED
    BY <1>2, <1>3, <2>1, <2>2, <2>3, <2>4 DEF QuietMove
<1>4. CASE LeaveMove(r, n, s, t)
  BY <1>1, <1>4 DEF LeaveMove, Idle
<1>5. CASE RecordMove(r, q, n, s, t) \/ RespondMove(r, q, n, s, t)
  BY <1>1, <1>5 DEF RecordMove, RespondMove, Drivers
<1>6. CASE RetellMove(r, q, n, s, t)
  BY <1>1, <1>6 DEF RetellMove, Drivers
<1>7. QED
  BY <1>3, <1>4, <1>5, <1>6 DEF Move

\* Together: a run's own moves, and those of others.
LEMMA RunMoves ==
  ASSUME NEW r \in Runs, NEW q \in Drivers, NEW n, NEW s \in Seq(Records), NEW t,
         q.shown <= Len(s), RunInv(r, q, s), Move(r, q, n, s, t)
  PROVE  /\ n \in Drivers /\ n.shown <= Len(t) /\ RunInv(r, n, t)
         /\ t \in Seq(Records) /\ Len(s) <= Len(t)
BY MoveType, CountMoves, AnswerMoves, RetryMoves, AskedMoves DEF RunInv

LEMMA RunFrame ==
  ASSUME NEW r \in Runs, NEW q \in Drivers, NEW s \in Seq(Records), NEW e \in Records,
         e.of # r, q.shown <= Len(s), RunInv(r, q, s)
  PROVE  RunInv(r, q, Append(s, e))
BY CountFrame, AnswerFrame, RetryFrame, AskedFrame DEF RunInv

-----------------------------------------------------------------------------
(* Every step is a move.                                                   *)

\* Only the variables of r change.
Becomes(r, q) == run' = [run EXCEPT ![r] = q]

LEMMA RunType ==
  ASSUME TypeOK, NEW r \in Runs
  PROVE  /\ run[r] \in Drivers /\ run[r].shown <= Len(journal)
         /\ DOMAIN run = Runs /\ run = [o \in Runs |-> run[o]]
<1>1. run[r] \in RunStates /\ DOMAIN run = Runs /\ run = [o \in Runs |-> run[o]]
  BY DEF TypeOK
<1>2. QED
  BY <1>1, RunStatesAreDrivers, JournalType

LEMMA LeaveBecomes ==
  ASSUME TypeOK, NEW r \in Runs, Leave(r)
  PROVE  Becomes(r, Idle("settled"))
BY DEF Becomes, Leave

LEMMA StartSteps ==
  ASSUME TypeOK, NEW r \in Runs, Start(r)
  PROVE  /\ \E n : Becomes(r, n) /\ StartMove(run[r], n)
         /\ UNCHANGED <<journal, aborted, budget>>
<1> DEFINE n == [run[r] EXCEPT !.at = "driver"]
<1>1. Becomes(r, n)
  BY RunType DEF Start, Becomes
<1>2. QED
  BY <1>1 DEF Start, StartMove

LEMMA WakeSteps ==
  ASSUME TypeOK, NEW r \in Runs, Wake(r)
  PROVE  /\ \E n : Becomes(r, n) /\ StartMove(run[r], n)
         /\ UNCHANGED <<journal, aborted, budget>>
<1> DEFINE n == [run[r] EXCEPT !.at = "driver"]
<1>1. Becomes(r, n)
  BY RunType DEF Wake, Becomes
<1>2. QED
  BY <1>1 DEF Wake, StartMove

LEMMA CancelSteps ==
  ASSUME TypeOK, NEW r \in Runs, Cancel(r)
  PROVE  /\ \/ Leave(r)
            \/ UNCHANGED run /\ aborted' = aborted \cup {r} /\ run[r].at \notin {"none", "settled"}
         /\ UNCHANGED <<journal, budget>>
BY DEF Cancel

LEMMA AskSteps ==
  ASSUME TypeOK, NEW r \in Runs, Ask(r)
  PROVE  /\ \/ Leave(r)
            \/ /\ \E n : Becomes(r, n) /\ AskMove(run[r], n, journal) /\ n.at = "provider"
               /\ UNCHANGED aborted
         /\ UNCHANGED <<journal, budget>>
<1> DEFINE q == run[r]
           n == [q EXCEPT !.at = "provider", !.attempt = q.attempt + 1, !.status = "running",
                          !.decided = FALSE, !.shown = Len(journal), !.target = q.retryOf]
<1>1. q \in Drivers
  BY RunType
<1>2. SUFFICES ASSUME ~Leave(r) PROVE Becomes(r, n) /\ AskMove(q, n, journal) /\ n.at = "provider"
  BY DEF Ask
<1>3. Becomes(r, n)
  BY <1>1, <1>2, RunType DEF Ask, Becomes, Drivers
<1>4. q.attempt < MaxAttempts
  BY <1>1, <1>2, Bounds DEF Ask, Drivers
<1>5. n.at = "provider"
  BY <1>1 DEF Drivers
<1>6. QED
  BY <1>2, <1>3, <1>4, <1>5 DEF Ask, AskMove

LEMMA FailSteps ==
  ASSUME TypeOK, NEW r \in Runs, Fail(r)
  PROVE  /\ \/ Leave(r)
            \/ (\E n : Becomes(r, n) /\ FailMove(run[r], n)) /\ UNCHANGED aborted
         /\ UNCHANGED <<journal, budget>>
<1> DEFINE q == run[r]
           n == [q EXCEPT !.at = "deciding", !.status = "retryable", !.retries = q.retries + 1]
<1>1. q \in Drivers
  BY RunType
<1>2. SUFFICES ASSUME ~Leave(r) PROVE Becomes(r, n) /\ FailMove(q, n)
  BY DEF Fail
<1>3. Becomes(r, n)
  BY <1>1, <1>2, RunType DEF Fail, Becomes, Drivers
<1>4. QED
  BY <1>2, <1>3 DEF Fail, FailMove

LEMMA DecideSteps ==
  ASSUME TypeOK, NEW r \in Runs, Decide(r)
  PROVE  /\ \E n : Becomes(r, n) /\ DecideMove(run[r], n)
         /\ UNCHANGED <<journal, aborted, budget>>
<1> DEFINE q == run[r]
           n == [q EXCEPT !.at = "backoff", !.decided = TRUE, !.retryOf = q.attempt]
<1>1. Becomes(r, n)
  BY RunType DEF Decide, Becomes, Drivers
<1>2. QED
  BY <1>1 DEF Decide, DecideMove

AnswersWith(r, m, tools, reuse) ==
  LET fresh == IF reuse = 0 THEN m ELSE m - 1
      calls == [i \in 1 .. m |->
                  [id |-> IF i <= fresh THEN ids + i ELSE reuse, tool |-> tools[i]]]
  IN  /\ m = 0 => reuse = 0
      /\ ids + fresh <= MaxIds
      /\ reuse # 0 => reuses < MaxReuses
      /\ ids' = ids + fresh
      /\ reuses' = IF reuse = 0 THEN reuses ELSE reuses + 1
      /\ IF m = 0
           THEN Leave(r)
           ELSE /\ run' = [run EXCEPT ![r].at = AfterAnswer, ![r].status = "completed",
                                      ![r].turn = calls, ![r].retries = 0,
                                      ![r].retryOf = NextTarget(r)]
                /\ UNCHANGED aborted

\* The ids of an answer are new ones, but the last may be one used before.
LEMMA AnswerSteps ==
  ASSUME TypeOK, NEW r \in Runs, Answer(r)
  PROVE  /\ UNCHANGED <<journal, faults>>
         /\ \/ Leave(r) /\ UNCHANGED <<ids, reuses>>
            \/ /\ UNCHANGED aborted
               /\ \E n : \E calls \in Seq(Calls) :
                    /\ Becomes(r, n) /\ AnswerMove(run[r], n, calls)
                    /\ ids' \in ids .. MaxIds /\ reuses' \in reuses .. MaxReuses
                    /\ reuses' = reuses =>
                         ids' = ids + Len(calls) /\ \A i \in DOMAIN calls : calls[i].id = ids + i
<1> DEFINE q == run[r]
<1>1. q \in Drivers /\ ids \in Nat /\ ids <= MaxIds /\ reuses \in Nat /\ reuses <= MaxReuses
  BY RunType, Bounds, AgentLoopAssumption DEF TypeOK
<1>2. PICK m \in 0 .. MaxCalls :
        \E tools \in [1 .. m -> Tools] : \E reuse \in 0 .. ids : AnswersWith(r, m, tools, reuse)
  BY Zenon DEF Answer, AnswersWith
<1>20. PICK tools \in [1 .. m -> Tools] : \E reuse \in 0 .. ids : AnswersWith(r, m, tools, reuse)
  BY <1>2
<1>21. PICK reuse \in 0 .. ids : AnswersWith(r, m, tools, reuse)
  BY <1>20
<1> DEFINE fresh == IF reuse = 0 THEN m ELSE m - 1
           calls == [i \in 1 .. m |->
                       [id |-> IF i <= fresh THEN ids + i ELSE reuse, tool |-> tools[i]]]
           n == [q EXCEPT !.at = "record", !.status = "completed", !.turn = calls, !.retries = 0,
                          !.retryOf = 0]
<1>22. /\ ids + fresh <= MaxIds /\ (reuse # 0 => reuses < MaxReuses) /\ ids' = ids + fresh
       /\ reuses' = IF reuse = 0 THEN reuses ELSE reuses + 1
  BY <1>21 DEF AnswersWith
<1>3. UNCHANGED <<journal, faults>> /\ q.at = "provider"
  BY DEF Answer
<1>4. CASE m = 0
  BY <1>1, <1>21, <1>3, <1>4 DEF AnswersWith
<1>5. CASE m # 0
  <2>1. m \in Nat \ {0} /\ fresh \in Nat /\ fresh <= m /\ (reuse # 0 => fresh = m - 1)
    BY <1>5, Bounds
  <2>2. calls \in Seq(Calls) /\ Len(calls) = m /\ DOMAIN calls = 1 .. m
    <3>1. ASSUME NEW i \in 1 .. m
          PROVE  [id |-> IF i <= fresh THEN ids + i ELSE reuse, tool |-> tools[i]] \in Calls
      <4>1. (IF i <= fresh THEN ids + i ELSE reuse) \in 1 .. MaxIds
        BY <1>1, <1>22, <2>1, Bounds
      <4>2. QED
        BY <4>1 DEF Calls
    <3>2. calls \in [1 .. m -> Calls]
      BY <3>1
    <3>3. QED
      BY <2>1, <3>2
  <2>3. Becomes(r, n)
    BY <1>1, <1>21, <1>5, RunType DEF Becomes, AfterAnswer, NextTarget, Drivers, AnswersWith
  <2>4. ids' \in ids .. MaxIds /\ reuses' \in reuses .. MaxReuses
    BY <1>1, <1>22, <2>1, Bounds
  <2>5. reuses' = reuses => fresh = m
    BY <1>1, <1>22
  <2>6. reuses' = reuses => ids' = ids + Len(calls) /\ \A i \in DOMAIN calls : calls[i].id = ids + i
    BY <1>22, <2>1, <2>2, <2>5
  <2>7. AnswerMove(q, n, calls)
    BY <1>3, <1>5, <2>2 DEF AnswerMove
  <2>8. QED
    BY <1>21, <1>3, <1>5, <2>2, <2>3, <2>4, <2>6, <2>7 DEF AnswersWith
<1>6. QED
  BY <1>4, <1>5

LEMMA CurrentIsCall ==
  ASSUME NEW r \in Runs
  PROVE  CurrentCall(r) = Call(run[r]) /\ LastCall(r) = Last(run[r]) /\ NextIndex(r) = After(run[r])
BY DEF CurrentCall, Call, LastCall, Last, NextIndex, After

\* A fault, on which the driver leaves: the row may be there all the same.
LeaveWith(r, e) == StorageFails /\ Leave(r) /\ journal' \in {journal, Append(journal, e)}

LEMMA RecordSteps ==
  ASSUME TypeOK, NEW r \in Runs, TurnInv(run[r]), Record(r)
  PROVE  /\ \/ Leave(r) /\ UNCHANGED <<journal, faults>>
            \/ /\ UNCHANGED <<aborted, faults>>
               /\ \E n : Becomes(r, n) /\ RecordMove(r, run[r], n, journal, journal')
            \/ \E e \in Records : e.of = r /\ LeaveWith(r, e)
         /\ UNCHANGED <<ids, reuses>>
<1> DEFINE q == run[r]
           n == [q EXCEPT !.at = IF Last(q) THEN "call" ELSE "record", !.next = After(q)]
           e == CallRecord(r, Call(q))
<1>1. q \in Drivers /\ q.at = "record"
  BY RunType DEF Record
<1>2. e \in Records /\ e.of = r
  BY <1>1, CallType, RecordType DEF Busy, CallRecord
<1>3. CASE Leave(r) /\ UNCHANGED <<journal, faults>>
  BY <1>3 DEF Record
<1>4. CASE journal' \in {journal, Append(journal, e)} /\ StorageFails /\ Leave(r)
  BY <1>2, <1>4 DEF Record, LeaveWith
<1>5. CASE /\ journal' = Append(journal, e)
           /\ run' = [run EXCEPT ![r].at = IF Last(q) THEN "call" ELSE "record",
                                 ![r].next = After(q)]
           /\ UNCHANGED <<aborted, faults>>
  <2>1. Becomes(r, n)
    BY <1>1, <1>5, RunType DEF Becomes, Drivers
  <2>2. RecordMove(r, q, n, journal, journal')
    BY <1>1, <1>5 DEF RecordMove
  <2>3. QED
    BY <1>5, <2>1, <2>2 DEF Record
<1>6. QED
  BY <1>3, <1>4, <1>5, CurrentIsCall DEF Record

LEMMA NextCallSteps ==
  ASSUME TypeOK, NEW r \in Runs, TurnInv(run[r]), NextCall(r)
  PROVE  /\ \/ Leave(r)
            \/ /\ UNCHANGED aborted
               /\ \E n : \E carried \in BOOLEAN : Becomes(r, n) /\ CountMove(run[r], n, carried)
         /\ UNCHANGED <<journal, budget>>
<1> DEFINE q == run[r]
           tool == Call(q).tool
           count == q.counts[tool] + 1
<1>1. q \in Drivers /\ q.at = "call" /\ tool \in Tools
  BY RunType, CallType DEF NextCall, Busy, Calls
<1>2. count \in Nat /\ RepeatLimit \in Nat
  BY <1>1, CountTypes, Bounds
<1>3. UNCHANGED <<journal, budget>>
  BY DEF NextCall
<1>4. CASE Leave(r)
  BY <1>3, <1>4
<1>5. CASE /\ ~Repeated(count) /\ UNCHANGED aborted
           /\ run' = [run EXCEPT ![r].at = "answering", ![r].counts[tool] = count,
                                 ![r].result = "thrown"]
  <2> DEFINE n == [q EXCEPT !.at = "answering", !.counts[tool] = count, !.result = "thrown"]
  <2>1. Becomes(r, n)
    BY <1>1, <1>5, RunType DEF Becomes, Drivers
  <2>2. CountMove(q, n, FALSE)
    BY <1>1, <1>2, <1>5 DEF CountMove, Repeated
  <2>3. QED
    BY <1>3, <1>5, <2>1, <2>2
<1>6. CASE /\ ~Repeated(count) /\ UNCHANGED aborted
           /\ run' = [run EXCEPT ![r].at = "worker", ![r].counts[tool] = count,
                                 ![r].ran[tool] = @ + 1]
  <2> DEFINE n == [q EXCEPT !.at = "worker", !.counts[tool] = count,
                            !.ran[tool] = q.ran[tool] + 1]
  <2>1. Becomes(r, n)
    BY <1>1, <1>6, RunType DEF Becomes, Drivers
  <2>2. CountMove(q, n, TRUE)
    BY <1>1, <1>2, <1>6 DEF CountMove, Repeated
  <2>3. QED
    BY <1>3, <1>6, <2>1, <2>2
<1>7. QED
  BY <1>4, <1>5, <1>6, CurrentIsCall DEF NextCall

LEMMA ToolSettlesSteps ==
  ASSUME TypeOK, NEW r \in Runs, ToolSettles(r)
  PROVE  /\ \/ Leave(r)
            \/ /\ UNCHANGED aborted
               /\ \E n : \E how \in {"ok", "isError", "thrown"} :
                    Becomes(r, n) /\ SettleMove(run[r], n, how)
         /\ UNCHANGED <<journal, budget>>
<1> DEFINE q == run[r]
           n(how) == [q EXCEPT !.at = "answering", !.result = how]
<1>1. UNCHANGED <<journal, budget>> /\ q.at = "worker" /\ q \in Drivers
  BY RunType DEF ToolSettles
<1>2. CASE Leave(r)
  BY <1>1, <1>2
<1>3. ASSUME NEW how \in {"ok", "isError", "thrown"}, UNCHANGED aborted,
             run' = [run EXCEPT ![r].at = "answering", ![r].result = how]
      PROVE  Becomes(r, n(how)) /\ SettleMove(q, n(how), how)
  <2>1. Becomes(r, n(how))
    BY <1>1, <1>3, RunType DEF Becomes, Drivers
  <2>2. QED
    BY <1>1, <2>1 DEF SettleMove
<1>4. QED
  BY <1>1, <1>2, <1>3 DEF ToolSettles

LEMMA RespondSteps ==
  ASSUME TypeOK, NEW r \in Runs, TurnInv(run[r]), Respond(r)
  PROVE  /\ \/ Leave(r) /\ UNCHANGED <<journal, faults>>
            \/ /\ UNCHANGED <<aborted, faults>>
               /\ \E n : Becomes(r, n) /\ RespondMove(r, run[r], n, journal, journal')
            \/ /\ UNCHANGED aborted /\ StorageFails
               /\ \E n : Becomes(r, n) /\ RetellMove(r, run[r], n, journal, journal')
            \/ \E e \in Records : e.of = r /\ LeaveWith(r, e)
         /\ UNCHANGED <<ids, reuses>>
<1> DEFINE q == run[r]
           e == ResultRecord(r, Call(q), q.result # "ok")
<1>1. q \in Drivers /\ q.at = "answering"
  BY RunType DEF Respond
<1>2. e \in Records /\ e.of = r /\ Responded(r) = Append(journal, e)
  BY <1>1, CallType, RecordType, CurrentIsCall DEF Busy, ResultRecord, Responded
<1>3. CASE Leave(r) /\ UNCHANGED <<journal, faults>>
  BY <1>3 DEF Respond
<1>4. CASE journal' \in {journal, Append(journal, e)} /\ StorageFails /\ Leave(r)
  BY <1>2, <1>4 DEF Respond, LeaveWith
<1>5. CASE /\ journal' = Append(journal, e)
           /\ run' = [run EXCEPT ![r].at = IF Last(q) THEN "driver" ELSE "call",
                                 ![r].turn = IF Last(q) THEN <<>> ELSE @,
                                 ![r].next = After(q), ![r].result = "none"]
           /\ UNCHANGED <<aborted, faults>>
  <2> DEFINE n == [q EXCEPT !.at = IF Last(q) THEN "driver" ELSE "call",
                            !.turn = IF Last(q) THEN <<>> ELSE q.turn, !.next = After(q),
                            !.result = "none"]
  <2>1. Becomes(r, n)
    BY <1>1, <1>5, RunType DEF Becomes, Drivers
  <2>2. RespondMove(r, q, n, journal, journal')
    BY <1>1, <1>5 DEF RespondMove
  <2>3. QED
    BY <1>5, <2>1, <2>2 DEF Respond
<1>6. CASE /\ journal' \in {journal, Append(journal, e)} /\ StorageFails /\ UNCHANGED aborted
           /\ run' = [run EXCEPT ![r].result = "thrown"]
  <2> DEFINE n == [q EXCEPT !.result = "thrown"]
  <2>1. Becomes(r, n)
    BY <1>6, RunType DEF Becomes
  <2>2. RetellMove(r, q, n, journal, journal')
    BY <1>1, <1>6 DEF RetellMove
  <2>3. QED
    BY <1>6, <2>1, <2>2 DEF Respond
<1>7. QED
  BY <1>2, <1>3, <1>4, <1>5, <1>6, CurrentIsCall DEF Respond

LEMMA PeerCallsSteps ==
  ASSUME TypeOK, NEW p \in Peers, PeerCalls(p)
  PROVE  /\ UNCHANGED <<run, aborted, reuses, faults>>
         /\ ids' = ids + 1 /\ ids' <= MaxIds
         /\ \E e \in Records : /\ e.of = p /\ e.kind = "call" /\ e.id = ids'
                               /\ journal' = Append(journal, e)
<1>1. ids \in Nat /\ ids < MaxIds /\ ids' = ids + 1 /\ UNCHANGED <<run, aborted, reuses, faults>>
  BY Bounds, AgentLoopAssumption DEF TypeOK, PeerCalls
<1>2. PICK tool \in Tools : journal' = Append(journal, CallRecord(p, [id |-> ids', tool |-> tool]))
  BY DEF PeerCalls
<1>3. [id |-> ids', tool |-> tool] \in Calls /\ [id |-> ids', tool |-> tool].id = ids'
  BY <1>1, Bounds DEF Calls
<1> DEFINE e == CallRecord(p, [id |-> ids', tool |-> tool])
<1>4. e \in Records
  BY <1>3, RecordType
<1>5. e.of = p /\ e.kind = "call" /\ e.id = ids'
  BY DEF CallRecord
<1>6. QED
  BY <1>1, <1>2, <1>4, <1>5, Bounds

\* The call a peer answers is its own, and it has recorded nothing of the id since.
LEMMA PeerRespondsSteps ==
  ASSUME TypeOK, NEW p \in Peers, PeerResponds(p)
  PROVE  /\ UNCHANGED <<run, aborted, budget>>
         /\ \E e \in Records : \E c \in DOMAIN journal :
              /\ e.of = p /\ e.kind = "result" /\ e.id = journal[c].id
              /\ journal' = Append(journal, e)
              /\ journal[c].of = p /\ journal[c].kind = "call"
              /\ \A i \in c + 1 .. Len(journal) : journal[i].of = p => journal[i].id # e.id
<1>1. PICK c \in DOMAIN journal :
        /\ journal[c].of = p /\ journal[c].kind = "call"
        /\ \A i \in c + 1 .. Len(journal) : journal[i].of = p => journal[i].id # journal[c].id
        /\ journal' = Append(journal, ResultRecord(p, journal[c], FALSE))
  BY DEF PeerResponds
<1> DEFINE e == ResultRecord(p, journal[c], FALSE)
<1>2. journal[c] \in Records
  BY JournalType
<1>3. e \in Records
  BY <1>2 DEF ResultRecord, Records
<1>4. e.of = p /\ e.kind = "result" /\ e.id = journal[c].id
  BY DEF ResultRecord
<1>5. QED
  BY <1>1, <1>3, <1>4 DEF PeerResponds

-----------------------------------------------------------------------------
(* The steps in classes.                                                   *)

BudgetOK == ids \in Earlier .. MaxIds /\ reuses \in 0 .. MaxReuses /\ faults \in 0 .. MaxFaults
SignalOK == aborted \subseteq {r \in Runs : run[r].at \notin {"none", "settled"}}

\* A move of one run; who leaves has no signal any more.
OwnStep(r) ==
  \E n : /\ Becomes(r, n) /\ Move(r, run[r], n, journal, journal')
         /\ aborted' \subseteq aborted /\ (n.at = "settled" => r \notin aborted')

PeerStep ==
  /\ UNCHANGED <<run, aborted>>
  /\ \E p \in Peers : \E e \in Records : e.of = p /\ journal' = Append(journal, e)

\* Somebody is told to stop, or nothing happens.
SignalStep == UNCHANGED <<run, journal>> /\ (SignalOK => SignalOK')

LEMMA QuietAt ==
  ASSUME NEW q \in Drivers, NEW n, NEW s, QuietMove(q, n, s)
  PROVE  n.at \notin {"none", "settled"}
<1>1. CASE StartMove(q, n) \/ AskMove(q, n, s) \/ FailMove(q, n) \/ DecideMove(q, n)
  BY <1>1 DEF StartMove, AskMove, FailMove, DecideMove, Drivers
<1>2. ASSUME NEW calls \in Seq(Calls), AnswerMove(q, n, calls)
      PROVE  n.at \notin {"none", "settled"}
  BY <1>2 DEF AnswerMove, Drivers
<1>3. ASSUME NEW carried \in BOOLEAN, CountMove(q, n, carried)
      PROVE  n.at \notin {"none", "settled"}
  BY <1>3 DEF CountMove, Drivers
<1>4. ASSUME NEW how \in {"ok", "isError", "thrown"}, SettleMove(q, n, how)
      PROVE  n.at \notin {"none", "settled"}
  BY <1>4 DEF SettleMove, Drivers
<1>5. QED
  BY <1>1, <1>2, <1>3, <1>4 DEF QuietMove

LEMMA MoveAt ==
  ASSUME NEW r, NEW q \in Drivers, NEW n, NEW s, NEW t, Move(r, q, n, s, t)
  PROVE  n.at # "none"
<1>1. CASE LeaveMove(r, n, s, t)
  BY <1>1 DEF LeaveMove, Idle
<1>2. CASE QuietMove(q, n, s)
  BY <1>2, QuietAt
<1>3. CASE RecordMove(r, q, n, s, t) \/ RespondMove(r, q, n, s, t)
  BY <1>3 DEF RecordMove, RespondMove, Drivers
<1>4. CASE RetellMove(r, q, n, s, t)
  BY <1>4 DEF RetellMove, Drivers
<1>5. QED
  BY <1>1, <1>2, <1>3, <1>4 DEF Move

LEMMA LeaveSteps ==
  ASSUME TypeOK, NEW r \in Runs, Leave(r),
         \/ journal' = journal
         \/ \E e \in Records : e.of = r /\ journal' \in {journal, Append(journal, e)}
  PROVE  OwnStep(r)
<1> DEFINE n == Idle("settled")
<1>1. Becomes(r, n)
  BY LeaveBecomes
<1>2. LeaveMove(r, n, journal, journal')
  BY DEF LeaveMove
<1>3. aborted' = aborted \ {r}
  BY DEF Leave
<1>4. QED
  BY <1>1, <1>2, <1>3 DEF OwnStep, Move

\* A move that is none of leaving keeps the signals.
LEMMA OtherSteps ==
  ASSUME TypeOK, NEW r \in Runs, UNCHANGED aborted, NEW n, Becomes(r, n),
         \/ QuietMove(run[r], n, journal) /\ UNCHANGED journal
         \/ RecordMove(r, run[r], n, journal, journal')
         \/ RespondMove(r, run[r], n, journal, journal')
         \/ RetellMove(r, run[r], n, journal, journal'),
         n.at # "settled"
  PROVE  OwnStep(r)
BY DEF OwnStep, Move

LEMMA Steps ==
  ASSUME TypeOK, \A r \in Runs : TurnInv(run[r]), [Next]_vars
  PROVE  (\E r \in Runs : OwnStep(r)) \/ PeerStep \/ SignalStep
<1>0. ASSUME NEW r \in Runs, NEW n, UNCHANGED <<journal, aborted>>, Becomes(r, n),
             QuietMove(run[r], n, journal)
      PROVE  OwnStep(r)
  BY <1>0, RunType, QuietAt, OtherSteps
<1>1. CASE UNCHANGED vars
  BY <1>1 DEF SignalStep, SignalOK, vars
<1>2. ASSUME NEW r \in Runs, Start(r) \/ Wake(r) PROVE OwnStep(r)
  <2>1. PICK n : Becomes(r, n) /\ StartMove(run[r], n)
    BY <1>2, StartSteps, WakeSteps
  <2>2. UNCHANGED <<journal, aborted>>
    BY <1>2, StartSteps, WakeSteps
  <2>3. QED
    BY <1>0, <2>1, <2>2 DEF QuietMove
<1>3. ASSUME NEW r \in Runs, Cancel(r) PROVE OwnStep(r) \/ SignalStep
  BY <1>3, CancelSteps, LeaveSteps DEF SignalStep, SignalOK
<1>4. ASSUME NEW r \in Runs, Ask(r) PROVE OwnStep(r)
  <2>1. CASE Leave(r)
    BY <1>4, <2>1, AskSteps, LeaveSteps
  <2>2. CASE ~Leave(r)
    <3>1. PICK n : Becomes(r, n) /\ AskMove(run[r], n, journal)
      BY <1>4, <2>2, AskSteps
    <3>2. UNCHANGED <<journal, aborted>>
      BY <1>4, <2>2, AskSteps
    <3>3. QED
      BY <1>0, <3>1, <3>2 DEF QuietMove
  <2>3. QED
    BY <2>1, <2>2
<1>5. ASSUME NEW r \in Runs, Answer(r) PROVE OwnStep(r)
  <2>1. CASE Leave(r)
    BY <1>5, <2>1, AnswerSteps, LeaveSteps
  <2>2. CASE ~Leave(r)
    <3>1. PICK n : \E calls \in Seq(Calls) : Becomes(r, n) /\ AnswerMove(run[r], n, calls)
      BY <1>5, <2>2, AnswerSteps
    <3>2. UNCHANGED <<journal, aborted>>
      BY <1>5, <2>2, AnswerSteps
    <3>3. QED
      BY <1>0, <3>1, <3>2 DEF QuietMove
  <2>3. QED
    BY <2>1, <2>2
<1>6. ASSUME NEW r \in Runs, Fail(r) PROVE OwnStep(r)
  <2>1. CASE Leave(r)
    BY <1>6, <2>1, FailSteps, LeaveSteps
  <2>2. CASE ~Leave(r)
    <3>1. PICK n : Becomes(r, n) /\ FailMove(run[r], n)
      BY <1>6, <2>2, FailSteps
    <3>2. UNCHANGED <<journal, aborted>>
      BY <1>6, <2>2, FailSteps
    <3>3. QED
      BY <1>0, <3>1, <3>2 DEF QuietMove
  <2>3. QED
    BY <2>1, <2>2
<1>7. ASSUME NEW r \in Runs, Decide(r) PROVE OwnStep(r)
  <2>1. PICK n : Becomes(r, n) /\ DecideMove(run[r], n)
    BY <1>7, DecideSteps
  <2>2. UNCHANGED <<journal, aborted>>
    BY <1>7, DecideSteps
  <2>3. QED
    BY <1>0, <2>1, <2>2 DEF QuietMove
<1>8. ASSUME NEW r \in Runs, NEW e \in Records, e.of = r, LeaveWith(r, e) PROVE OwnStep(r)
  BY <1>8, LeaveSteps DEF LeaveWith
<1>9. ASSUME NEW r \in Runs, Record(r) PROVE OwnStep(r)
  <2>1. CASE Leave(r) /\ UNCHANGED journal
    BY <2>1, LeaveSteps
  <2>2. CASE /\ UNCHANGED aborted
             /\ \E n : Becomes(r, n) /\ RecordMove(r, run[r], n, journal, journal')
    <3>1. PICK n : Becomes(r, n) /\ RecordMove(r, run[r], n, journal, journal')
      BY <2>2
    <3>2. n.at # "settled"
      BY <3>1, RunType DEF RecordMove, Drivers
    <3>3. QED
      BY <2>2, <3>1, <3>2, OtherSteps
  <2>3. QED
    BY <1>8, <1>9, <2>1, <2>2, RecordSteps
<1>10. ASSUME NEW r \in Runs, NextCall(r) PROVE OwnStep(r)
  <2>1. CASE Leave(r)
    BY <1>10, <2>1, NextCallSteps, LeaveSteps
  <2>2. CASE ~Leave(r)
    <3>1. PICK n : \E carried \in BOOLEAN : Becomes(r, n) /\ CountMove(run[r], n, carried)
      BY <1>10, <2>2, NextCallSteps
    <3>2. UNCHANGED <<journal, aborted>>
      BY <1>10, <2>2, NextCallSteps
    <3>3. QED
      BY <1>0, <3>1, <3>2 DEF QuietMove
  <2>3. QED
    BY <2>1, <2>2
<1>11. ASSUME NEW r \in Runs, ToolSettles(r) PROVE OwnStep(r)
  <2>1. CASE Leave(r)
    BY <1>11, <2>1, ToolSettlesSteps, LeaveSteps
  <2>2. CASE ~Leave(r)
    <3>1. PICK n : \E how \in {"ok", "isError", "thrown"} : Becomes(r, n) /\ SettleMove(run[r], n, how)
      BY <1>11, <2>2, ToolSettlesSteps
    <3>2. UNCHANGED <<journal, aborted>>
      BY <1>11, <2>2, ToolSettlesSteps
    <3>3. QED
      BY <1>0, <3>1, <3>2 DEF QuietMove
  <2>3. QED
    BY <2>1, <2>2
<1>12. ASSUME NEW r \in Runs, Respond(r) PROVE OwnStep(r)
  <2>1. CASE Leave(r) /\ UNCHANGED journal
    BY <2>1, LeaveSteps
  <2>2. CASE /\ UNCHANGED aborted
             /\ \E n : Becomes(r, n) /\ RespondMove(r, run[r], n, journal, journal')
    <3>1. PICK n : Becomes(r, n) /\ RespondMove(r, run[r], n, journal, journal')
      BY <2>2
    <3>2. n.at # "settled"
      BY <3>1, RunType DEF RespondMove, Drivers
    <3>3. QED
      BY <2>2, <3>1, <3>2, OtherSteps
  <2>3. CASE /\ UNCHANGED aborted
             /\ \E n : Becomes(r, n) /\ RetellMove(r, run[r], n, journal, journal')
    <3>1. PICK n : Becomes(r, n) /\ RetellMove(r, run[r], n, journal, journal')
      BY <2>3
    <3>2. n.at # "settled"
      BY <3>1, RunType DEF RetellMove, Drivers
    <3>3. QED
      BY <2>3, <3>1, <3>2, OtherSteps
  <2>4. QED
    BY <1>8, <1>12, <2>1, <2>2, <2>3, RespondSteps
<1>13. ASSUME NEW r \in Runs, CommandFails(r) PROVE OwnStep(r)
  BY <1>13, LeaveSteps DEF CommandFails
<1>14. ASSUME NEW p \in Peers, PeerCalls(p) PROVE PeerStep
  BY <1>14, PeerCallsSteps DEF PeerStep
<1>15. ASSUME NEW p \in Peers, PeerResponds(p) PROVE PeerStep
  BY <1>15, PeerRespondsSteps DEF PeerStep
<1>16. QED
  BY <1>1, <1>2, <1>3, <1>4, <1>5, <1>6, <1>7, <1>9, <1>10, <1>11, <1>12, <1>13, <1>14, <1>15
     DEF Next, Work

LEMMA BudgetSteps ==
  ASSUME TypeOK, \A r \in Runs : TurnInv(run[r]), [Next]_vars
  PROVE  BudgetOK'
<1>1. /\ ids \in Earlier .. MaxIds /\ reuses \in 0 .. MaxReuses /\ faults \in 0 .. MaxFaults
      /\ Earlier \in Nat
  BY AgentLoopAssumption, Bounds DEF TypeOK
<1>2. CASE UNCHANGED budget
  BY <1>1, <1>2 DEF BudgetOK, budget
<1>3. ASSUME StorageFails, UNCHANGED <<ids, reuses>> PROVE BudgetOK'
  BY <1>1, <1>3, Bounds DEF BudgetOK, StorageFails
<1>4. ASSUME NEW r \in Runs, Answer(r) PROVE BudgetOK'
  BY <1>1, <1>4, AnswerSteps, Bounds DEF BudgetOK
<1>5. ASSUME NEW r \in Runs, Record(r) PROVE BudgetOK'
  BY <1>2, <1>3, <1>5 DEF Record, budget
<1>6. ASSUME NEW r \in Runs, Respond(r) PROVE BudgetOK'
  BY <1>2, <1>3, <1>6 DEF Respond, budget
<1>7. ASSUME NEW r \in Runs, CommandFails(r) PROVE BudgetOK'
  BY <1>3, <1>7 DEF CommandFails
<1>8. ASSUME NEW p \in Peers, PeerCalls(p) PROVE BudgetOK'
  BY <1>1, <1>8, PeerCallsSteps, Bounds DEF BudgetOK
<1>9. QED
  BY <1>2, <1>4, <1>5, <1>6, <1>7, <1>8
     DEF Next, Work, vars, Start, Cancel, Ask, Fail, Decide, Wake, NextCall, ToolSettles,
         PeerResponds

-----------------------------------------------------------------------------
(* The first invariant: types, and what every run keeps true.              *)

RunsInv == TypeOK /\ \A r \in Runs : RunInv(r, run[r], journal)

LEMMA HistoryType ==
  ASSUME NEW peer \in Peers, NEW tool \in Tools
  PROVE  /\ History(peer, tool) \in Seq(Records) /\ Len(History(peer, tool)) = 2 * Earlier
         /\ \A i \in 1 .. 2 * Earlier : /\ History(peer, tool)[i].of = peer
                                        /\ History(peer, tool)[i].id = (i + 1) \div 2
                                        /\ History(peer, tool)[i].kind =
                                             IF i % 2 = 1 THEN "call" ELSE "result"
<1> DEFINE h == History(peer, tool)
           call(i) == [id |-> (i + 1) \div 2, tool |-> tool]
<1>1. Earlier \in Nat /\ Earlier <= MaxIds /\ 2 * Earlier \in Nat
  BY AgentLoopAssumption, Bounds
<1>2. ASSUME NEW i \in 1 .. 2 * Earlier PROVE call(i) \in Calls
  <2>1. (i + 1) \div 2 \in 1 .. Earlier
    BY <1>1
  <2>2. QED
    BY <1>1, <2>1, Bounds DEF Calls
<1>3. h = [i \in 1 .. 2 * Earlier |-> IF i % 2 = 1 THEN CallRecord(peer, call(i))
                                                   ELSE ResultRecord(peer, call(i), FALSE)]
  BY DEF History
<1>4. ASSUME NEW i \in 1 .. 2 * Earlier
      PROVE  /\ h[i] \in Records /\ h[i].of = peer /\ h[i].id = (i + 1) \div 2
             /\ h[i].kind = IF i % 2 = 1 THEN "call" ELSE "result"
  <2>1. CallRecord(peer, call(i)) \in Records /\ ResultRecord(peer, call(i), FALSE) \in Records
    BY <1>2, RecordType
  <2>2. h[i] = IF i % 2 = 1 THEN CallRecord(peer, call(i)) ELSE ResultRecord(peer, call(i), FALSE)
    BY <1>3
  <2>3. QED
    BY <2>1, <2>2 DEF CallRecord, ResultRecord
<1>5. DOMAIN h = 1 .. 2 * Earlier /\ h = [i \in DOMAIN h |-> h[i]]
  BY <1>3
<1> HIDE DEF h
<1>6. h \in [1 .. 2 * Earlier -> Records]
  BY <1>4, <1>5
<1>7. h \in Seq(Records) /\ Len(h) = 2 * Earlier
  BY <1>1, <1>6
<1>8. QED
  BY <1>4, <1>7 DEF h

LEMMA RunsInit == Init => RunsInv
<1> SUFFICES ASSUME Init PROVE RunsInv
  OBVIOUS
<1>1. /\ journal \in Seq(Records) /\ Len(journal) \in Nat
      /\ \A r \in Runs : \A i \in DOMAIN journal : journal[i].of # r
  <2>1. CASE Earlier = 0
    BY <2>1 DEF Init
  <2>2. CASE Earlier # 0
    <3>1. PICK peer \in Peers, tool \in Tools : journal = History(peer, tool)
      BY <2>2 DEF Init
    <3>2. \A i \in DOMAIN journal : journal[i].of = peer
      BY <3>1, HistoryType
    <3>3. journal \in Seq(Records) /\ Len(journal) \in Nat
      BY <3>1, HistoryType
    <3>4. peer \notin Runs
      BY AgentLoopAssumption
    <3>5. QED
      BY <3>2, <3>3, <3>4
  <2>3. QED
    BY <2>1, <2>2
<1>2. run = [r \in Runs |-> Idle("none")]
  BY DEF Init
<1>3. TypeOK
  <2>1. Idle("none") \in Drivers /\ Idle("none").shown = 0
    BY IdleDriver
  <2>2. Idle("none") \in RunStates
    <3>1. 0 \in 0 .. Len(journal)
      BY <1>1
    <3>2. QED
      BY <2>1, <3>1 DEF Drivers, RunStates
  <2>3. aborted = {} /\ ids = Earlier /\ reuses = 0 /\ faults = 0
    BY DEF Init
  <2>4. Earlier \in Earlier .. MaxIds /\ 0 \in 0 .. MaxReuses /\ 0 \in 0 .. MaxFaults
    BY AgentLoopAssumption, Bounds
  <2>5. QED
    BY <1>1, <1>2, <2>2, <2>3, <2>4 DEF TypeOK, Records
<1>4. ASSUME NEW r \in Runs PROVE RunInv(r, run[r], journal)
  <2> DEFINE q == Idle("none")
  <2>1. TurnInv(q)
    BY IdleDriver
  <2>2. CountInv(r, q, journal)
    <3>1. ASSUME NEW tool \in Tools PROVE Due(q, tool) = {} /\ q.ran[tool] = 0 /\ q.counts[tool] = 0
      BY DEF Idle, Due, Taken, Busy
    <3>2. ASSUME NEW tool \in Tools
          PROVE  /\ q.ran[tool] = 0 /\ q.counts[tool] = 0 /\ Cardinality(Due(q, tool)) = 0
                 /\ Cardinality(Recorded(journal, r, tool)) \in Nat
      BY <1>1, <3>1, FS_EmptySet, RecordedCount
    <3>3. QED
      BY <3>2, Bounds DEF CountInv
  <2>3. AnswerInv(r, q, journal)
    BY <1>1 DEF AnswerInv
  <2>4. RetryInv(r, q, journal) /\ AskedInv(r, q, journal)
    BY DEF Idle, RetryInv, AskedInv
  <2>5. QED
    BY <1>2, <2>1, <2>2, <2>3, <2>4 DEF RunInv
<1>5. QED
  BY <1>3, <1>4 DEF RunsInv

LEMMA RunsNext == RunsInv /\ [Next]_vars => RunsInv'
<1> SUFFICES ASSUME RunsInv, [Next]_vars PROVE RunsInv'
  OBVIOUS
<1>1. TypeOK /\ \A r \in Runs : RunInv(r, run[r], journal) /\ TurnInv(run[r])
  BY DEF RunsInv, RunInv
<1>2. journal \in Seq(Records) /\ Len(journal) \in Nat
  BY <1>1, JournalType
<1>3. BudgetOK'
  BY <1>1, BudgetSteps
<1>4. SUFFICES ASSUME (\E r \in Runs : OwnStep(r)) \/ PeerStep \/ SignalStep
               PROVE  /\ journal' \in Seq(Records) /\ SignalOK'
                      /\ run' = [r \in Runs |-> run'[r]]
                      /\ \A r \in Runs : /\ run'[r] \in Drivers /\ run'[r].shown <= Len(journal')
                                         /\ RunInv(r, run'[r], journal')
  <2> HIDE DEF RunsInv
  <2>1. ASSUME /\ journal' \in Seq(Records) /\ SignalOK'
               /\ run' = [r \in Runs |-> run'[r]]
               /\ \A r \in Runs : /\ run'[r] \in Drivers /\ run'[r].shown <= Len(journal')
                                  /\ RunInv(r, run'[r], journal')
        PROVE  RunsInv'
    <3>1. ASSUME NEW r \in Runs PROVE run'[r] \in RunStates'
      <4>1. Len(journal') \in Nat /\ run'[r].shown \in Nat /\ run'[r] \in Drivers
        BY <2>1 DEF Drivers
      <4>2. run'[r].shown \in 0 .. Len(journal')
        BY <2>1, <4>1
      <4>3. QED
        BY <4>1, <4>2 DEF Drivers, RunStates
    <3>2. run' \in [Runs -> RunStates']
      BY <2>1, <3>1
    <3>3. TypeOK'
      BY <1>3, <2>1, <3>2 DEF TypeOK, Records, SignalOK, BudgetOK
    <3>4. QED
      BY <2>1, <3>3 DEF RunsInv
  <2>2. QED
    BY <1>1, <2>1, Steps
<1>5. \A r \in Runs : run[r] \in Drivers /\ run[r].shown <= Len(journal)
  BY <1>1, RunType
<1>6. run = [r \in Runs |-> run[r]] /\ SignalOK
  BY <1>1 DEF TypeOK, SignalOK
<1>7. ASSUME NEW r \in Runs, OwnStep(r)
      PROVE  /\ journal' \in Seq(Records) /\ SignalOK'
             /\ run' = [o \in Runs |-> run'[o]]
             /\ \A o \in Runs : /\ run'[o] \in Drivers /\ run'[o].shown <= Len(journal')
                                /\ RunInv(o, run'[o], journal')
  <2>1. PICK n : /\ Becomes(r, n) /\ Move(r, run[r], n, journal, journal')
                 /\ aborted' \subseteq aborted /\ (n.at = "settled" => r \notin aborted')
    BY <1>7 DEF OwnStep
  <2>2. run'[r] = n /\ run' = [o \in Runs |-> run'[o]] /\ \A o \in Runs \ {r} : run'[o] = run[o]
    BY <1>6, <2>1 DEF Becomes
  <2>3. /\ n \in Drivers /\ n.shown <= Len(journal') /\ RunInv(r, n, journal')
        /\ journal' \in Seq(Records) /\ Len(journal) <= Len(journal')
    BY <1>1, <1>2, <1>5, <2>1, RunMoves
  <2>4. journal' = journal \/ \E e \in Records : e.of = r /\ journal' = Append(journal, e)
    <3>1. CASE LeaveMove(r, n, journal, journal')
      BY <3>1 DEF LeaveMove
    <3>2. CASE RecordMove(r, run[r], n, journal, journal')
      BY <1>1, <1>5, <3>2, CallType, RecordType DEF RecordMove, Busy, CallRecord
    <3>3. CASE RespondMove(r, run[r], n, journal, journal')
      BY <1>1, <1>5, <3>3, CallType, RecordType DEF RespondMove, Busy, ResultRecord
    <3>4. CASE RetellMove(r, run[r], n, journal, journal')
      BY <1>1, <1>5, <3>4, CallType, RecordType DEF RetellMove, Busy, ResultRecord
    <3>5. QED
      BY <2>1, <3>1, <3>2, <3>3, <3>4 DEF Move
  <2>5. ASSUME NEW o \in Runs \ {r}
        PROVE  run'[o] \in Drivers /\ run'[o].shown <= Len(journal') /\ RunInv(o, run'[o], journal')
    <3>1. run'[o] = run[o] /\ run[o].shown \in Nat /\ Len(journal') \in Nat
      BY <1>5, <2>2, <2>3 DEF Drivers
    <3>2. run[o].shown <= Len(journal')
      BY <1>2, <1>5, <2>3, <3>1
    <3>3. RunInv(o, run[o], journal')
      BY <1>1, <1>2, <1>5, <2>4, RunFrame
    <3>4. QED
      BY <1>5, <3>1, <3>2, <3>3
  <2>6. SignalOK'
    <3>1. n.at # "none"
      BY <1>5, <2>1, MoveAt
    <3>2. QED
      BY <1>6, <2>1, <2>2, <3>1 DEF SignalOK
  <2>7. QED
    BY <2>2, <2>3, <2>5, <2>6
<1>8. CASE PeerStep
  <2>1. PICK p \in Peers, e \in Records : e.of = p /\ journal' = Append(journal, e)
    BY <1>8 DEF PeerStep
  <2>2. run' = run /\ aborted' = aborted
    BY <1>8 DEF PeerStep
  <2>3. journal' \in Seq(Records) /\ Len(journal') = Len(journal) + 1
    BY <1>2, <2>1
  <2>4. ASSUME NEW r \in Runs
        PROVE  run[r].shown <= Len(journal') /\ RunInv(r, run[r], journal')
    <3>1. e.of # r
      BY <2>1, AgentLoopAssumption
    <3>2. run[r].shown \in Nat
      BY <1>5 DEF Drivers
    <3>3. QED
      BY <1>1, <1>2, <1>5, <2>1, <2>3, <3>1, <3>2, RunFrame
  <2>5. QED
    BY <1>5, <1>6, <2>2, <2>3, <2>4 DEF SignalOK
<1>9. CASE SignalStep
  BY <1>1, <1>2, <1>5, <1>6, <1>9 DEF SignalStep
<1>10. QED
  BY <1>4, <1>7, <1>8, <1>9

\* What the driver of every run keeps true, with the types.
THEOREM RunsAreInOrder == Spec => []RunsInv
BY RunsInit, RunsNext, PTL DEF Spec

\* A provider is asked only when all calls of the run are answered, no call is carried
\* out as often as the limit or without a record of its own.
THEOREM LoopIsSound == Spec => []LoopInv
<1>1. RunsInv => LoopInv
  <2> SUFFICES ASSUME RunsInv PROVE LoopInv
    OBVIOUS
  <2>1. TypeOK /\ \A r \in Runs : RunInv(r, run[r], journal) /\ run[r] \in Drivers
    BY RunType DEF RunsInv
  <2>2. EffectsBounded
    <3>1. ASSUME NEW r \in Runs, NEW t \in Tools
          PROVE  /\ run[r].ran[t] < RepeatLimit
                 /\ run[r].ran[t] <= Cardinality(Recorded(journal, r, t))
      <4>1. /\ run[r].ran[t] <= run[r].counts[t] /\ run[r].counts[t] < RepeatLimit
            /\ run[r].ran[t] + Cardinality(Due(run[r], t)) <= Cardinality(Recorded(journal, r, t))
        BY <2>1 DEF RunInv, CountInv
      <4>2. /\ run[r].ran[t] \in Nat /\ run[r].counts[t] \in Nat
            /\ Cardinality(Due(run[r], t)) \in Nat /\ Cardinality(Recorded(journal, r, t)) \in Nat
        BY <2>1, CountTypes, DueCount, RecordedCount, JournalType DEF RunInv
      <4>3. QED
        BY <4>1, <4>2, Bounds
    <3>2. QED
      BY <3>1 DEF EffectsBounded, Recorded
  <2>3. AnsweredBeforeAsked
    BY <2>1 DEF RunInv, AskedInv, AnsweredOnce, Answers, AnsweredBeforeAsked
  <2>4. QED
    BY <2>1, <2>2, <2>3 DEF LoopInv
<1>2. QED
  BY <1>1, RunsAreInOrder, PTL

-----------------------------------------------------------------------------
(* Attempts.                                                               *)

\* Only the head of the loop begins one.
LEMMA AttemptBegins ==
  ASSUME NEW r, NEW q \in Drivers, NEW n, NEW s, NEW t, Move(r, q, n, s, t),
         n.attempt > q.attempt
  PROVE  AskMove(q, n, s) /\ t = s
<1>1. q.attempt \in Nat /\ ~(q.attempt > q.attempt) /\ ~(0 > q.attempt)
  BY DEF Drivers
<1>2. CASE LeaveMove(r, n, s, t)
  BY <1>1, <1>2 DEF LeaveMove, Idle
<1>3. CASE QuietMove(q, n, s) /\ t = s
  <2>1. CASE StartMove(q, n) \/ FailMove(q, n) \/ DecideMove(q, n)
    BY <1>1, <2>1 DEF StartMove, FailMove, DecideMove, Drivers
  <2>2. ASSUME NEW calls \in Seq(Calls), AnswerMove(q, n, calls) PROVE FALSE
    BY <1>1, <2>2 DEF AnswerMove, Drivers
  <2>3. ASSUME NEW carried \in BOOLEAN, CountMove(q, n, carried) PROVE FALSE
    BY <1>1, <2>3 DEF CountMove, Drivers
  <2>4. ASSUME NEW how \in {"ok", "isError", "thrown"}, SettleMove(q, n, how) PROVE FALSE
    BY <1>1, <2>4 DEF SettleMove, Drivers
  <2>5. QED
    BY <1>3, <2>1, <2>2, <2>3, <2>4 DEF QuietMove
<1>4. CASE RecordMove(r, q, n, s, t) \/ RespondMove(r, q, n, s, t)
  BY <1>1, <1>4 DEF RecordMove, RespondMove, Drivers
<1>5. CASE RetellMove(r, q, n, s, t)
  BY <1>1, <1>5 DEF RetellMove, Drivers
<1>6. QED
  BY <1>2, <1>3, <1>4, <1>5 DEF Move

\* A retry names the attempt before it, which failed for a passing reason with its
\* decision stored; the run recorded nothing since.  Other attempts follow an answer.
THEOREM RetriesAreJustified == Spec => RetriesJustified
<1> DEFINE Justified(r) ==
      run'[r].attempt > run[r].attempt =>
        IF run'[r].target = 0
          THEN run[r].attempt = 0 \/ run[r].status = "completed"
          ELSE /\ run'[r].target = run[r].attempt /\ run[r].status = "retryable"
               /\ run[r].decided
               /\ \A i \in run[r].shown + 1 .. run'[r].shown : journal[i].of # r
<1>1. ASSUME RunsInv, [Next]_vars, NEW r \in Runs PROVE Justified(r)
  <2>1. TypeOK /\ \A o \in Runs : run[o] \in Drivers /\ RunInv(o, run[o], journal)
                                  /\ TurnInv(run[o])
    BY <1>1, RunType DEF RunsInv, RunInv
  <2>2. run[r].attempt \in Nat /\ ~(run[r].attempt > run[r].attempt)
    BY <2>1 DEF Drivers
  <2>3. ASSUME run' = run \/ \E o \in Runs \ {r} : OwnStep(o) PROVE Justified(r)
    <3>1. run'[r] = run[r]
      BY <2>1, <2>3 DEF OwnStep, Becomes, TypeOK
    <3>2. QED
      BY <2>2, <3>1
  <2>4. CASE OwnStep(r)
    <3>1. PICK n : Becomes(r, n) /\ Move(r, run[r], n, journal, journal')
      BY <2>4 DEF OwnStep
    <3>2. run'[r] = n
      BY <2>1, <3>1 DEF Becomes, TypeOK
    <3>3. SUFFICES ASSUME n.attempt > run[r].attempt
                   PROVE  IF n.target = 0
                            THEN run[r].attempt = 0 \/ run[r].status = "completed"
                            ELSE /\ n.target = run[r].attempt /\ run[r].status = "retryable"
                                 /\ run[r].decided
                                 /\ \A i \in run[r].shown + 1 .. n.shown : journal[i].of # r
      BY <3>2
    <3>4. AskMove(run[r], n, journal)
      BY <2>1, <3>1, <3>3, AttemptBegins
    <3>5. n.target = run[r].retryOf /\ n.shown = Len(journal) /\ run[r].at = "driver"
      BY <2>1, <3>4 DEF AskMove, Drivers
    <3>6. RetryInv(r, run[r], journal)
      BY <2>1 DEF RunInv
    <3>7. QED
      BY <3>5, <3>6 DEF RetryInv, Silent
  <2>5. QED
    BY <1>1, <2>1, <2>3, <2>4, Steps DEF PeerStep, SignalStep
<1>2. RunsInv /\ [Next]_vars =>
        [\A r \in Runs :
           LET old == run[r]
               new == run'[r]
           IN  new.attempt > old.attempt =>
                 IF new.target = 0
                   THEN old.attempt = 0 \/ old.status = "completed"
                   ELSE /\ new.target = old.attempt /\ old.status = "retryable" /\ old.decided
                        /\ \A i \in old.shown + 1 .. new.shown : journal[i].of # r]_run
  BY <1>1
<1>3. QED
  BY <1>2, RunsAreInOrder, PTL DEF Spec, RetriesJustified

-----------------------------------------------------------------------------
(* What keeps a session readable.                                          *)

Unused(s, id) == \A i \in DOMAIN s : s[i].id # id

\* A call is recorded by r and has no result.
Open(s, r, id) ==
  /\ \E i \in DOMAIN s : s[i].of = r /\ s[i].kind = "call" /\ s[i].id = id
  /\ \A i \in DOMAIN s : s[i].id = id => s[i].kind = "call"

\* Records of one id are of one run.
Owned(s) == \A i, j \in DOMAIN s : s[i].id = s[j].id => s[i].of = s[j].of

\* The calls of a turn are distinct; they are open or still unused.
TurnFresh(r, q, s, m) ==
  /\ \A k \in DOMAIN q.turn :
       q.turn[k].id <= m /\ \A l \in DOMAIN q.turn : q.turn[l].id = q.turn[k].id => l = k
  /\ q.at = "record" => \A k \in DOMAIN q.turn : k >= q.next => Unused(s, q.turn[k].id)
  /\ \A k \in Taken(q) : Open(s, r, q.turn[k].id)

Apart(q, o) == \A k \in DOMAIN q.turn : \A l \in DOMAIN o.turn : q.turn[k].id # o.turn[l].id

JournalFresh(s, m) == ToolStructureOK(s) /\ Owned(s) /\ \A i \in DOMAIN s : s[i].id <= m

FreshInv ==
  reuses = 0 /\ faults = 0 =>
    /\ JournalFresh(journal, ids)
    /\ \A r \in Runs : TurnFresh(r, run[r], journal, ids)
    /\ \A r \in Runs : \A o \in Runs \ {r} : Apart(run[r], run[o])

LEMMA CallAppended ==
  ASSUME NEW s \in Seq(Records), NEW m \in Nat, JournalFresh(s, m), NEW e \in Records,
         e.kind = "call", Unused(s, e.id), NEW l \in Nat, e.id <= l, m <= l
  PROVE  JournalFresh(Append(s, e), l)
<1> DEFINE t == Append(s, e)
<1>1. /\ Len(s) \in Nat /\ t[Len(s) + 1] = e /\ \A i \in DOMAIN s : t[i] = s[i]
      /\ DOMAIN t = DOMAIN s \cup {Len(s) + 1} /\ DOMAIN s = 1 .. Len(s)
  OBVIOUS
<1>2. \A i \in DOMAIN s : s[i].id # e.id /\ s[i].id <= m /\ s[i].id \in Nat
  BY Bounds DEF Unused, JournalFresh, Records
<1> HIDE DEF t
<1>3. ToolStructureOK(t)
  <2> SUFFICES ASSUME NEW i \in DOMAIN t
               PROVE  /\ \A j \in 1 .. i - 1 : <<t[j].kind, t[j].id>> # <<t[i].kind, t[i].id>>
                      /\ t[i].kind = "result" =>
                           \E j \in 1 .. i - 1 : t[j].kind = "call" /\ t[j].id = t[i].id
    BY DEF ToolStructureOK
  <2>1. CASE i = Len(s) + 1
    BY <1>1, <1>2, <2>1
  <2>2. CASE i \in DOMAIN s
    <3>1. t[i] = s[i] /\ \A j \in 1 .. i - 1 : j \in DOMAIN s /\ t[j] = s[j]
      BY <1>1, <2>2
    <3>2. QED
      BY <2>2, <3>1 DEF JournalFresh, ToolStructureOK
  <2>3. QED
    BY <1>1, <2>1, <2>2
<1>4. Owned(t)
  BY <1>1, <1>2 DEF Owned, JournalFresh
<1>5. \A i \in DOMAIN t : t[i].id <= l
  BY <1>1, <1>2
<1>6. QED
  BY <1>3, <1>4, <1>5 DEF JournalFresh, t

LEMMA ResultAppended ==
  ASSUME NEW s \in Seq(Records), NEW m \in Nat, JournalFresh(s, m), NEW e \in Records,
         e.kind = "result", Open(s, e.of, e.id)
  PROVE  JournalFresh(Append(s, e), m)
<1> DEFINE t == Append(s, e)
<1>1. /\ Len(s) \in Nat /\ t[Len(s) + 1] = e /\ \A i \in DOMAIN s : t[i] = s[i]
      /\ DOMAIN t = DOMAIN s \cup {Len(s) + 1} /\ DOMAIN s = 1 .. Len(s)
  OBVIOUS
<1>2. PICK c \in DOMAIN s : s[c].of = e.of /\ s[c].kind = "call" /\ s[c].id = e.id
  BY DEF Open
<1>3. \A i \in DOMAIN s : s[i].id = e.id => s[i].kind = "call" /\ s[i].of = e.of
  BY <1>2 DEF Open, JournalFresh, Owned
<1> HIDE DEF t
<1>4. ToolStructureOK(t)
  <2> SUFFICES ASSUME NEW i \in DOMAIN t
               PROVE  /\ \A j \in 1 .. i - 1 : <<t[j].kind, t[j].id>> # <<t[i].kind, t[i].id>>
                      /\ t[i].kind = "result" =>
                           \E j \in 1 .. i - 1 : t[j].kind = "call" /\ t[j].id = t[i].id
    BY DEF ToolStructureOK
  <2>1. CASE i = Len(s) + 1
    <3>1. t[i] = e /\ \A j \in 1 .. i - 1 : j \in DOMAIN s /\ t[j] = s[j]
      BY <1>1, <2>1
    <3>2. c \in 1 .. i - 1 /\ t[c] = s[c]
      BY <1>1, <1>2, <2>1
    <3>3. QED
      BY <1>2, <1>3, <3>1, <3>2
  <2>2. CASE i \in DOMAIN s
    <3>1. t[i] = s[i] /\ \A j \in 1 .. i - 1 : j \in DOMAIN s /\ t[j] = s[j]
      BY <1>1, <2>2
    <3>2. QED
      BY <2>2, <3>1 DEF JournalFresh, ToolStructureOK
  <2>3. QED
    BY <1>1, <2>1, <2>2
<1>5. Owned(t)
  BY <1>1, <1>3 DEF Owned, JournalFresh
<1>6. \A i \in DOMAIN t : t[i].id <= m
  BY <1>1, <1>2 DEF JournalFresh
<1>7. QED
  BY <1>4, <1>5, <1>6 DEF JournalFresh, t

LEMMA TakenInTurn ==
  ASSUME NEW q \in Drivers, TurnInv(q)
  PROVE  DOMAIN q.turn = 1 .. Len(q.turn) /\ Len(q.turn) \in Nat /\ Taken(q) \subseteq DOMAIN q.turn
BY DEF Drivers, TurnInv, Taken, Busy

LEMMA TurnIds ==
  ASSUME NEW q \in Drivers, NEW k \in DOMAIN q.turn
  PROVE  q.turn[k].id \in Nat
<1>1. q.turn[k] \in Calls
  BY DEF Drivers
<1>2. QED
  BY <1>1, Bounds DEF Calls

LEMMA UnusedStays ==
  ASSUME NEW s \in Seq(Records), NEW e \in Records, NEW id, Unused(s, id), id # e.id
  PROVE  Unused(Append(s, e), id)
BY DEF Unused

LEMMA OpenStays ==
  ASSUME NEW s \in Seq(Records), NEW e \in Records, NEW r, NEW id, Open(s, r, id),
         e.kind = "call" \/ id # e.id
  PROVE  Open(Append(s, e), r, id)
<1>1. /\ Append(s, e)[Len(s) + 1] = e /\ \A i \in DOMAIN s : Append(s, e)[i] = s[i]
      /\ DOMAIN Append(s, e) = DOMAIN s \cup {Len(s) + 1}
  OBVIOUS
<1>2. QED
  BY <1>1 DEF Open

\* A record does not disturb a run if none of the calls it has still to do with has its id.
Live(q) == Taken(q) \cup {k \in DOMAIN q.turn : q.at = "record" /\ k >= q.next}

LEMMA TurnUndisturbed ==
  ASSUME NEW r, NEW q \in Drivers, TurnInv(q), NEW s \in Seq(Records), NEW e \in Records,
         NEW m \in Nat, NEW l \in Nat, m <= l, TurnFresh(r, q, s, m),
         \A k \in Live(q) : q.turn[k].id # e.id
  PROVE  TurnFresh(r, q, Append(s, e), l)
<1>1. \A k \in DOMAIN q.turn : q.turn[k].id <= l
  BY TurnIds DEF TurnFresh
<1>2. q.at = "record" =>
        \A k \in DOMAIN q.turn : k >= q.next => Unused(Append(s, e), q.turn[k].id)
  BY UnusedStays DEF TurnFresh, Live
<1>3. \A k \in Taken(q) : Open(Append(s, e), r, q.turn[k].id)
  BY TakenInTurn, OpenStays DEF TurnFresh, Live
<1>4. QED
  BY <1>1, <1>2, <1>3 DEF TurnFresh

LEMMA TurnLater ==
  ASSUME NEW r, NEW q \in Drivers, NEW s, NEW m \in Nat, NEW l \in Nat, m <= l,
         TurnFresh(r, q, s, m)
  PROVE  TurnFresh(r, q, s, l)
<1>1. \A k \in DOMAIN q.turn : q.turn[k].id <= l
  BY TurnIds DEF TurnFresh
<1>2. QED
  BY <1>1 DEF TurnFresh

\* Without reused ids and faults, moves do no more than what these say.
FreshMove(r, q, n) ==
  \/ /\ UNCHANGED <<journal, ids>>
     /\ n.turn = <<>> \/ (n.turn = q.turn /\ Taken(n) = Taken(q) /\ n.at # "record")
  \/ /\ UNCHANGED journal
     /\ \E calls \in Seq(Calls) :
          /\ AnswerMove(q, n, calls) /\ ids' = ids + Len(calls)
          /\ \A i \in DOMAIN calls : calls[i].id = ids + i
  \/ RecordMove(r, q, n, journal, journal') /\ UNCHANGED ids
  \/ RespondMove(r, q, n, journal, journal') /\ UNCHANGED ids

FreshStep(r) == \E n \in Drivers : Becomes(r, n) /\ TurnInv(n) /\ FreshMove(r, run[r], n)

LEMMA QuietTurn ==
  ASSUME NEW q \in Drivers, NEW n \in Drivers, TurnInv(q), TurnInv(n), NEW s, QuietMove(q, n, s),
         \A calls \in Seq(Calls) : ~AnswerMove(q, n, calls)
  PROVE  n.turn = <<>> \/ (n.turn = q.turn /\ Taken(n) = Taken(q) /\ n.at # "record")
<1>1. CASE StartMove(q, n) \/ AskMove(q, n, s) \/ FailMove(q, n) \/ DecideMove(q, n)
  <2>1. n.at \in {"driver", "provider", "deciding", "backoff"}
    BY <1>1 DEF StartMove, AskMove, FailMove, DecideMove, Drivers
  <2>2. QED
    BY <2>1 DEF TurnInv, Busy
<1>2. ASSUME NEW carried \in BOOLEAN, CountMove(q, n, carried)
      PROVE  n.turn = q.turn /\ Taken(n) = Taken(q) /\ n.at # "record"
  <2>1. n.turn = q.turn /\ n.next = q.next /\ q.at = "call" /\ n.at \in {"worker", "answering"}
    BY <1>2 DEF CountMove, Drivers
  <2>2. QED
    BY <2>1 DEF Taken, Busy
<1>3. ASSUME NEW how \in {"ok", "isError", "thrown"}, SettleMove(q, n, how)
      PROVE  n.turn = q.turn /\ Taken(n) = Taken(q) /\ n.at # "record"
  <2>1. n.turn = q.turn /\ n.next = q.next /\ q.at = "worker" /\ n.at = "answering"
    BY <1>3 DEF SettleMove, Drivers
  <2>2. QED
    BY <2>1 DEF Taken, Busy
<1>4. QED
  BY <1>1, <1>2, <1>3 DEF QuietMove

PeerCallStep ==
  /\ UNCHANGED run /\ ids' = ids + 1
  /\ \E p \in Peers : \E e \in Records :
       e.of = p /\ e.kind = "call" /\ e.id = ids' /\ journal' = Append(journal, e)

PeerResultStep ==
  /\ UNCHANGED <<run, ids>>
  /\ \E p \in Peers : \E e \in Records : \E c \in DOMAIN journal :
       /\ e.of = p /\ e.kind = "result" /\ e.id = journal[c].id
       /\ journal' = Append(journal, e)
       /\ journal[c].of = p /\ journal[c].kind = "call"
       /\ \A i \in c + 1 .. Len(journal) : journal[i].of = p => journal[i].id # e.id

LEMMA FreshSteps ==
  ASSUME RunsInv, [Next]_vars, reuses' = 0, faults' = 0
  PROVE  /\ reuses = 0 /\ faults = 0
         /\ \/ UNCHANGED <<run, journal, ids>>
            \/ \E r \in Runs : FreshStep(r)
            \/ PeerCallStep \/ PeerResultStep
<1> DEFINE Goal == /\ reuses = 0 /\ faults = 0
                   /\ \/ UNCHANGED <<run, journal, ids>>
                      \/ \E r \in Runs : FreshStep(r)
                      \/ PeerCallStep \/ PeerResultStep
<1>1. /\ TypeOK /\ reuses \in Nat /\ faults \in Nat /\ journal \in Seq(Records)
      /\ \A r \in Runs : /\ run[r] \in Drivers /\ TurnInv(run[r]) /\ run[r].shown <= Len(journal)
  BY RunType, JournalType, Bounds DEF RunsInv, RunInv, TypeOK
<1>2. ~StorageFails
  BY <1>1 DEF StorageFails
<1>3. ASSUME NEW r \in Runs, Leave(r), UNCHANGED <<journal, ids>> PROVE FreshStep(r)
  <2>1. Becomes(r, Idle("settled")) /\ Idle("settled").turn = <<>>
    BY <1>1, <1>3, LeaveBecomes DEF Idle
  <2>2. Idle("settled") \in Drivers /\ TurnInv(Idle("settled"))
    BY IdleDriver
  <2>3. QED
    BY <1>3, <2>1, <2>2 DEF FreshStep, FreshMove
<1>4. ASSUME NEW r \in Runs, UNCHANGED <<journal, ids>>, NEW n, Becomes(r, n),
             QuietMove(run[r], n, journal),
             \A calls \in Seq(Calls) : ~AnswerMove(run[r], n, calls)
      PROVE  FreshStep(r)
  <2>1. n \in Drivers /\ TurnInv(n)
    BY <1>1, <1>4, QuietType
  <2>2. n.turn = <<>> \/ (n.turn = run[r].turn /\ Taken(n) = Taken(run[r]) /\ n.at # "record")
    BY <1>1, <1>4, <2>1, QuietTurn
  <2>3. QED
    BY <1>4, <2>1, <2>2 DEF FreshStep, FreshMove
<1>5. ASSUME NEW r \in Runs, UNCHANGED <<journal, ids>>, NEW n, Becomes(r, n),
             \/ StartMove(run[r], n) \/ AskMove(run[r], n, journal) \/ FailMove(run[r], n)
             \/ DecideMove(run[r], n) \/ \E carried \in BOOLEAN : CountMove(run[r], n, carried)
             \/ \E how \in {"ok", "isError", "thrown"} : SettleMove(run[r], n, how)
      PROVE  FreshStep(r)
  <2>1. QuietMove(run[r], n, journal)
    BY <1>5 DEF QuietMove
  <2>2. ASSUME NEW calls \in Seq(Calls), AnswerMove(run[r], n, calls) PROVE FALSE
    <3>1. n.at = "record"
      BY <1>1, <2>2 DEF AnswerMove, Drivers
    <3>2. n.at # "record"
      <4>1. CASE StartMove(run[r], n) \/ AskMove(run[r], n, journal) \/ FailMove(run[r], n)
                 \/ DecideMove(run[r], n)
        BY <1>1, <4>1 DEF StartMove, AskMove, FailMove, DecideMove, Drivers
      <4>2. ASSUME NEW carried \in BOOLEAN, CountMove(run[r], n, carried) PROVE n.at # "record"
        BY <1>1, <4>2 DEF CountMove, Drivers
      <4>3. ASSUME NEW how \in {"ok", "isError", "thrown"}, SettleMove(run[r], n, how)
            PROVE  n.at # "record"
        BY <1>1, <4>3 DEF SettleMove, Drivers
      <4>4. QED
        BY <1>5, <4>1, <4>2, <4>3
    <3>3. QED
      BY <3>1, <3>2
  <2>3. QED
    BY <1>4, <1>5, <2>1, <2>2
<1>6. CASE UNCHANGED vars
  BY <1>6 DEF vars, budget
<1>7. ASSUME NEW r \in Runs, Start(r) \/ Wake(r) \/ Decide(r) PROVE Goal
  <2>1. UNCHANGED <<journal, budget>>
    BY <1>1, <1>7, StartSteps, WakeSteps, DecideSteps
  <2>2. PICK n : Becomes(r, n) /\ (StartMove(run[r], n) \/ DecideMove(run[r], n))
    BY <1>1, <1>7, StartSteps, WakeSteps, DecideSteps
  <2>3. QED
    BY <1>5, <2>1, <2>2 DEF budget
<1>8. ASSUME NEW r \in Runs, Cancel(r) PROVE Goal
  <2>1. /\ UNCHANGED <<journal, budget>> /\ (Leave(r) \/ UNCHANGED run)
    BY <1>1, <1>8, CancelSteps
  <2>2. QED
    BY <1>3, <2>1 DEF budget
<1>9. ASSUME NEW r \in Runs, Ask(r) \/ Fail(r) PROVE Goal
  <2>1. UNCHANGED <<journal, budget>>
    BY <1>1, <1>9, AskSteps, FailSteps
  <2>2. Leave(r) \/ \E n : Becomes(r, n) /\ (AskMove(run[r], n, journal) \/ FailMove(run[r], n))
    BY <1>1, <1>9, AskSteps, FailSteps
  <2>3. QED
    BY <1>3, <1>5, <2>1, <2>2 DEF budget
<1>10. ASSUME NEW r \in Runs, NextCall(r) \/ ToolSettles(r) PROVE Goal
  <2>1. UNCHANGED <<journal, budget>>
    BY <1>1, <1>10, NextCallSteps, ToolSettlesSteps
  <2>2. Leave(r) \/ \E n : /\ Becomes(r, n)
                           /\ \/ \E carried \in BOOLEAN : CountMove(run[r], n, carried)
                              \/ \E how \in {"ok", "isError", "thrown"} : SettleMove(run[r], n, how)
    BY <1>1, <1>10, NextCallSteps, ToolSettlesSteps
  <2>3. QED
    BY <1>3, <1>5, <2>1, <2>2 DEF budget
<1>11. ASSUME NEW r \in Runs, Answer(r) PROVE Goal
  <2>1. UNCHANGED <<journal, faults>>
    BY <1>1, <1>11, AnswerSteps
  <2>2. CASE Leave(r) /\ UNCHANGED <<ids, reuses>>
    BY <1>3, <2>1, <2>2
  <2>3. CASE ~(Leave(r) /\ UNCHANGED <<ids, reuses>>)
    <3>1. PICK n : \E calls \in Seq(Calls) :
            /\ Becomes(r, n) /\ AnswerMove(run[r], n, calls)
            /\ reuses' \in reuses .. MaxReuses
            /\ reuses' = reuses =>
                 ids' = ids + Len(calls) /\ \A i \in DOMAIN calls : calls[i].id = ids + i
      BY <1>1, <1>11, <2>3, AnswerSteps
    <3>2. PICK calls \in Seq(Calls) :
            /\ Becomes(r, n) /\ AnswerMove(run[r], n, calls)
            /\ reuses' \in reuses .. MaxReuses
            /\ reuses' = reuses =>
                 ids' = ids + Len(calls) /\ \A i \in DOMAIN calls : calls[i].id = ids + i
      BY <3>1
    <3>3. reuses = 0
      BY <1>1, <3>2, Bounds
    <3>4. n \in Drivers /\ TurnInv(n)
      BY <1>1, <3>2, QuietType DEF QuietMove
    <3>5. QED
      BY <2>1, <3>2, <3>3, <3>4 DEF FreshStep, FreshMove
  <2>4. QED
    BY <2>2, <2>3
<1>12. ASSUME NEW r \in Runs, Record(r) PROVE Goal
  <2>1. UNCHANGED <<ids, reuses>>
    BY <1>1, <1>12, RecordSteps
  <2>2. \/ Leave(r) /\ UNCHANGED <<journal, faults>>
        \/ UNCHANGED faults /\ \E n : Becomes(r, n) /\ RecordMove(r, run[r], n, journal, journal')
    BY <1>1, <1>2, <1>12, RecordSteps DEF LeaveWith
  <2>3. ASSUME NEW n, Becomes(r, n), RecordMove(r, run[r], n, journal, journal')
        PROVE  FreshStep(r)
    <3>1. n \in Drivers /\ TurnInv(n)
      BY <1>1, <2>3, MoveType DEF Move
    <3>2. QED
      BY <2>1, <2>3, <3>1 DEF FreshStep, FreshMove
  <2>4. QED
    BY <1>3, <2>1, <2>2, <2>3
<1>13. ASSUME NEW r \in Runs, Respond(r) PROVE Goal
  <2>1. UNCHANGED <<ids, reuses>>
    BY <1>1, <1>13, RespondSteps
  <2>2. \/ Leave(r) /\ UNCHANGED <<journal, faults>>
        \/ UNCHANGED faults /\ \E n : Becomes(r, n) /\ RespondMove(r, run[r], n, journal, journal')
    BY <1>1, <1>2, <1>13, RespondSteps DEF LeaveWith
  <2>3. ASSUME NEW n, Becomes(r, n), RespondMove(r, run[r], n, journal, journal')
        PROVE  FreshStep(r)
    <3>1. n \in Drivers /\ TurnInv(n)
      BY <1>1, <2>3, MoveType DEF Move
    <3>2. QED
      BY <2>1, <2>3, <3>1 DEF FreshStep, FreshMove
  <2>4. QED
    BY <1>3, <2>1, <2>2, <2>3
<1>14. ASSUME NEW r \in Runs, CommandFails(r) PROVE Goal
  BY <1>2, <1>14 DEF CommandFails
<1>15. ASSUME NEW p \in Peers, PeerCalls(p) PROVE Goal
  BY <1>1, <1>15, PeerCallsSteps DEF PeerCallStep
<1>16. ASSUME NEW p \in Peers, PeerResponds(p) PROVE Goal
  BY <1>1, <1>16, PeerRespondsSteps DEF PeerResultStep, budget
<1>17. QED
  BY <1>6, <1>7, <1>8, <1>9, <1>10, <1>11, <1>12, <1>13, <1>14, <1>15, <1>16 DEF Next, Work

LEMMA FreshInit == Init => FreshInv
<1> SUFFICES ASSUME Init PROVE FreshInv
  OBVIOUS
<1>1. \A r \in Runs : run[r] = Idle("none") /\ run[r].turn = <<>> /\ run[r].at = "none"
  BY DEF Init, Idle
<1>2. \A r \in Runs : TurnFresh(r, run[r], journal, ids)
  BY <1>1 DEF TurnFresh, Taken, Busy
<1>3. \A r \in Runs : \A o \in Runs \ {r} : Apart(run[r], run[o])
  BY <1>1 DEF Apart
<1>4. JournalFresh(journal, ids)
  <2>1. CASE Earlier = 0
    <3>1. journal = <<>>
      BY <2>1 DEF Init
    <3>2. QED
      BY <3>1 DEF JournalFresh, ToolStructureOK, Owned
  <2>2. CASE Earlier # 0
    <3>1. PICK peer \in Peers, tool \in Tools : journal = History(peer, tool)
      BY <2>2 DEF Init
    <3>2. /\ Earlier \in Nat /\ ids = Earlier /\ DOMAIN journal = 1 .. 2 * Earlier
          /\ \A i \in 1 .. 2 * Earlier :
               /\ journal[i].of = peer /\ journal[i].id = (i + 1) \div 2
               /\ journal[i].kind = IF i % 2 = 1 THEN "call" ELSE "result"
      <4>1. Earlier \in Nat /\ ids = Earlier
        BY AgentLoopAssumption, Bounds DEF Init
      <4>2. QED
        BY <3>1, <4>1, HistoryType
    <3>3. ToolStructureOK(journal)
      <4> SUFFICES ASSUME NEW i \in 1 .. 2 * Earlier
                   PROVE  /\ \A j \in 1 .. i - 1 :
                               <<journal[j].kind, journal[j].id>> # <<journal[i].kind, journal[i].id>>
                          /\ journal[i].kind = "result" =>
                               \E j \in 1 .. i - 1 :
                                 journal[j].kind = "call" /\ journal[j].id = journal[i].id
        BY <3>2 DEF ToolStructureOK
      <4>1. ASSUME NEW j \in 1 .. i - 1
            PROVE  <<journal[j].kind, journal[j].id>> # <<journal[i].kind, journal[i].id>>
        <5>1. j \in 1 .. 2 * Earlier
          BY <3>2
        <5>2. i % 2 = j % 2 => (i + 1) \div 2 # (j + 1) \div 2
          OBVIOUS
        <5>3. i % 2 \in {0, 1} /\ j % 2 \in {0, 1}
          OBVIOUS
        <5>4. journal[i].kind = journal[j].kind => journal[i].id # journal[j].id
          BY <3>2, <5>1, <5>2, <5>3
        <5>5. QED
          BY <5>4
      <4>2. ASSUME journal[i].kind = "result"
            PROVE  i - 1 \in 1 .. i - 1 /\ journal[i - 1].kind = "call"
                   /\ journal[i - 1].id = journal[i].id
        <5>1. i % 2 # 1
          BY <3>2, <4>2
        <5>2. (i - 1) % 2 = 1 /\ i - 1 \in 1 .. i - 1 /\ (i - 1 + 1) \div 2 = (i + 1) \div 2
          BY <5>1
        <5>3. i - 1 \in 1 .. 2 * Earlier
          BY <3>2, <5>2
        <5>4. QED
          BY <3>2, <5>2, <5>3
      <4>3. QED
        BY <4>1, <4>2
    <3>4. Owned(journal)
      BY <3>2 DEF Owned
    <3>5. \A i \in DOMAIN journal : journal[i].id <= ids
      BY <3>2
    <3>6. QED
      BY <3>3, <3>4, <3>5 DEF JournalFresh
  <2>3. QED
    BY <2>1, <2>2
<1>5. QED
  BY <1>2, <1>3, <1>4 DEF FreshInv

LEMMA AnswerFresh ==
  ASSUME NEW r, NEW q \in Drivers, NEW n \in Drivers, TurnInv(q), NEW s, NEW m \in Nat,
         JournalFresh(s, m), NEW calls \in Seq(Calls), AnswerMove(q, n, calls),
         \A i \in DOMAIN calls : calls[i].id = m + i
  PROVE  n.turn = calls /\ TurnFresh(r, n, s, m + Len(calls))
<1>1. n.turn = calls /\ n.at = "record" /\ n.next = 1
  BY DEF AnswerMove, Drivers, TurnInv, Busy
<1>2. DOMAIN calls = 1 .. Len(calls) /\ Len(calls) \in Nat
  OBVIOUS
<1>3. \A k \in DOMAIN calls : /\ calls[k].id <= m + Len(calls)
                              /\ \A l \in DOMAIN calls : calls[l].id = calls[k].id => l = k
  BY <1>2
<1>4. ASSUME NEW k \in DOMAIN calls PROVE Unused(s, calls[k].id)
  <2>1. calls[k].id = m + k /\ k \in Nat \ {0}
    BY <1>2
  <2>2. ASSUME NEW i \in DOMAIN s, s[i].id = calls[k].id PROVE FALSE
    <3>1. s[i].id <= m
      BY DEF JournalFresh
    <3>2. QED
      BY <2>1, <2>2, <3>1
  <2>3. QED
    BY <2>2 DEF Unused
<1>5. Taken(n) = {}
  BY <1>1 DEF Taken
<1>6. QED
  BY <1>1, <1>3, <1>4, <1>5 DEF TurnFresh

LEMMA RecordFresh ==
  ASSUME NEW r \in Runs, NEW q \in Drivers, NEW n \in Drivers, TurnInv(q),
         NEW s \in Seq(Records), NEW m \in Nat, JournalFresh(s, m), TurnFresh(r, q, s, m), NEW t,
         RecordMove(r, q, n, s, t)
  PROVE  n.turn = q.turn /\ JournalFresh(t, m) /\ TurnFresh(r, n, t, m)
<1> DEFINE e == CallRecord(r, Call(q))
           k0 == q.next
<1>1. /\ k0 \in DOMAIN q.turn /\ DOMAIN q.turn = 1 .. Len(q.turn) /\ Len(q.turn) \in Nat
      /\ e \in Records /\ e.of = r /\ e.kind = "call" /\ e.id = q.turn[k0].id
      /\ t = Append(s, e) /\ q.at = "record"
  BY CallType, RecordType, TakenInTurn DEF RecordMove, Busy, CallRecord, Call
<1>2. /\ n.turn = q.turn /\ n.at = IF Last(q) THEN "call" ELSE "record"
      /\ n.next = IF Last(q) THEN 1 ELSE q.next + 1
  BY DEF RecordMove, Drivers, After
<1>3. Taken(n) = Taken(q) \cup {k0} /\ Taken(q) = 1 .. k0 - 1
  BY <1>1, <1>2 DEF Taken, Busy, Last
<1>4. Unused(s, e.id) /\ e.id <= m /\ e.id \in Nat
  BY <1>1, TurnIds DEF TurnFresh
<1>5. JournalFresh(t, m)
  BY <1>1, <1>4, CallAppended
<1> HIDE DEF e
<1>6. n.at = "record" => \A k \in DOMAIN q.turn : k >= n.next => Unused(t, q.turn[k].id)
  <2> SUFFICES ASSUME n.at = "record", NEW k \in DOMAIN q.turn, k >= n.next
               PROVE  Unused(t, q.turn[k].id)
    OBVIOUS
  <2>1. k >= q.next /\ k # k0
    BY <1>1, <1>2
  <2>2. Unused(s, q.turn[k].id) /\ q.turn[k].id # e.id
    BY <1>1, <2>1 DEF TurnFresh
  <2>3. QED
    BY <1>1, <2>2, UnusedStays
<1>7. ASSUME NEW k \in Taken(n) PROVE Open(t, r, q.turn[k].id)
  <2>1. CASE k = k0
    <3>1. t[Len(s) + 1] = e /\ Len(s) + 1 \in DOMAIN t /\ \A i \in DOMAIN t : t[i] = e \/ t[i].id # e.id
      BY <1>1, <1>4 DEF Unused
    <3>2. QED
      BY <1>1, <2>1, <3>1 DEF Open
  <2>2. CASE k # k0
    BY <1>1, <1>3, <1>7, <2>2, OpenStays DEF TurnFresh
  <2>3. QED
    BY <2>1, <2>2
<1>8. QED
  BY <1>2, <1>5, <1>6, <1>7 DEF TurnFresh

LEMMA RespondFresh ==
  ASSUME NEW r \in Runs, NEW q \in Drivers, NEW n \in Drivers, TurnInv(q), TurnInv(n),
         NEW s \in Seq(Records), NEW m \in Nat, JournalFresh(s, m), TurnFresh(r, q, s, m), NEW t,
         RespondMove(r, q, n, s, t)
  PROVE  (n.turn = <<>> \/ n.turn = q.turn) /\ JournalFresh(t, m) /\ TurnFresh(r, n, t, m)
<1> DEFINE e == ResultRecord(r, Call(q), q.result # "ok")
           k0 == q.next
<1>1. /\ k0 \in DOMAIN q.turn /\ DOMAIN q.turn = 1 .. Len(q.turn) /\ Len(q.turn) \in Nat
      /\ e \in Records /\ e.of = r /\ e.kind = "result" /\ e.id = q.turn[k0].id
      /\ t = Append(s, e) /\ q.at = "answering"
  BY CallType, RecordType, TakenInTurn DEF RespondMove, Busy, ResultRecord, Call
<1>2. /\ n.turn = IF Last(q) THEN <<>> ELSE q.turn
      /\ n.at = IF Last(q) THEN "driver" ELSE "call"
      /\ n.next = IF Last(q) THEN 1 ELSE q.next + 1
  BY DEF RespondMove, Drivers, After
<1>3. Open(s, r, e.id)
  <2>1. k0 \in Taken(q)
    BY <1>1 DEF Taken, Busy
  <2>2. QED
    BY <1>1, <2>1 DEF TurnFresh
<1>4. JournalFresh(t, m)
  BY <1>1, <1>3, ResultAppended
<1> HIDE DEF e
<1>5. CASE Last(q)
  <2>1. n.turn = <<>> /\ Taken(n) = {} /\ n.at = "driver"
    BY <1>2, <1>5 DEF Taken, Busy
  <2>2. QED
    BY <1>4, <2>1 DEF TurnFresh
<1>6. CASE ~Last(q)
  <2>1. n.turn = q.turn /\ n.at = "call" /\ \A k \in Taken(n) : k \in Taken(q) /\ k # k0
    BY <1>1, <1>2, <1>6 DEF Taken, Busy
  <2>2. ASSUME NEW k \in Taken(n) PROVE Open(t, r, q.turn[k].id)
    <3>1. k \in DOMAIN q.turn /\ Open(s, r, q.turn[k].id)
      BY <2>1, <2>2, TakenInTurn DEF TurnFresh
    <3>2. q.turn[k].id # e.id
      BY <1>1, <2>1, <2>2, <3>1 DEF TurnFresh
    <3>3. QED
      BY <1>1, <3>1, <3>2, OpenStays
  <2>3. QED
    BY <1>4, <2>1, <2>2 DEF TurnFresh
<1>7. QED
  BY <1>5, <1>6

LEMMA LiveInTurn ==
  ASSUME NEW q \in Drivers, TurnInv(q)
  PROVE  Live(q) \subseteq DOMAIN q.turn
BY TakenInTurn DEF Live

LEMMA FreshNext == RunsInv /\ FreshInv /\ [Next]_vars => FreshInv'
<1> SUFFICES ASSUME RunsInv, FreshInv, [Next]_vars, reuses' = 0, faults' = 0
             PROVE  /\ JournalFresh(journal', ids')
                    /\ \A r \in Runs : TurnFresh(r, run'[r], journal', ids')
                    /\ \A r \in Runs : \A o \in Runs \ {r} : Apart(run'[r], run'[o])
  BY DEF FreshInv
<1>1. /\ journal \in Seq(Records) /\ ids \in Nat /\ run = [r \in Runs |-> run[r]]
      /\ \A r \in Runs : run[r] \in Drivers /\ TurnInv(run[r])
  BY RunType, JournalType, AgentLoopAssumption, Bounds DEF RunsInv, RunInv, TypeOK
<1>2. /\ reuses = 0 /\ faults = 0
      /\ \/ UNCHANGED <<run, journal, ids>>
         \/ \E r \in Runs : FreshStep(r)
         \/ PeerCallStep \/ PeerResultStep
  BY FreshSteps
<1>3. /\ JournalFresh(journal, ids)
      /\ \A r \in Runs : TurnFresh(r, run[r], journal, ids)
      /\ \A r \in Runs : \A o \in Runs \ {r} : Apart(run[r], run[o])
  BY <1>2 DEF FreshInv
<1> DEFINE Goal == /\ JournalFresh(journal', ids')
                   /\ \A r \in Runs : TurnFresh(r, run'[r], journal', ids')
                   /\ \A r \in Runs : \A o \in Runs \ {r} : Apart(run'[r], run'[o])
<1>4. CASE UNCHANGED <<run, journal, ids>>
  BY <1>3, <1>4
<1>5. ASSUME NEW r \in Runs, FreshStep(r) PROVE Goal
  <2>1. PICK n \in Drivers : Becomes(r, n) /\ TurnInv(n) /\ FreshMove(r, run[r], n)
    BY <1>5 DEF FreshStep
  <2>2. run'[r] = n /\ \A o \in Runs \ {r} : run'[o] = run[o]
    BY <1>1, <2>1 DEF Becomes
  <2>3. /\ run[r] \in Drivers /\ TurnInv(run[r]) /\ TurnFresh(r, run[r], journal, ids)
        /\ JournalFresh(journal, ids)
    BY <1>1, <1>3
  <2>4. ASSUME n.turn = <<>> \/ n.turn = run[r].turn
        PROVE  \A p \in Runs : \A o \in Runs \ {p} : Apart(run'[p], run'[o])
    <3>1. ASSUME NEW o \in Runs \ {r} PROVE Apart(n, run[o]) /\ Apart(run[o], n)
      BY <1>3, <2>4 DEF Apart
    <3>2. QED
      BY <1>3, <2>2, <3>1
  <2>5. CASE /\ UNCHANGED <<journal, ids>>
             /\ n.turn = <<>> \/ (n.turn = run[r].turn /\ Taken(n) = Taken(run[r]) /\ n.at # "record")
    <3>1. TurnFresh(r, n, journal, ids)
      <4>1. CASE n.turn = <<>>
        <5>1. DOMAIN n.turn = {} /\ Taken(n) = {}
          BY <2>1, <4>1, TakenInTurn
        <5>2. QED
          BY <5>1 DEF TurnFresh
      <4>2. CASE n.turn = run[r].turn /\ Taken(n) = Taken(run[r]) /\ n.at # "record"
        BY <2>3, <4>2 DEF TurnFresh
      <4>3. QED
        BY <2>5, <4>1, <4>2
    <3>2. \A p \in Runs : TurnFresh(p, run'[p], journal', ids')
      BY <1>3, <2>2, <2>5, <3>1
    <3>3. QED
      BY <1>3, <2>4, <2>5, <3>2
  <2>6. CASE /\ UNCHANGED journal
             /\ \E calls \in Seq(Calls) :
                  /\ AnswerMove(run[r], n, calls) /\ ids' = ids + Len(calls)
                  /\ \A i \in DOMAIN calls : calls[i].id = ids + i
    <3>1. PICK calls \in Seq(Calls) : /\ AnswerMove(run[r], n, calls) /\ ids' = ids + Len(calls)
                                      /\ \A i \in DOMAIN calls : calls[i].id = ids + i
      BY <2>6
    <3>2. n.turn = calls /\ TurnFresh(r, n, journal, ids')
      <4>1. n.turn = calls /\ TurnFresh(r, n, journal, ids + Len(calls))
        BY <1>1, <2>1, <2>3, <3>1, AnswerFresh
      <4>2. QED
        BY <3>1, <4>1
    <3>3. ids' \in Nat /\ ids <= ids'
      BY <1>1, <3>1
    <3>4. \A p \in Runs : TurnFresh(p, run'[p], journal', ids')
      <4>1. ASSUME NEW o \in Runs \ {r} PROVE TurnFresh(o, run[o], journal, ids')
        BY <1>1, <1>3, <3>3, TurnLater
      <4>2. QED
        BY <2>2, <2>6, <3>2, <4>1
    <3>5. JournalFresh(journal', ids')
      <4>1. \A i \in DOMAIN journal : journal[i].id \in Nat /\ journal[i].id <= ids
        BY <1>1, <1>3, Bounds DEF JournalFresh, Records
      <4>2. QED
        BY <1>1, <1>3, <2>6, <3>3, <4>1 DEF JournalFresh
    <3>6. ASSUME NEW o \in Runs \ {r} PROVE Apart(n, run[o]) /\ Apart(run[o], n)
      <4>1. ASSUME NEW k \in DOMAIN run[o].turn, NEW l \in DOMAIN n.turn
            PROVE  run[o].turn[k].id # n.turn[l].id
        <5>1. run[o].turn[k].id <= ids /\ run[o].turn[k].id \in Nat
          BY <1>1, <1>3, TurnIds DEF TurnFresh
        <5>2. n.turn[l].id = ids + l /\ l \in Nat \ {0}
          BY <3>1, <3>2
        <5>3. QED
          BY <1>1, <5>1, <5>2
      <4>2. QED
        BY <4>1 DEF Apart
    <3>7. \A p \in Runs : \A o \in Runs \ {p} : Apart(run'[p], run'[o])
      BY <1>3, <2>2, <3>6
    <3>8. QED
      BY <3>4, <3>5, <3>7
  <2>7. ASSUME NEW e \in Records, journal' = Append(journal, e), UNCHANGED ids,
               NEW k0 \in DOMAIN run[r].turn, e.id = run[r].turn[k0].id,
               n.turn = <<>> \/ n.turn = run[r].turn,
               JournalFresh(journal', ids), TurnFresh(r, n, journal', ids)
        PROVE  Goal
    <3>1. ASSUME NEW o \in Runs \ {r} PROVE TurnFresh(o, run[o], journal', ids)
      <4>1. \A k \in Live(run[o]) : run[o].turn[k].id # e.id
        BY <1>1, <1>3, <2>7, LiveInTurn DEF Apart
      <4>2. run[o] \in Drivers /\ TurnInv(run[o]) /\ TurnFresh(o, run[o], journal, ids) /\ ids <= ids
        BY <1>1, <1>3
      <4>3. QED
        BY <1>1, <2>7, <4>1, <4>2, TurnUndisturbed
    <3>2. \A p \in Runs : TurnFresh(p, run'[p], journal', ids')
      BY <2>2, <2>7, <3>1
    <3>3. QED
      BY <2>4, <2>7, <3>2
  <2>8. CASE RecordMove(r, run[r], n, journal, journal') /\ UNCHANGED ids
    <3> DEFINE e == CallRecord(r, Call(run[r]))
    <3>1. /\ e \in Records /\ journal' = Append(journal, e) /\ run[r].next \in DOMAIN run[r].turn
          /\ e.id = run[r].turn[run[r].next].id
      BY <2>3, <2>8, CallType, RecordType, TakenInTurn DEF RecordMove, Busy, CallRecord, Call
    <3>2. n.turn = run[r].turn /\ JournalFresh(journal', ids) /\ TurnFresh(r, n, journal', ids)
      BY <1>1, <2>1, <2>3, <2>8, RecordFresh
    <3> HIDE DEF e
    <3>3. QED
      BY <2>7, <2>8, <3>1, <3>2
  <2>9. CASE RespondMove(r, run[r], n, journal, journal') /\ UNCHANGED ids
    <3> DEFINE e == ResultRecord(r, Call(run[r]), run[r].result # "ok")
    <3>1. /\ e \in Records /\ journal' = Append(journal, e) /\ run[r].next \in DOMAIN run[r].turn
          /\ e.id = run[r].turn[run[r].next].id
      BY <2>3, <2>9, CallType, RecordType, TakenInTurn DEF RespondMove, Busy, ResultRecord, Call
    <3>2. /\ n.turn = <<>> \/ n.turn = run[r].turn
          /\ JournalFresh(journal', ids) /\ TurnFresh(r, n, journal', ids)
      BY <1>1, <2>1, <2>3, <2>9, RespondFresh
    <3> HIDE DEF e
    <3>3. QED
      BY <2>7, <2>9, <3>1, <3>2
  <2>10. QED
    BY <2>1, <2>5, <2>6, <2>8, <2>9 DEF FreshMove
<1>6. CASE PeerCallStep
  <2>1. PICK e \in Records : e.kind = "call" /\ e.id = ids + 1 /\ journal' = Append(journal, e)
    BY <1>6 DEF PeerCallStep
  <2>2. run' = run /\ ids' = ids + 1
    BY <1>6 DEF PeerCallStep
  <2>3. Unused(journal, e.id)
    <3>1. \A i \in DOMAIN journal : journal[i].id \in Nat /\ journal[i].id <= ids
      BY <1>1, <1>3, Bounds DEF JournalFresh, Records
    <3>2. QED
      BY <1>1, <2>1, <3>1 DEF Unused
  <2>4. JournalFresh(journal', ids')
    BY <1>1, <1>3, <2>1, <2>2, <2>3, CallAppended
  <2>5. ASSUME NEW r \in Runs PROVE TurnFresh(r, run[r], journal', ids')
    <3>1. ASSUME NEW k \in Live(run[r]) PROVE run[r].turn[k].id # e.id
      <4>1. run[r].turn[k].id \in Nat /\ run[r].turn[k].id <= ids
        BY <1>1, <1>3, LiveInTurn, TurnIds DEF TurnFresh
      <4>2. QED
        BY <1>1, <2>1, <4>1
    <3>2. run[r] \in Drivers /\ TurnInv(run[r]) /\ TurnFresh(r, run[r], journal, ids)
          /\ ids <= ids' /\ ids' \in Nat
      BY <1>1, <1>3, <2>2
    <3>3. QED
      BY <1>1, <2>1, <3>1, <3>2, TurnUndisturbed
  <2>6. QED
    BY <1>3, <2>2, <2>4, <2>5
<1>7. CASE PeerResultStep
  <2>1. PICK p \in Peers, e \in Records, c \in DOMAIN journal :
          /\ e.of = p /\ e.kind = "result" /\ e.id = journal[c].id
          /\ journal' = Append(journal, e)
          /\ journal[c].of = p /\ journal[c].kind = "call"
          /\ \A i \in c + 1 .. Len(journal) : journal[i].of = p => journal[i].id # e.id
    BY <1>7 DEF PeerResultStep
  <2>2. run' = run /\ ids' = ids
    BY <1>7 DEF PeerResultStep
  <2>3. Open(journal, p, e.id)
    <3>1. ASSUME NEW i \in DOMAIN journal, journal[i].id = e.id, journal[i].kind # "call"
          PROVE  FALSE
      <4>1. journal[i].kind = "result" /\ i \in Nat /\ c \in Nat /\ DOMAIN journal = 1 .. Len(journal)
            /\ Len(journal) \in Nat
        BY <1>1, <3>1 DEF Records
      <4>2. PICK j \in 1 .. i - 1 : journal[j].kind = "call" /\ journal[j].id = e.id
        BY <1>3, <3>1, <4>1 DEF JournalFresh, ToolStructureOK
      <4>3. j \in DOMAIN journal
        BY <4>1
      <4>4. ~(j \in 1 .. c - 1) /\ ~(c \in 1 .. j - 1)
        BY <1>3, <2>1, <4>2, <4>3 DEF JournalFresh, ToolStructureOK
      <4>5. i \in c + 1 .. Len(journal)
        BY <4>1, <4>2, <4>4
      <4>6. journal[i].of = p
        BY <1>3, <2>1, <3>1 DEF JournalFresh, Owned
      <4>7. QED
        BY <2>1, <3>1, <4>5, <4>6
    <3>2. QED
      BY <2>1, <3>1 DEF Open
  <2>4. JournalFresh(journal', ids')
    BY <1>1, <1>3, <2>1, <2>2, <2>3, ResultAppended
  <2>5. ASSUME NEW r \in Runs PROVE TurnFresh(r, run[r], journal', ids')
    <3>1. ASSUME NEW k \in Live(run[r]), run[r].turn[k].id = e.id PROVE FALSE
      <4>1. Unused(journal, e.id) \/ Open(journal, r, e.id)
        BY <1>1, <1>3, <3>1 DEF TurnFresh, Live
      <4>2. ~Unused(journal, e.id)
        BY <2>1 DEF Unused
      <4>3. PICK i \in DOMAIN journal : journal[i].of = r /\ journal[i].id = e.id
        BY <4>1, <4>2 DEF Open
      <4>4. r = p
        BY <1>3, <2>1, <4>3 DEF JournalFresh, Owned
      <4>5. QED
        BY <4>4, AgentLoopAssumption
    <3>2. run[r] \in Drivers /\ TurnInv(run[r]) /\ TurnFresh(r, run[r], journal, ids) /\ ids <= ids
      BY <1>1, <1>3
    <3>3. QED
      BY <1>1, <2>1, <2>2, <3>1, <3>2, TurnUndisturbed
  <2>6. QED
    BY <1>3, <2>2, <2>4, <2>5
<1>8. QED
  BY <1>2, <1>4, <1>5, <1>6, <1>7

\* What of the ids is true while none is reused and nothing was thrown.
THEOREM IdsAreFresh == Spec => []FreshInv
BY FreshInit, FreshNext, RunsAreInOrder, PTL DEF Spec

\* A session becomes unreadable only after an id is reused or a fault.
THEOREM SessionsBreakForCause == Spec => []BrokenForCause
<1>1. RunsInv /\ FreshInv => BrokenForCause
  <2>1. RunsInv => reuses \in Nat /\ faults \in Nat
    BY Bounds DEF RunsInv, TypeOK
  <2>2. QED
    BY <2>1 DEF FreshInv, JournalFresh, BrokenForCause
<1>2. QED
  BY <1>1, IdsAreFresh, RunsAreInOrder, PTL

-----------------------------------------------------------------------------
(* What is pruned.  The counting of ranks is an induction on finite sets,  *)
(* by a smallest set for which it would fail.                              *)

\* A member of a set of sets with no other member below it.
Minimal(U, T) == U \in T /\ \A V \in T : V \subseteq U => V = U

\* A set of finite sets that is not empty has such a member.
LEMMA Smallest ==
  ASSUME NEW S, IsFiniteSet(S), NEW T, T \subseteq SUBSET S, T # {}
  PROVE  \E U : Minimal(U, T)
<1>1. T \subseteq FiniteSubsetsOf(S)
  BY FS_FiniteSubsetsOfFinite
<1>2. IsWellFoundedOn(StrictSubsetOrdering(S), FiniteSubsetsOf(S))
  BY FS_StrictSubsetOrderingWellFounded
<1>3. PICK U \in T : \A V \in T : ~(<<V, U>> \in StrictSubsetOrdering(S))
  BY <1>1, <1>2, WFMin
<1>4. QED
  BY <1>3 DEF StrictSubsetOrdering, Minimal

\* A finite set of numbers that is not empty has a largest one.
LEMMA Largest ==
  ASSUME NEW S \in SUBSET Nat, IsFiniteSet(S), S # {}
  PROVE  \E m \in S : \A n \in S : n <= m
<1> DEFINE Bounded(U) == U # {} => \E m \in U : \A n \in U : n <= m
           Bad == {U \in SUBSET S : ~Bounded(U)}
<1>1. SUFFICES ASSUME Bad # {} PROVE FALSE
  OBVIOUS
<1>2. PICK U : Minimal(U, Bad)
  <2>1. Bad \subseteq SUBSET S /\ Bad # {}
    BY <1>1
  <2> HIDE DEF Bad
  <2>2. QED BY <2>1, Smallest
<1>3. U \in Bad /\ \A V \in Bad : V \subseteq U => V = U
  BY <1>2 DEF Minimal
<1>4. PICK x \in U : TRUE
  <2>1. U # {} BY <1>3
  <2>2. QED BY <2>1
<1>5. Bounded(U \ {x})
  <2>1. U \ {x} \subseteq U /\ U \ {x} # U /\ U \ {x} \in SUBSET S
    BY <1>3, <1>4
  <2>2. U \ {x} \notin Bad
    BY <1>3, <2>1
  <2>3. QED BY <2>1, <2>2
<1>6. CASE U \ {x} = {}
  <2>1. U = {x} BY <1>4, <1>6
  <2>2. QED BY <1>3, <2>1
<1>7. CASE U \ {x} # {}
  <2>1. PICK m \in U \ {x} : \A n \in U \ {x} : n <= m
    BY <1>5, <1>7
  <2>2. \A n \in U : n <= IF m <= x THEN x ELSE m
    BY <2>1, <1>3, <1>4
  <2>3. QED BY <1>3, <1>4, <2>1, <2>2
<1>8. QED BY <1>6, <1>7


\* The m smallest members of a set.
First(S, m) == {i \in S : Cardinality({j \in S : j <= i}) <= m}

LEMMA FirstCount ==
  ASSUME NEW S \in SUBSET Nat, IsFiniteSet(S), NEW m \in 0 .. Cardinality(S)
  PROVE  Cardinality(First(S, m)) = m
<1> DEFINE Good(U) == \A l \in 0 .. Cardinality(U) : Cardinality(First(U, l)) = l
           Bad == {U \in SUBSET S : ~Good(U)}
<1>1. SUFFICES ASSUME Bad # {} PROVE FALSE
  <2>1. ASSUME Bad = {} PROVE Good(S)
    BY <2>1
  <2>2. QED
    BY <1>1, <2>1
<1>2. PICK U : Minimal(U, Bad)
  <2>1. Bad \subseteq SUBSET S /\ Bad # {}
    BY <1>1
  <2> HIDE DEF Bad
  <2>2. QED
    BY <2>1, Smallest
<1>3. U \in SUBSET S /\ ~Good(U) /\ \A V \in Bad : V \subseteq U => V = U
  BY <1>2 DEF Minimal
<1>4. IsFiniteSet(U) /\ Cardinality(U) \in Nat /\ U \in SUBSET Nat
  BY <1>3, FS_Subset, FS_CardinalityType
<1>5. PICK l \in 0 .. Cardinality(U) : Cardinality(First(U, l)) # l
  BY <1>3
<1>6. \A i \in U : Cardinality({j \in U : j <= i}) <= Cardinality(U)
  BY <1>4, FS_Subset
<1>7. CASE l = Cardinality(U)
  BY <1>5, <1>6, <1>7 DEF First
<1>8. CASE l < Cardinality(U)
  <2>1. U # {}
    BY <1>4, <1>5, <1>8, FS_EmptySet
  <2>2. PICK x \in U : \A i \in U : i <= x
    BY <1>4, <2>1, Largest
  <2> DEFINE V == U \ {x}
  <2>3. IsFiniteSet(V) /\ Cardinality(V) = Cardinality(U) - 1
    BY <1>4, <2>2, FS_RemoveElement
  <2>4. V \in SUBSET S /\ V \subseteq U /\ V # U
    BY <1>3, <2>2
  <2>5. Good(V)
    BY <1>3, <2>4
  <2>6. Cardinality(First(V, l)) = l
    <3>1. l \in 0 .. Cardinality(V)
      BY <1>4, <1>8, <2>3
    <3>2. QED
      BY <2>5, <3>1
  <2>7. First(U, l) = First(V, l)
    <3>1. {j \in U : j <= x} = U
      BY <2>2
    <3>2. x \notin First(U, l)
      BY <1>4, <1>8, <3>1 DEF First
    <3>3. ASSUME NEW i \in V PROVE {j \in U : j <= i} = {j \in V : j <= i}
      <4>1. i \in Nat /\ x \in Nat /\ i <= x /\ i # x
        BY <1>4, <2>2
      <4>2. QED
        BY <4>1
    <3>4. QED
      BY <3>2, <3>3 DEF First
  <2>8. QED
    BY <1>5, <2>6, <2>7
<1>9. QED
  BY <1>4, <1>5, <1>7, <1>8

\* A larger share of a set contains a smaller one.
LEMMA FirstGrows ==
  ASSUME NEW S \in SUBSET Nat, IsFiniteSet(S), NEW m \in 0 .. Cardinality(S),
         NEW l \in m .. Cardinality(S)
  PROVE  /\ First(S, m) \subseteq First(S, l)
         /\ Cardinality(First(S, l) \ First(S, m)) = l - m
         /\ Cardinality(S \ First(S, l)) = Cardinality(S) - l
<1>1. Cardinality(S) \in Nat
  BY FS_CardinalityType
<1>2. \A i \in S : Cardinality({j \in S : j <= i}) \in Nat
  BY FS_Subset, FS_CardinalityType
<1>3. First(S, m) \subseteq First(S, l) /\ First(S, l) \subseteq S
  <2> DEFINE rank(i) == Cardinality({j \in S : j <= i})
  <2>1. /\ First(S, m) = {i \in S : rank(i) <= m} /\ First(S, l) = {i \in S : rank(i) <= l}
        /\ \A i \in S : rank(i) \in Nat
    BY <1>2 DEF First
  <2> HIDE DEF rank
  <2>2. m \in Nat /\ l \in Nat /\ m <= l
    BY <1>1
  <2>3. ASSUME NEW i \in S, rank(i) <= m PROVE rank(i) <= l
    <3>1. rank(i) \in Nat
      BY <2>1
    <3>2. QED
      BY <2>2, <2>3, <3>1
  <2>4. QED
    BY <2>1, <2>3
<1>4. Cardinality(First(S, m)) = m /\ Cardinality(First(S, l)) = l
  <2>1. l \in 0 .. Cardinality(S)
    BY <1>1
  <2>2. QED
    BY <2>1, FirstCount
<1>5. IsFiniteSet(First(S, l)) /\ First(S, l) \cap First(S, m) = First(S, m)
      /\ S \cap First(S, l) = First(S, l)
  BY <1>3, FS_Subset
<1>6. Cardinality(First(S, l) \ First(S, m)) = l - m
  BY <1>4, <1>5, FS_Difference
<1>7. Cardinality(S \ First(S, l)) = Cardinality(S) - l
  <2>1. Cardinality(S \ First(S, l)) = Cardinality(S) - Cardinality(S \cap First(S, l))
    BY FS_Difference
  <2>2. QED
    BY <1>4, <1>5, <2>1
<1>8. QED
  BY <1>3, <1>6, <1>7

\* Whole batches, more of them for more results, and what is retained.
LEMMA PruneCounts ==
  ASSUME NEW n \in Nat
  PROVE  /\ PruneCount(n) \in 0 .. n
         /\ PruneCount(n) # 0 => PruneCount(n) <= n - Retain
         /\ \A m \in {n, n + 1} : /\ PruneCount(n) <= PruneCount(m) /\ PruneCount(m) <= n
                                  /\ (PruneCount(m) - PruneCount(n)) % Batch = 0
<1>1. /\ Batch \in Nat \ {0} /\ Retain \in Nat \ {0} /\ MinExchanges \in Nat
      /\ MinExchanges >= Retain + Batch
  BY Bounds, AgentLoopAssumption
<1> DEFINE B(m) == (m - Retain) \div Batch
<1>2. ASSUME NEW m \in Nat, m >= MinExchanges
      PROVE  /\ B(m) \in Nat /\ B(m) * Batch \in Nat /\ B(m) * Batch <= m - Retain
             /\ PruneCount(m) = B(m) * Batch
             /\ (B(m) * Batch) % Batch = 0
             /\ B(m + 1) \in {B(m), B(m) + 1}
  <2>1. m - Retain \in Nat
    BY <1>1, <1>2
  <2>2. ASSUME NEW a \in Nat, NEW b \in Nat \ {0}
        PROVE  /\ a \div b \in Nat /\ (a \div b) * b \in Nat /\ (a \div b) * b <= a
               /\ (a + 1) \div b \in {a \div b, a \div b + 1}
    OBVIOUS
  <2>3. ASSUME NEW a \in Nat, NEW b \in Nat \ {0}
        PROVE  (a * b) % b = 0
    OBVIOUS
  <2>4. B(m) \in Nat /\ B(m) * Batch \in Nat /\ B(m) * Batch <= m - Retain
    BY <1>1, <2>1, <2>2
  <2>5. (m + 1) - Retain = (m - Retain) + 1
    BY <1>1
  <2>6. B(m + 1) \in {B(m), B(m) + 1}
    BY <1>1, <2>1, <2>2, <2>5
  <2>7. (B(m) * Batch) % Batch = 0
    BY <1>1, <2>3, <2>4
  <2>8. PruneCount(m) = B(m) * Batch
    BY <1>1, <1>2 DEF PruneCount
  <2>9. QED
    BY <2>4, <2>6, <2>7, <2>8
<1>3. \A m \in Nat : m < MinExchanges => PruneCount(m) = 0
  BY DEF PruneCount
<1>4. PruneCount(n) \in 0 .. n /\ (PruneCount(n) # 0 => PruneCount(n) <= n - Retain)
  <2>1. CASE n < MinExchanges
    BY <1>3, <2>1
  <2>2. CASE n >= MinExchanges
    <3> HIDE DEF B
    <3>1. QED
      BY <1>1, <1>2, <2>2
  <2>3. QED
    BY <1>1, <2>1, <2>2
<1>5. ASSUME NEW m \in {n, n + 1}
      PROVE  /\ PruneCount(n) <= PruneCount(m) /\ PruneCount(m) <= n
             /\ (PruneCount(m) - PruneCount(n)) % Batch = 0
  <2>1. 0 % Batch = 0 /\ Batch % Batch = 0
    BY <1>1
  <2>2. CASE m = n
    <3>1. PruneCount(m) - PruneCount(n) = 0
      BY <1>4, <2>2
    <3>2. QED
      BY <1>4, <2>1, <2>2, <3>1
  <2>3. CASE m = n + 1 /\ n >= MinExchanges
    <3>1. n + 1 >= MinExchanges /\ n + 1 \in Nat
      BY <1>1, <2>3
    <3>2. PruneCount(n) = B(n) * Batch /\ PruneCount(m) = B(n + 1) * Batch
      BY <1>2, <2>3, <3>1
    <3>3. B(n + 1) \in {B(n), B(n) + 1} /\ B(n) \in Nat
      BY <1>2, <2>3
    <3>4. B(n + 1) * Batch <= (n + 1) - Retain /\ B(n + 1) * Batch \in Nat
      BY <1>2, <3>1
    <3> HIDE DEF B
    <3>5. (B(n) + 1) * Batch = B(n) * Batch + Batch
      BY <1>1, <3>3
    <3>6. B(n) * Batch \in Nat
      BY <1>2, <2>3
    <3>7. PruneCount(m) - PruneCount(n) \in {0, Batch} /\ PruneCount(n) <= PruneCount(m)
      BY <1>1, <3>2, <3>3, <3>5, <3>6
    <3>8. PruneCount(m) <= n
      BY <1>1, <3>2, <3>4
    <3>9. QED
      BY <2>1, <3>7, <3>8
  <2>4. CASE m = n + 1 /\ n < MinExchanges
    <3>1. PruneCount(n) = 0
      BY <1>3, <2>4
    <3>2. CASE n + 1 < MinExchanges
      BY <1>3, <2>1, <2>4, <3>1, <3>2
    <3>3. CASE n + 1 >= MinExchanges
      <4>1. /\ PruneCount(m) = B(n + 1) * Batch /\ B(n + 1) * Batch \in Nat
            /\ B(n + 1) * Batch <= (n + 1) - Retain /\ (B(n + 1) * Batch) % Batch = 0
        BY <1>2, <2>4, <3>3
      <4> HIDE DEF B
      <4>2. PruneCount(m) - PruneCount(n) = PruneCount(m)
        BY <3>1, <4>1
      <4>3. QED
        BY <1>1, <3>1, <4>1, <4>2
    <3>4. QED
      BY <1>1, <3>2, <3>3
  <2>5. QED
    BY <1>1, <2>2, <2>3, <2>4
<1>6. QED
  BY <1>4, <1>5

\* One more record prunes whole batches or nothing.
LEMMA PrunedGrows ==
  ASSUME NEW s \in Seq(Records), NEW e \in Records
  PROVE  LET t == Append(s, e)
             old == Pruned(s)
             new == Pruned(t)
         IN  /\ old \subseteq new
             /\ Cardinality(new \ old) % Batch = 0
             /\ new # {} => Cardinality(Eligible(t) \ new) >= Retain
<1> DEFINE t == Append(s, e)
           S == Eligible(s)
           T == Eligible(t)
           x == Len(s) + 1
           n == Cardinality(S)
           m == Cardinality(T)
<1>1. /\ Len(s) \in Nat /\ t[x] = e /\ DOMAIN s = 1 .. Len(s)
      /\ DOMAIN t = 1 .. x /\ \A i \in 1 .. Len(s) : t[i] = s[i]
  OBVIOUS
<1>2. S \subseteq 1 .. Len(s) /\ T \subseteq 1 .. x
  BY <1>1 DEF Eligible
<1>3. /\ IsFiniteSet(S) /\ n \in Nat /\ IsFiniteSet(T) /\ m \in Nat
      /\ S \in SUBSET Nat /\ T \in SUBSET Nat /\ x \notin S
  <2>1. x \in Nat /\ x \notin 1 .. Len(s) /\ 1 .. Len(s) \subseteq Nat /\ 1 .. x \subseteq Nat
    BY <1>1
  <2> HIDE DEF S, T, x
  <2>2. IsFiniteSet(S) /\ Cardinality(S) \in Nat
    <3>1. S \in SUBSET (1 .. Len(s))
      BY <1>2
    <3>2. QED
      BY <1>1, <3>1, WithinInterval
  <2>3. IsFiniteSet(T) /\ Cardinality(T) \in Nat
    <3>1. T \in SUBSET (1 .. x)
      BY <1>2
    <3>2. QED
      BY <2>1, <3>1, WithinInterval
  <2>4. S \in SUBSET Nat /\ T \in SUBSET Nat /\ x \notin S
    BY <1>2, <2>1
  <2>5. QED
    BY <2>2, <2>3, <2>4
<1>4. T = S \/ T = S \cup {x}
  <2>1. ASSUME NEW i \in 1 .. Len(s) PROVE OpenCall(t, i, t[i].id) = OpenCall(s, i, s[i].id)
    <3>1. \A c \in 1 .. i - 1 : c \in 1 .. Len(s) /\ t[c] = s[c] /\ t[i] = s[i]
      BY <1>1, <2>1
    <3>2. \A c \in 1 .. i - 1 : \A j \in c + 1 .. i - 1 : j \in 1 .. Len(s) /\ t[j] = s[j]
      BY <1>1, <2>1
    <3>3. QED
      BY <3>1, <3>2 DEF OpenCall
  <2>2. ASSUME NEW i \in 1 .. Len(s) PROVE i \in T <=> i \in S
    <3>1. t[i] = s[i] /\ i \in DOMAIN s /\ i \in DOMAIN t
      BY <1>1
    <3> HIDE DEF t
    <3>2. QED
      BY <2>1, <3>1 DEF Eligible
  <2>3. 1 .. x = (1 .. Len(s)) \cup {x}
    BY <1>1
  <2> HIDE DEF S, T, x, t
  <2>4. QED
    BY <1>2, <2>2, <2>3
<1> HIDE DEF S, T
<1>5. m \in {n, n + 1} /\ (T = S => m = n) /\ (T # S => m = n + 1)
  <2>1. Cardinality(S \cup {x}) = n + 1
    BY <1>3, FS_AddElement
  <2>2. QED
    BY <1>3, <1>4, <2>1
<1>6. Pruned(s) = First(S, PruneCount(n)) /\ Pruned(t) = First(T, PruneCount(m))
  BY DEF Pruned, First, S, T
<1>7. /\ PruneCount(n) \in 0 .. n /\ PruneCount(m) \in 0 .. n
      /\ PruneCount(n) <= PruneCount(m)
      /\ (PruneCount(m) - PruneCount(n)) % Batch = 0
      /\ PruneCount(m) # 0 => PruneCount(m) <= m - Retain
  <2>1. /\ PruneCount(n) \in 0 .. n /\ PruneCount(m) <= n /\ PruneCount(n) <= PruneCount(m)
        /\ (PruneCount(m) - PruneCount(n)) % Batch = 0
    BY <1>3, <1>5, PruneCounts
  <2>2. PruneCount(m) \in 0 .. m /\ (PruneCount(m) # 0 => PruneCount(m) <= m - Retain)
    BY <1>3, PruneCounts
  <2>3. QED
    BY <1>3, <2>1, <2>2
<1> HIDE DEF n, m
<1>8. First(T, PruneCount(m)) = First(S, PruneCount(m))
  <2>1. CASE T = S
    BY <2>1
  <2>2. CASE T = S \cup {x} /\ T # S
    <3>1. {j \in T : j <= x} = T /\ x \in Nat
      BY <1>1, <1>2, <1>3, <2>2
    <3>2. Cardinality({j \in T : j <= x}) = m /\ m = n + 1
      BY <1>5, <2>2, <3>1 DEF m
    <3>3. x \notin First(T, PruneCount(m))
      BY <1>3, <1>7, <3>2 DEF First, n
    <3>4. ASSUME NEW i \in S PROVE {j \in T : j <= i} = {j \in S : j <= i}
      BY <1>1, <1>2, <2>2
    <3>5. QED
      BY <1>3, <2>2, <3>3, <3>4 DEF First
  <2>3. QED
    BY <1>4, <2>1, <2>2
<1>9. /\ First(S, PruneCount(n)) \subseteq First(S, PruneCount(m))
      /\ Cardinality(First(S, PruneCount(m)) \ First(S, PruneCount(n)))
           = PruneCount(m) - PruneCount(n)
  <2>1. PruneCount(m) \in PruneCount(n) .. n /\ PruneCount(n) \in 0 .. n
    BY <1>3, <1>7 DEF n
  <2>2. QED
    BY <1>3, <2>1, FirstGrows DEF n
<1>10. First(T, PruneCount(m)) # {} => Cardinality(T \ First(T, PruneCount(m))) >= Retain
  <2>1. PruneCount(m) \in 0 .. m /\ m \in Nat
    BY <1>3, <1>5, <1>7 DEF n, m
  <2>2. Cardinality(T \ First(T, PruneCount(m))) = m - PruneCount(m)
    <3>1. /\ T \in SUBSET Nat /\ IsFiniteSet(T) /\ 0 \in 0 .. Cardinality(T)
          /\ PruneCount(m) \in 0 .. Cardinality(T)
      BY <1>3, <2>1 DEF m
    <3>2. Cardinality(T \ First(T, PruneCount(m))) = Cardinality(T) - PruneCount(m)
      BY <3>1, FirstGrows
    <3>3. QED
      BY <3>2 DEF m
  <2>3. ASSUME First(T, PruneCount(m)) # {} PROVE PruneCount(m) # 0
    <3>1. Cardinality(First(T, PruneCount(m))) = PruneCount(m)
      BY <1>3, <2>1, FirstCount DEF m
    <3>2. IsFiniteSet(First(T, PruneCount(m)))
      BY <1>3, FS_Subset DEF First
    <3>3. QED
      BY <2>3, <3>1, <3>2, FS_EmptySet
  <2>4. QED
    BY <1>7, <2>1, <2>2, <2>3, Bounds
<1>11. QED
  BY <1>6, <1>7, <1>8, <1>9, <1>10 DEF T

LEMMA JournalSteps ==
  ASSUME RunsInv, [Next]_vars
  PROVE  UNCHANGED journal \/ \E e \in Records : journal' = Append(journal, e)
<1>1. /\ TypeOK /\ \A r \in Runs : run[r] \in Drivers /\ TurnInv(run[r])
  BY RunType DEF RunsInv, RunInv
<1>2. ASSUME NEW r \in Runs, OwnStep(r)
      PROVE  UNCHANGED journal \/ \E e \in Records : journal' = Append(journal, e)
  <2>1. PICK n : Move(r, run[r], n, journal, journal')
    BY <1>2 DEF OwnStep
  <2>2. CASE LeaveMove(r, n, journal, journal')
    BY <2>2 DEF LeaveMove
  <2>3. CASE RecordMove(r, run[r], n, journal, journal')
    BY <1>1, <2>3, CallType, RecordType DEF RecordMove, Busy
  <2>4. CASE RespondMove(r, run[r], n, journal, journal')
    BY <1>1, <2>4, CallType, RecordType DEF RespondMove, Busy
  <2>5. CASE RetellMove(r, run[r], n, journal, journal')
    BY <1>1, <2>5, CallType, RecordType DEF RetellMove, Busy
  <2>6. QED
    BY <2>1, <2>2, <2>3, <2>4, <2>5 DEF Move
<1>3. QED
  BY <1>1, <1>2, Steps DEF PeerStep, SignalStep

\* Outputs are pruned for good and in whole batches; the newest are kept.
THEOREM PruningIsInBatches == Spec => PrefixInBatches
<1>1. RunsInv /\ [Next]_vars =>
        [LET old == Pruned(journal)
             new == Pruned(journal')
         IN  /\ old \subseteq new
             /\ Cardinality(new \ old) % Batch = 0
             /\ new # {} => Cardinality(Eligible(journal') \ new) >= Retain]_journal
  <2> SUFFICES ASSUME RunsInv, [Next]_vars, NEW e \in Records, journal' = Append(journal, e)
               PROVE  LET old == Pruned(journal)
                          new == Pruned(journal')
                      IN  /\ old \subseteq new
                          /\ Cardinality(new \ old) % Batch = 0
                          /\ new # {} => Cardinality(Eligible(journal') \ new) >= Retain
    BY JournalSteps
  <2>1. journal \in Seq(Records)
    BY JournalType DEF RunsInv
  <2>2. QED
    BY <2>1, PrunedGrows
<1>2. QED
  BY <1>1, RunsAreInOrder, PTL DEF Spec, PrefixInBatches
===============================================================================
