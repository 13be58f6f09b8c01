------------------------------- MODULE AgentLoop -------------------------------
(***************************************************************************)
(* What the default driver does with a session: model attempts, retries    *)
(* with backoff, tool calls one after the other, and the limits on them    *)
(* (DemoAgentDriver in packages/defaults/src/index.ts), over the journal   *)
(* of the session, from which the context of every attempt is projected    *)
(* (DefaultContextProjector and OldToolResultPruningTransform in           *)
(* packages/core/src/context-projector.ts).  Runs of one session share its *)
(* journal and nothing keeps them apart; Peers are runs of which only what *)
(* they do to the journal is modelled.                                     *)
(*                                                                         *)
(* Kernel has the rows, the commits and the crashes under the same calls,  *)
(* for any driver.  Here an action goes from one point where the driver    *)
(* waits for the outside world, or where the journal grows, to the next,   *)
(* and the journal keeps what Kernel leaves out: the ids that pair a       *)
(* result with its call.  It holds calls and results only: user, assistant *)
(* and native records and artifacts change neither the pairing nor the     *)
(* pruning, and error records are not visible to a model.                  *)
(***************************************************************************)
EXTENDS Naturals, Sequences, FiniteSets

CONSTANTS
  Runs,          \* runs of the session
  Peers,         \* other runs of it, with whatever driver
  Tools,         \* a tool with its input: what the repeated-call limit counts
  MaxAttempts,   \* maximumAttempts
  MaxRetries,    \* maximumRetries
  RepeatLimit,   \* repeatedToolCallLimit
  MinExchanges,  \* minimumCompletedToolExchanges
  Retain,        \* retainRecentToolExchanges
  Batch,         \* pruneBatchSize
  Earlier,       \* completed exchanges of earlier runs of the session
  MaxCalls,      \* bound on the calls in one answer of the provider
  MaxIds,        \* bound on call ids
  MaxReuses,     \* bound on ids a provider uses again
  MaxFaults      \* bound on commands or publications that throw

\* OldToolResultPruningTransform's constructor refuses other counts.
ASSUME AgentLoopAssumption ==
  /\ Runs \cap Peers = {}
  /\ {MaxAttempts, RepeatLimit, MinExchanges, Retain, Batch} \subseteq Nat \ {0}
  /\ Earlier \in 0 .. MaxIds /\ {MaxRetries, MaxCalls, MaxIds, MaxReuses, MaxFaults} \subseteq Nat
  /\ MinExchanges >= Retain + Batch

VARIABLES
  journal,  \* calls and results of the session, in order
  run,      \* where the driver of a run is, with its variables
  aborted,  \* runs whose signal is aborted
  ids,      \* history: call ids used so far are 1 .. ids
  reuses, faults

budget == <<ids, reuses, faults>>
vars == <<journal, run, aborted, budget>>

Positions ==
  {"none", "driver", "provider", "deciding", "backoff", "record", "call", "worker",
   "answering", "settled"}

Calls == [id : 1 .. MaxIds, tool : Tools]
Failures == {"retryable", "permanent"}

CallRecord(r, call) == [of |-> r, kind |-> "call", id |-> call.id, tool |-> call.tool]
ResultRecord(r, call, isError) == [of |-> r, kind |-> "result", id |-> call.id, isError |-> isError]

RunStates ==
  [at : Positions,
   attempt : 0 .. MaxAttempts,    \* number of the last model attempt
   status : Failures \cup {"running", "completed"},  \* how it ended
   decided : BOOLEAN,             \* whether its retry decision is stored
   shown : 0 .. Len(journal),     \* how much of the journal its context shows
   target : 0 .. MaxAttempts,     \* its retry_of_attempt_id, 0 for none
   retries : 0 .. MaxRetries,     \* the driver's count since the last answer
   retryOf : 0 .. MaxAttempts,    \* the driver's retryOfAttemptId
   turn : Seq(Calls),             \* the calls of the last answer
   next : Nat \ {0},              \* the first still to be recorded, or carried out
   result : {"none", "ok", "isError", "thrown"},  \* what the tool came to
   counts : [Tools -> 0 .. RepeatLimit],  \* the driver's count of equal calls
   ran : [Tools -> Nat]]          \* history: how often it was carried out

TypeOK ==
  /\ journal \in Seq([of : Runs \cup Peers, kind : {"call"}, id : 1 .. MaxIds, tool : Tools]
               \cup [of : Runs \cup Peers, kind : {"result"}, id : 1 .. MaxIds, isError : BOOLEAN])
  /\ run \in [Runs -> RunStates]
  /\ aborted \subseteq {r \in Runs : run[r].at \notin {"none", "settled"}}
  /\ ids \in Earlier .. MaxIds /\ reuses \in 0 .. MaxReuses /\ faults \in 0 .. MaxFaults

\* A driver before its first step, and what is left of it in the end.
Idle(at) ==
  [at |-> at, attempt |-> 0, status |-> "running", decided |-> FALSE, shown |-> 0, target |-> 0,
   retries |-> 0, retryOf |-> 0, turn |-> <<>>, next |-> 1, result |-> "none",
   counts |-> [t \in Tools |-> 0], ran |-> [t \in Tools |-> 0]]

\* The session so far, of a peer.
History(peer, tool) ==
  [i \in 1 .. 2 * Earlier |->
     LET call == [id |-> (i + 1) \div 2, tool |-> tool]
     IN  IF i % 2 = 1 THEN CallRecord(peer, call) ELSE ResultRecord(peer, call, FALSE)]

Init ==
  /\ IF Earlier = 0
       THEN journal = <<>>
       ELSE \E peer \in Peers : \E tool \in Tools : journal = History(peer, tool)
  /\ run = [r \in Runs |-> Idle("none")] /\ aborted = {}
  /\ ids = Earlier /\ reuses = 0 /\ faults = 0

-----------------------------------------------------------------------------
\* The context projector.

\* validateToolStructure: no id names two calls or two results, and a result
\* follows the call it is for.
ToolStructureOK(s) ==
  \A i \in DOMAIN s :
    /\ \A j \in 1 .. i - 1 : <<s[j].kind, s[j].id>> # <<s[i].kind, s[i].id>>
    /\ s[i].kind = "result" => \E j \in 1 .. i - 1 : s[j].kind = "call" /\ s[j].id = s[i].id

\* openCalls: where the call is that is open for an id before position i.
OpenCall(s, i, id) ==
  {c \in 1 .. i - 1 : /\ s[c].kind = "call" /\ s[c].id = id
                      /\ \A j \in c + 1 .. i - 1 : s[j].id # id}

\* The results that may be pruned: no errors.  (Results of protected tools are
\* kept like errors are; these tools are left out.)
Eligible(s) ==
  {i \in DOMAIN s : s[i].kind = "result" /\ ~s[i].isError /\ OpenCall(s, i, s[i].id) # {}}

\* Whole batches of what exceeds the retained ones.
\* (mutant: everything that exceeds them)
PruneAll(n) == IF n < MinExchanges THEN 0 ELSE n - Retain
PruneCount(n) == IF n < MinExchanges THEN 0 ELSE ((n - Retain) \div Batch) * Batch

\* The results whose output the context replaces by a tombstone: the oldest.
Pruned(s) ==
  LET eligible == Eligible(s)
      rank(i) == Cardinality({j \in eligible : j <= i})
  IN  {i \in eligible : rank(i) <= PruneCount(Cardinality(eligible))}

-----------------------------------------------------------------------------
\* The driver returns or throws and the run is finished: its variables and its
\* signal are gone, and the rows that stay are not read again.
Leave(r) ==
  /\ run' = [run EXCEPT ![r] = Idle("settled")]
  /\ aborted' = aborted \ {r}

\* A command commits nothing and throws, or the publication after it throws.
StorageFails == faults < MaxFaults /\ faults' = faults + 1

Start(r) ==
  /\ run[r].at = "none"
  /\ run' = [run EXCEPT ![r].at = "driver"]
  /\ UNCHANGED <<journal, aborted, budget>>

\* cancelRun, or close.  Only a backoff listens to the signal by itself.
Cancel(r) ==
  /\ run[r].at \notin {"none", "settled"} /\ r \notin aborted
  /\ IF run[r].at = "backoff"
       THEN Leave(r)
       ELSE aborted' = aborted \cup {r} /\ UNCHANGED run
  /\ UNCHANGED <<journal, budget>>

\* The head of the driver's loop, the projection of the context and the rows of
\* the attempt.
Ask(r) ==
  /\ run[r].at = "driver"
  /\ IF r \in aborted \/ run[r].attempt = MaxAttempts \/ ~ToolStructureOK(journal)
       THEN Leave(r)
       ELSE /\ run' = [run EXCEPT ![r].at = "provider", ![r].attempt = @ + 1, ![r].status = "running",
                                  ![r].decided = FALSE, ![r].shown = Len(journal),
                                  ![r].target = run[r].retryOf]
            /\ UNCHANGED aborted
  /\ UNCHANGED <<journal, budget>>

\* (mutant: the retry target survives an answer)
KeepTarget(r) == run[r].retryOf
NextTarget(r) == 0

\* (mutant: calls are carried out and never recorded)
DispatchAtOnce == "call"
AfterAnswer == "record"

\* The provider answers with n calls, of which the last may have an id used before.
Answer(r) ==
  /\ run[r].at = "provider" /\ r \notin aborted
  /\ \E n \in 0 .. MaxCalls : \E tools \in [1 .. n -> Tools] : \E reuse \in 0 .. ids :
       LET fresh == IF reuse = 0 THEN n ELSE n - 1
           calls == [i \in 1 .. n |-> [id |-> IF i <= fresh THEN ids + i ELSE reuse, tool |-> tools[i]]]
       IN  /\ n = 0 => reuse = 0
           /\ ids + fresh <= MaxIds
           /\ reuse # 0 => reuses < MaxReuses
           /\ ids' = ids + fresh
           /\ reuses' = IF reuse = 0 THEN reuses ELSE reuses + 1
           /\ IF n = 0
                THEN Leave(r)
                ELSE /\ run' = [run EXCEPT ![r].at = AfterAnswer, ![r].status = "completed",
                                           ![r].turn = calls, ![r].retries = 0,
                                           ![r].retryOf = NextTarget(r)]
                     /\ UNCHANGED aborted
  /\ UNCHANGED <<journal, faults>>

\* The provider fails.  Whatever it says is a failure once the signal is aborted.
Fail(r) ==
  /\ run[r].at = "provider"
  /\ \/ Leave(r)
     \/ /\ r \notin aborted /\ run[r].retries < MaxRetries
        /\ run' = [run EXCEPT ![r].at = "deciding", ![r].status = "retryable", ![r].retries = @ + 1]
        /\ UNCHANGED aborted
  /\ UNCHANGED <<journal, budget>>

\* The retry decision is stored and the backoff begins, aborted or not: a signal
\* that is aborted already does not call its new listener.
Decide(r) ==
  /\ run[r].at = "deciding"
  /\ run' = [run EXCEPT ![r].at = "backoff", ![r].decided = TRUE, ![r].retryOf = run[r].attempt]
  /\ UNCHANGED <<journal, aborted, budget>>

\* (mutant: an aborted backoff has no timer)
TimerCleared(r) == r \notin aborted
TimerRuns(r) == TRUE

Wake(r) ==
  /\ run[r].at = "backoff" /\ TimerRuns(r)
  /\ run' = [run EXCEPT ![r].at = "driver"]
  /\ UNCHANGED <<journal, aborted, budget>>

-----------------------------------------------------------------------------
\* The calls of an answer: all are recorded, then carried out one by one.

CurrentCall(r) == run[r].turn[run[r].next]
LastCall(r) == run[r].next = Len(run[r].turn)
NextIndex(r) == IF LastCall(r) THEN 1 ELSE run[r].next + 1

Record(r) ==
  /\ run[r].at = "record"
  /\ \/ r \in aborted /\ Leave(r) /\ UNCHANGED <<journal, faults>>
     \/ /\ r \notin aborted
        /\ \/ /\ journal' = Append(journal, CallRecord(r, CurrentCall(r)))
              /\ run' = [run EXCEPT ![r].at = IF LastCall(r) THEN "call" ELSE "record",
                                    ![r].next = NextIndex(r)]
              /\ UNCHANGED <<aborted, faults>>
           \/ /\ journal' \in {journal, Append(journal, CallRecord(r, CurrentCall(r)))}
              /\ StorageFails /\ Leave(r)
  /\ UNCHANGED <<ids, reuses>>

Repeated(n) == n >= RepeatLimit

\* The next call: the repeated-call limit, which leaves it without a result, then
\* #dispatchTool, whose dispatcher refuses the call (no such tool, bad input,
\* denied) or carries it out.
NextCall(r) ==
  LET tool == CurrentCall(r).tool
      count == run[r].counts[tool] + 1
  IN  /\ run[r].at = "call"
      /\ \/ (Repeated(count) \/ r \in aborted) /\ Leave(r)
         \/ /\ ~Repeated(count) /\ r \notin aborted
            /\ \/ run' = [run EXCEPT ![r].at = "answering", ![r].counts[tool] = count,
                                     ![r].result = "thrown"]
               \/ run' = [run EXCEPT ![r].at = "worker", ![r].counts[tool] = count,
                                     ![r].ran[tool] = @ + 1]
            /\ UNCHANGED aborted
      /\ UNCHANGED <<journal, budget>>

\* The tool settles and its operation is closed.
ToolSettles(r) ==
  /\ run[r].at = "worker"
  /\ \/ r \in aborted /\ Leave(r)
     \/ /\ r \notin aborted
        /\ \E how \in {"ok", "isError", "thrown"} :
             run' = [run EXCEPT ![r].at = "answering", ![r].result = how]
        /\ UNCHANGED aborted
  /\ UNCHANGED <<journal, budget>>

\* (mutant: only a tool that succeeds is answered for)
RespondToSuccess(r) ==
  IF run[r].result = "ok" THEN Append(journal, ResultRecord(r, CurrentCall(r), FALSE)) ELSE journal
Responded(r) == Append(journal, ResultRecord(r, CurrentCall(r), run[r].result # "ok"))

\* The result is recorded.  If its command or publication throws, the catch block
\* of #dispatchTool takes this for the tool's failure and records that.
Respond(r) ==
  /\ run[r].at = "answering"
  /\ \/ r \in aborted /\ Leave(r) /\ UNCHANGED <<journal, faults>>
     \/ /\ r \notin aborted
        /\ \/ /\ journal' = Responded(r)
              /\ run' = [run EXCEPT ![r].at = IF LastCall(r) THEN "driver" ELSE "call",
                                    ![r].turn = IF LastCall(r) THEN <<>> ELSE @,
                                    ![r].next = NextIndex(r), ![r].result = "none"]
              /\ UNCHANGED <<aborted, faults>>
           \/ /\ StorageFails /\ journal' \in {journal, Responded(r)}
              /\ IF run[r].result = "thrown"
                   THEN Leave(r)
                   ELSE run' = [run EXCEPT ![r].result = "thrown"] /\ UNCHANGED aborted
  /\ UNCHANGED <<ids, reuses>>

\* Any other command or publication of the driver throws, and the driver with it.
CommandFails(r) ==
  /\ run[r].at \in {"driver", "provider", "deciding", "call", "worker"}
  /\ StorageFails /\ Leave(r)
  /\ UNCHANGED <<journal, ids, reuses>>

\* Another run records a call it was given, or its own result for one that has
\* none.  It may stop at any point.
PeerCalls(p) ==
  /\ ids < MaxIds
  /\ ids' = ids + 1
  /\ \E tool \in Tools : journal' = Append(journal, CallRecord(p, [id |-> ids', tool |-> tool]))
  /\ UNCHANGED <<run, aborted, reuses, faults>>

PeerResponds(p) ==
  /\ \E c \in DOMAIN journal :
       /\ journal[c].of = p /\ journal[c].kind = "call"
       /\ \A i \in c + 1 .. Len(journal) : journal[i].of = p => journal[i].id # journal[c].id
       /\ journal' = Append(journal, ResultRecord(p, journal[c], FALSE))
  /\ UNCHANGED <<run, aborted, budget>>

Work(r) ==
  \/ Ask(r) \/ Answer(r) \/ Fail(r) \/ Decide(r) \/ Wake(r)
  \/ Record(r) \/ NextCall(r) \/ ToolSettles(r) \/ Respond(r)

Next ==
  \/ \E r \in Runs : Start(r) \/ Cancel(r) \/ CommandFails(r) \/ Work(r)
  \/ \E p \in Peers : PeerCalls(p) \/ PeerResponds(p)

Spec == Init /\ [][Next]_vars

\* The code under a run goes on by itself: providers and tools settle, timers
\* fire.  Nobody has to start or to cancel a run.
FairSpec == Spec /\ \A r \in Runs : WF_vars(Work(r))

-----------------------------------------------------------------------------
\* A provider is asked only when every call the run has recorded was answered,
\* once, after it was made: whatever failed, was refused or was cut short.
AnsweredBeforeAsked ==
  \A r \in Runs : run[r].at = "provider" =>
    LET shown == SubSeq(journal, 1, run[r].shown)
        answers(i) == {j \in i + 1 .. Len(shown) : shown[j].kind = "result" /\ shown[j].id = shown[i].id}
    IN  \A i \in DOMAIN shown :
          shown[i].of = r /\ shown[i].kind = "call" => Cardinality(answers(i)) = 1

\* A session becomes unreadable, for good, only if a provider used an id twice or
\* a command or publication threw: not by cancels, failing tools, limits, retries, or two
\* runs that write to it at the same time.
BrokenForCause == ToolStructureOK(journal) \/ reuses > 0 \/ faults > 0

\* Outputs are pruned for good and in whole batches, so that the prefix a provider
\* caches seldom changes, and the newest are kept.
PrefixInBatches ==
  [][LET old == Pruned(journal)
         new == Pruned(journal')
     IN  /\ old \subseteq new
         /\ Cardinality(new \ old) % Batch = 0
         /\ new # {} => Cardinality(Eligible(journal') \ new) >= Retain]_journal

\* A retry follows at once the attempt it names, which failed for a passing reason
\* and has its decision stored, and the run has recorded nothing in between; any
\* other attempt follows an answer.
RetriesJustified ==
  [][\A r \in Runs :
       LET old == run[r]
           new == run'[r]
       IN  new.attempt > old.attempt =>
             IF new.target = 0
               THEN old.attempt = 0 \/ old.status = "completed"
               ELSE /\ new.target = old.attempt /\ old.status = "retryable" /\ old.decided
                    /\ \A i \in old.shown + 1 .. new.shown : journal[i].of # r]_run

\* The same call is carried out less often than the limit, and never without a
\* record of it.
EffectsBounded ==
  \A r \in Runs : \A t \in Tools :
    LET recorded == {i \in DOMAIN journal : /\ journal[i].of = r /\ journal[i].kind = "call"
                                            /\ journal[i].tool = t}
    IN  run[r].ran[t] < RepeatLimit /\ run[r].ran[t] <= Cardinality(recorded)

\* With the types, the invariant of the loop.
LoopInv == TypeOK /\ EffectsBounded /\ AnsweredBeforeAsked

\* Every run ends, aborted at whatever time or not at all.
RunSettles == \A r \in Runs : run[r].at = "driver" ~> run[r].at = "settled"
===============================================================================
