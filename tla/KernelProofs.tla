---------------------------- MODULE KernelProofs ----------------------------
(***************************************************************************)
(* Proofs about Kernel, for every set of runs and operations and every     *)
(* bound: types, rows and threads, operations, what the rows of            *)
(* operations, attempts and traces say of each other, and who asked for    *)
(* what was cancelled, which make up the inductive invariant IInv; then    *)
(* what no step ever does, and that the tables behave as RunLedger         *)
(* promises.                                                               *)
(***************************************************************************)
EXTENDS Kernel, TLAPS

-----------------------------------------------------------------------------
\* Types.  What the operators shared by the actions leave in each part.

\* A closing position decides one of the three outcomes.
LEMMA OutcomeType == \A p : Outcome(p) \in {"completed", "failed", "cancelled"}
BY DEF Outcome

\* A thread that starts to wait keeps the memory well typed.
LEMMA AwaitType ==
  ASSUME MemoryOK, NEW r \in Runs, NEW p \in Positions, Await(r, p)
  PROVE  MemoryOK'
BY DEF MemoryOK, Await, Goto

\* So does one that returns to its driver.
LEMMA ToDriverType ==
  ASSUME MemoryOK, NEW r \in Runs, ToDriver(r)
  PROVE  MemoryOK'
BY DEF MemoryOK, ToDriver, Goto, Positions

\* A storage fault is counted and remembered.
LEMMA FaultType ==
  ASSUME HistoryOK, NEW r \in Runs, Fault(r)
  PROVE  HistoryOK'
BY KernelAssumption DEF HistoryOK, Fault

\* A step that writes no row keeps the tables well typed.
LEMMA TablesKept ==
  ASSUME TablesOK, UNCHANGED durable
  PROVE  TablesOK'
BY DEF TablesOK, durable

\* A step that records nothing keeps the history well typed.
LEMMA HistoryKept ==
  ASSUME HistoryOK, UNCHANGED history
  PROVE  HistoryOK'
BY DEF HistoryOK, history

\* appendRecord keeps the tables well typed.
LEMMA AppendType ==
  ASSUME TablesOK, NEW r \in Runs, NEW kind \in RecordKinds,
         Append1(r, kind) \/ UNCHANGED records,
         UNCHANGED <<runStatus, runOp, opVars, attempt, art>>
  PROVE  TablesOK'
<1>1. records' \in [Runs -> Seq(RecordKinds)]
  <2>1. Append(records[r], kind) \in Seq(RecordKinds)
    BY DEF TablesOK
  <2>2. QED BY <2>1 DEF TablesOK, Append1
<1>2. QED BY <1>1 DEF TablesOK, opVars

\* createOperation keeps the tables of operations well typed.
LEMMA CreateOperationType ==
  ASSUME TablesOK, NEW r \in Runs, NEW kind \in {"model", "tool"}, NEW status \in OpStatuses,
         CreateOperation(r, kind, status) \/ UNCHANGED opVars
  PROVE  /\ opRun' \in [Ops -> Runs \cup {NoRun}]
         /\ opKind' \in [Ops -> {"none", "model", "tool"}]
         /\ opStatus' \in [Ops -> OpStatuses]
<1>1. CASE CreateOperation(r, kind, status)
  <2>1. opRun' \in [Ops -> Runs \cup {NoRun}]
    BY <1>1 DEF TablesOK, CreateOperation
  <2>2. opKind' \in [Ops -> {"none", "model", "tool"}]
    BY <1>1 DEF TablesOK, CreateOperation
  <2>3. opStatus' \in [Ops -> OpStatuses]
    BY <1>1 DEF TablesOK, CreateOperation
  <2>4. QED BY <2>1, <2>2, <2>3
<1>2. CASE UNCHANGED opVars
  BY <1>2 DEF TablesOK, opVars
<1>3. QED BY <1>1, <1>2

\* Any prefix of the commits that open an attempt does.
LEMMA OpenAttemptType ==
  ASSUME TablesOK, NEW r \in Runs, NEW k \in Nat, OpenAttemptUpTo(r, k)
  PROVE  TablesOK'
<1>1. CreateOperation(r, "model", "running") \/ UNCHANGED opVars
  BY DEF OpenAttemptUpTo
<1>2. "running" \in OpStatuses
  BY DEF OpStatuses, RunStatuses
<1>3. QED BY <1>1, <1>2, CreateOperationType DEF OpenAttemptUpTo, TablesOK

\* Any prefix of those that record a failed transform does.
LEMMA RecordTransformFailureType ==
  ASSUME TablesOK, NEW r \in Runs, NEW k \in Nat, RecordTransformFailureUpTo(r, k)
  PROVE  TablesOK'
<1> DEFINE s == IF k >= 4 THEN "failed" ELSE "running"
<1>1. CreateOperation(r, "model", s) \/ UNCHANGED opVars
  BY DEF RecordTransformFailureUpTo
<1>2. {"failed", "running"} \subseteq OpStatuses
  BY DEF OpStatuses, RunStatuses
<1>3. QED BY <1>1, <1>2, CreateOperationType DEF RecordTransformFailureUpTo, TablesOK

\* Any prefix of those that close an attempt does.
LEMMA CloseAttemptType ==
  ASSUME TablesOK, NEW r \in Runs, NEW k \in Nat, NEW status \in OpStatuses,
         CloseAttemptUpTo(r, status, k)
  PROVE  TablesOK'
<1>1. art' \in [Ops -> {"absent", "partial", "completed", "failed"}]
  BY DEF CloseAttemptUpTo, TablesOK
<1>2. attempt' \in [Ops -> OpStatuses]
  BY DEF CloseAttemptUpTo, TablesOK
<1>3. opStatus' \in [Ops -> OpStatuses]
  BY DEF CloseAttemptUpTo, TablesOK
<1>4. QED BY <1>1, <1>2, <1>3 DEF CloseAttemptUpTo, TablesOK

\* finishOperation of a tool does.
LEMMA FinishToolType ==
  ASSUME TablesOK, NEW r \in Runs, NEW status \in OpStatuses,
         FinishToolTo(r, status) \/ UNCHANGED durable
  PROVE  TablesOK'
<1>1. CASE FinishToolTo(r, status)
  BY <1>1 DEF FinishToolTo, TablesOK
<1>2. CASE UNCHANGED durable
  BY <1>2, TablesKept
<1>3. QED BY <1>1, <1>2

\* finishRun does.
LEMMA FinishRunType ==
  ASSUME TablesOK, NEW r \in Runs, NEW status \in {"completed", "failed", "cancelled"},
         FinishRunTo(r, status) \/ UNCHANGED durable
  PROVE  TablesOK'
BY DEF FinishRunTo, TablesOK, durable, opVars, RunStatuses, OpStatuses

\* Every reachable state is well typed: no command leaves a row, a thread or a
\* counter outside its range.
THEOREM TypeCorrect == Spec => []TypeOK
<1>1. Init => TypeOK
  BY KernelAssumption
  DEF Init, TypeOK, TablesOK, MemoryOK, HistoryOK, RunStatuses, OpStatuses, Positions, Up
<1>2. TypeOK /\ [Next]_vars => TypeOK'
  <2> SUFFICES ASSUME TypeOK, [Next]_vars PROVE TypeOK'
    OBVIOUS
  <2>0. /\ TablesOK /\ MemoryOK /\ HistoryOK
        /\ {"completed", "failed", "cancelled"} \subseteq OpStatuses
        /\ "running" \in OpStatuses
    BY DEF TypeOK, OpStatuses, RunStatuses
  <2> USE <2>0, AwaitType, ToDriverType, FaultType, TablesKept, HistoryKept, OutcomeType
      DEF TypeOK
  <2>1. ASSUME NEW r \in Runs, StartRun(r) PROVE TypeOK'
    BY <2>1 DEF StartRun, Positions
  <2>2. ASSUME NEW r \in Runs, CreateRun(r) PROVE TypeOK'
    <3>1. <<"user">> \in Seq(RecordKinds)
      BY DEF RecordKinds
    <3>2. TablesOK'
      BY <2>2, <3>1 DEF CreateRun, TablesOK, opVars, RunStatuses, OpStatuses
    <3>3. QED BY <2>2, <3>2 DEF CreateRun, Positions
  <2>3. ASSUME NEW r \in Runs, CreateRunFails(r) PROVE TypeOK'
    BY <2>3 DEF CreateRunFails, Positions
  <2>4. ASSUME NEW r \in Runs, AdmitRun(r) PROVE TypeOK'
    BY <2>4 DEF AdmitRun, Goto, MemoryOK, Positions
  <2>5. ASSUME NEW r \in Runs, CancelRun(r) PROVE TypeOK'
    BY <2>5 DEF CancelRun, MemoryOK, HistoryOK
  <2>6. ASSUME NEW r \in Runs, Driver(r) PROVE TypeOK'
    <3>1. ASSUME NEW o \in Ops, CallModel(r, o) PROVE TypeOK'
      BY <3>1 DEF CallModel, Goto, MemoryOK, Positions
    <3>2. ASSUME NEW o \in Ops, CallTool(r, o) PROVE TypeOK'
      BY <3>2 DEF CallTool, Goto, MemoryOK, Positions
    <3>3. CASE CallAppend(r)
      BY <3>3 DEF CallAppend, Positions
    <3>4. CASE DriverReturns(r)
      BY <3>4 DEF DriverReturns, Positions
    <3>5. CASE DriverThrows(r)
      BY <3>5 DEF DriverThrows, CaughtAt, Positions
    <3>6. QED BY <2>6, <3>1, <3>2, <3>3, <3>4, <3>5 DEF Driver
  <2>7. ASSUME NEW r \in Runs, AppendContent(r) \/ AppendContentFails(r) PROVE TypeOK'
    BY <2>7, AppendType DEF AppendContent, AppendContentFails, RecordKinds
  <2>8. ASSUME NEW r \in Runs, OpenAttempt(r) \/ OpenAttemptFails(r) PROVE TypeOK'
    <3>1. PICK k \in 0 .. 3 : OpenAttemptUpTo(r, k)
      BY <2>8 DEF OpenAttempt, OpenAttemptFails
    <3>2. TablesOK'
      BY <3>1, OpenAttemptType
    <3>3. QED BY <2>8, <3>2 DEF OpenAttempt, OpenAttemptFails, Positions
  <2>9. ASSUME NEW r \in Runs, RecordTransformFailure(r) \/ RecordTransformFailureFails(r)
        PROVE  TypeOK'
    <3>1. PICK k \in 0 .. 4 : RecordTransformFailureUpTo(r, k)
      BY <2>9 DEF RecordTransformFailure, RecordTransformFailureFails
    <3>2. TablesOK'
      BY <3>1, RecordTransformFailureType
    <3>3. QED BY <2>9, <3>2 DEF RecordTransformFailure, RecordTransformFailureFails
  <2>10. ASSUME NEW r \in Runs, InvokeProvider(r) \/ ProviderSettles(r) \/ FinalizeFails(r)
         PROVE  TypeOK'
    BY <2>10 DEF InvokeProvider, ProviderSettles, FinalizeFails, Positions
  <2>11. ASSUME NEW r \in Runs, CloseAttempt(r) \/ CloseAttemptFails(r) PROVE TypeOK'
    <3>1. PICK k \in 0 .. 3 : CloseAttemptUpTo(r, Outcome(pc[r]), k)
      BY <2>11 DEF CloseAttempt, CloseAttemptFails
    <3>2. TablesOK'
      BY <3>1, CloseAttemptType
    <3>3. QED BY <2>11, <3>2 DEF CloseAttempt, CloseAttemptFails
  <2>12. ASSUME NEW r \in Runs, OpenTool(r) \/ OpenToolFails(r) PROVE TypeOK'
    <3>1. TablesOK'
      BY <2>12, CreateOperationType DEF OpenTool, OpenToolFails, TablesOK, durable, opVars
    <3>2. QED BY <2>12, <3>1 DEF OpenTool, OpenToolFails, Positions
  <2>13. ASSUME NEW r \in Runs, DispatchTool(r) \/ ToolSettles(r) PROVE TypeOK'
    BY <2>13 DEF DispatchTool, ToolSettles, ToolOutcomes, Positions
  <2>14. ASSUME NEW r \in Runs, FinishTool(r) \/ FinishToolRefused(r) \/ FinishToolFails(r)
         PROVE  TypeOK'
    <3>1. Outcome(pc[r]) \in OpStatuses
      OBVIOUS
    <3>2. TablesOK'
      BY <2>14, <3>1, FinishToolType DEF FinishTool, FinishToolRefused, FinishToolFails
    <3>3. QED BY <2>14, <3>2 DEF FinishTool, FinishToolRefused, FinishToolFails, Positions
  <2>15. ASSUME NEW r \in Runs, AppendResult(r) \/ AppendResultFails(r) PROVE TypeOK'
    BY <2>15, AppendType DEF AppendResult, AppendResultFails, RecordKinds, Positions
  <2>16. ASSUME NEW r \in Runs, AppendError(r) \/ AppendErrorFails(r) PROVE TypeOK'
    BY <2>16, AppendType DEF AppendError, AppendErrorFails, RecordKinds, Positions
  <2>17. ASSUME NEW r \in Runs, FinishRun(r) \/ FinishRunRefused(r) \/ FinishRunFails(r)
         PROVE  TypeOK'
    <3>1. TablesOK'
      BY <2>17, FinishRunType DEF FinishRun, FinishRunRefused, FinishRunFails
    <3>2. QED BY <2>17, <3>1
          DEF FinishRun, FinishRunRefused, FinishRunFails, CaughtAt, Positions
  <2>18. ASSUME NEW r \in Runs, Settle(r) PROVE TypeOK'
    BY <2>18 DEF Settle, Goto, MemoryOK, Positions
  <2>19. CASE Close \/ CloseDatabase
    BY <2>19 DEF Close, CloseDatabase, MemoryOK, Up
  <2>20. CASE AbortAll
    BY <2>20 DEF AbortAll, AllAborted, MemoryOK, HistoryOK, Up
  <2>21. CASE Crash
    <3>1. TablesOK'
      BY <2>21, OpenAttemptType, RecordTransformFailureType, CloseAttemptType DEF Crash
    <3>2. MemoryOK'
      BY <2>21 DEF Crash, MemoryOK, Positions
    <3>3. HistoryOK'
      BY <2>21, KernelAssumption DEF Crash, HistoryOK
    <3>4. QED BY <3>1, <3>2, <3>3
  <2>22. CASE Restart
    <3>1. TablesOK'
      BY <2>22 DEF Restart, TablesOK, RecoveredAttempt, RecoveredRun, Abandon, OpStatuses, RunStatuses
    <3>2. QED BY <2>22, <3>1 DEF Restart, MemoryOK, Up
  <2>23. CASE UNCHANGED vars
    BY <2>23 DEF vars, durable, memory, history, TablesOK, MemoryOK, HistoryOK, opVars
  <2>24. QED
    BY <2>1, <2>2, <2>3, <2>4, <2>5, <2>6, <2>7, <2>8, <2>9, <2>10, <2>11, <2>12, <2>13, <2>14,
       <2>15, <2>16, <2>17, <2>18, <2>19, <2>20, <2>21, <2>22, <2>23
    DEF Next, RunNext, Thread, Outside, Failure, ProcessNext
<1>3. QED BY <1>1, <1>2, PTL DEF Spec

-----------------------------------------------------------------------------
\* Which steps touch the rows of runs.

\* The rows of runs change only when a run is created or finished, or at a restart.
LEMMA RunRowSteps ==
  ASSUME [Next]_vars
  PROVE  \/ \E r \in Runs : CreateRun(r)
         \/ \E r \in Runs : FinishRun(r) \/ FinishRunFails(r)
         \/ Restart
         \/ UNCHANGED <<runStatus, runOp>>
BY DEF Next, RunNext, Driver, Thread, Outside, Failure, ProcessNext, vars, durable, opVars,
   StartRun, CreateRunFails, AdmitRun, CancelRun, CallModel, CallTool, CallAppend,
   DriverReturns, DriverThrows, AppendContent, AppendContentFails,
   OpenAttempt, OpenAttemptFails, OpenAttemptUpTo,
   RecordTransformFailure, RecordTransformFailureFails, RecordTransformFailureUpTo,
   InvokeProvider, ProviderSettles, FinalizeFails, CloseAttempt, CloseAttemptFails, CloseAttemptUpTo,
   OpenTool, OpenToolFails, DispatchTool, ToolSettles,
   FinishTool, FinishToolRefused, FinishToolFails, FinishToolTo,
   AppendResult, AppendResultFails, AppendError, AppendErrorFails, FinishRunRefused, Settle,
   Close, AbortAll, CloseDatabase, Crash

-----------------------------------------------------------------------------
\* The row of a run and the row of its run operation stay in step: they are
\* written by the same transactions (finishRun, recoverAbandoned).
THEOREM RunMirrors == Spec => []RunMirrorsOperation
<1>1. Init => RunMirrorsOperation
  BY DEF Init, RunMirrorsOperation
<1>2. TypeOK /\ RunMirrorsOperation /\ [Next]_vars => RunMirrorsOperation'
  <2> SUFFICES ASSUME TypeOK, RunMirrorsOperation, [Next]_vars PROVE RunMirrorsOperation'
    OBVIOUS
  <2> USE DEF RunMirrorsOperation, TypeOK, TablesOK
  <2>1. ASSUME NEW r \in Runs, CreateRun(r) PROVE RunMirrorsOperation'
    BY <2>1 DEF CreateRun
  <2>2. ASSUME NEW r \in Runs, FinishRun(r) \/ FinishRunFails(r) PROVE RunMirrorsOperation'
    BY <2>2, OutcomeType DEF FinishRun, FinishRunFails, FinishRunTo, durable
  <2>3. CASE Restart
    BY <2>3 DEF Restart, RecoveredRun, Live, RunStatuses
  <2>4. CASE UNCHANGED <<runStatus, runOp>>
    BY <2>4
  <2>5. QED
    BY <2>1, <2>2, <2>3, <2>4, RunRowSteps
<1>3. QED BY <1>1, <1>2, TypeCorrect, PTL DEF Spec

-----------------------------------------------------------------------------
\* A thread at work has a running run, and a running run a thread.

Handler == {"error", "finishFailed", "finishCancelled"}

\* A thread moves on and the rows of the runs stay.
LEMMA ThreadMove ==
  ASSUME TypeOK, ThreadInv, NEW r \in Runs, NEW p \in Busy \cup {"settled"},
         pc[r] \in Busy, Goto(r, p),
         p = "admitted" => FALSE,
         p = "settled" => runStatus[r] # "running" \/ r \in faulted',
         pc[r] \in Handler => p \in Handler \cup {"settled"},
         UNCHANGED <<runStatus, proc>>, faulted \subseteq faulted'
  PROVE  ThreadInv'
<1> USE DEF TypeOK, MemoryOK, TablesOK, Goto
<1>1. ThreadInv!(r)'
  BY DEF ThreadInv, Busy, Handler, Up
<1>2. ASSUME NEW q \in Runs \ {r} PROVE ThreadInv!(q)'
  BY <1>2 DEF ThreadInv
<1>3. QED BY <1>1, <1>2 DEF ThreadInv

\* A thread at work works on a running run, and a running run has a thread at
\* work, crashes and storage faults apart (#executeRun, #close, recovery).
THEOREM ThreadsAndRuns == Spec => []ThreadInv
<1>1. Init => ThreadInv
  BY DEF Init, ThreadInv, Busy, Positions, Up
<1>2. TypeOK /\ RunMirrorsOperation /\ ThreadInv /\ [Next]_vars => ThreadInv'
  <2> SUFFICES ASSUME TypeOK, RunMirrorsOperation, ThreadInv, [Next]_vars PROVE ThreadInv'
    OBVIOUS
  <2> USE DEF Await, ToDriver, Fault, durable, Busy, Positions, Handler, history
  <2>1. ASSUME NEW r \in Runs, StartRun(r) \/ CreateRun(r) \/ CreateRunFails(r) \/ AdmitRun(r)
        PROVE  ThreadInv'
    BY <2>1 DEF TypeOK, TablesOK, MemoryOK, Goto, Up, ThreadInv, StartRun, CreateRun, CreateRunFails, AdmitRun
  <2>2. ASSUME NEW r \in Runs, CancelRun(r) PROVE ThreadInv'
    BY <2>2 DEF TypeOK, TablesOK, MemoryOK, Goto, Up, ThreadInv, CancelRun
  <2>3. ASSUME NEW r \in Runs, Driver(r) PROVE ThreadInv'
    BY <2>3, ThreadMove
    DEF Driver, CallModel, CallTool, CallAppend, DriverReturns, DriverThrows, CaughtAt
  <2>4. ASSUME NEW r \in Runs, AppendContent(r) \/ AppendContentFails(r) PROVE ThreadInv'
    BY <2>4, ThreadMove DEF AppendContent, AppendContentFails
  <2>5. ASSUME NEW r \in Runs, OpenAttempt(r) \/ OpenAttemptFails(r) PROVE ThreadInv'
    BY <2>5, ThreadMove DEF OpenAttempt, OpenAttemptFails, OpenAttemptUpTo
  <2>6. ASSUME NEW r \in Runs, RecordTransformFailure(r) \/ RecordTransformFailureFails(r)
        PROVE  ThreadInv'
    BY <2>6, ThreadMove
    DEF RecordTransformFailure, RecordTransformFailureFails, RecordTransformFailureUpTo
  <2>7. ASSUME NEW r \in Runs, InvokeProvider(r) \/ ProviderSettles(r) \/ FinalizeFails(r)
        PROVE  ThreadInv'
    BY <2>7, ThreadMove DEF InvokeProvider, ProviderSettles, FinalizeFails
  <2>8. ASSUME NEW r \in Runs, CloseAttempt(r) \/ CloseAttemptFails(r) PROVE ThreadInv'
    BY <2>8, ThreadMove DEF CloseAttempt, CloseAttemptFails, CloseAttemptUpTo
  <2>9. ASSUME NEW r \in Runs, OpenTool(r) \/ OpenToolFails(r) \/ DispatchTool(r) \/ ToolSettles(r)
        PROVE  ThreadInv'
    BY <2>9, ThreadMove DEF OpenTool, OpenToolFails, DispatchTool, ToolSettles, ToolOutcomes
  <2>10. ASSUME NEW r \in Runs, FinishTool(r) \/ FinishToolRefused(r) \/ FinishToolFails(r)
         PROVE  ThreadInv'
    BY <2>10, ThreadMove DEF FinishTool, FinishToolRefused, FinishToolFails, FinishToolTo
  <2>11. ASSUME NEW r \in Runs, AppendResult(r) \/ AppendResultFails(r) PROVE ThreadInv'
    BY <2>11, ThreadMove DEF AppendResult, AppendResultFails
  <2>12. ASSUME NEW r \in Runs, AppendError(r) \/ AppendErrorFails(r) PROVE ThreadInv'
    BY <2>12, ThreadMove DEF AppendError, AppendErrorFails
  <2>13. ASSUME NEW r \in Runs, FinishRun(r) PROVE ThreadInv'
    BY <2>13, OutcomeType DEF TypeOK, TablesOK, MemoryOK, Goto, Up, ThreadInv, FinishRun, FinishRunTo
  <2>14. ASSUME NEW r \in Runs, FinishRunRefused(r) PROVE ThreadInv'
    BY <2>14, ThreadMove DEF FinishRunRefused, CanEnd, RunMirrorsOperation
  <2>15. ASSUME NEW r \in Runs, FinishRunFails(r) PROVE ThreadInv'
    <3> DEFINE p == IF pc[r] = "finish" THEN CaughtAt(r) ELSE "settled"
    <3>0. /\ p \in Handler \cup {"settled"} /\ pc[r] \in Busy
          /\ p = "settled" <=> pc[r] # "finish"
          /\ Await(r, p) /\ r \in faulted' /\ faulted \subseteq faulted'
      BY <2>15 DEF FinishRunFails, CaughtAt
    <3>1. CASE UNCHANGED durable
      BY <2>15, <3>0, <3>1, ThreadMove
    <3>2. CASE FinishRunTo(r, Outcome(pc[r]))
      <4>1. ThreadInv!(r)'
        <5>1. pc[r] = "finish" => runStatus'[r] = "completed"
          BY <3>2 DEF FinishRunTo, Outcome, TypeOK, TablesOK
        <5>2. runStatus'[r] \notin {"absent", "running"}
          BY <3>2, OutcomeType DEF FinishRunTo, TypeOK, TablesOK
        <5>3. pc'[r] = p /\ proc' = proc /\ proc \in Up
          BY <3>0 DEF Goto, ThreadInv, TypeOK, MemoryOK
        <5>4. QED BY <3>0, <5>1, <5>2, <5>3 DEF Up
      <4>2. ASSUME NEW q \in Runs \ {r} PROVE ThreadInv!(q)'
        BY <3>0, <3>2 DEF ThreadInv, FinishRunTo, TypeOK, TablesOK, MemoryOK, Goto, Up
      <4>3. QED BY <4>1, <4>2 DEF ThreadInv
    <3>3. QED BY <2>15, <3>1, <3>2 DEF FinishRunFails
  <2>16. ASSUME NEW r \in Runs, Settle(r) PROVE ThreadInv'
    BY <2>16 DEF TypeOK, TablesOK, MemoryOK, Goto, Up, ThreadInv, Settle
  <2>17. CASE Close \/ AbortAll \/ CloseDatabase
    BY <2>17 DEF TypeOK, TablesOK, MemoryOK, Goto, Up, ThreadInv, Close, AbortAll, CloseDatabase, AdmissionsSettled
  <2>18. CASE Crash
    <3>1. UNCHANGED runStatus
      BY <2>18 DEF Crash, OpenAttemptUpTo, RecordTransformFailureUpTo, CloseAttemptUpTo
    <3>2. QED BY <2>18, <3>1 DEF TypeOK, TablesOK, MemoryOK, Goto, Up, ThreadInv, Crash
  <2>19. CASE Restart
    BY <2>19 DEF TypeOK, TablesOK, MemoryOK, Goto, Up, ThreadInv, RunMirrorsOperation, Restart, RecoveredRun, Live, RunStatuses
  <2>20. CASE UNCHANGED vars
    BY <2>20 DEF TypeOK, TablesOK, MemoryOK, Goto, Up, ThreadInv, vars, memory
  <2>21. QED
    BY <2>1, <2>2, <2>3, <2>4, <2>5, <2>6, <2>7, <2>8, <2>9, <2>10, <2>11, <2>12, <2>13, <2>14,
       <2>15, <2>16, <2>17, <2>18, <2>19, <2>20
    DEF Next, RunNext, Thread, Outside, Failure, ProcessNext
<1>3. QED BY <1>1, <1>2, TypeCorrect, RunMirrors, PTL DEF Spec

-----------------------------------------------------------------------------
\* A running operation is the one its run's thread has open.

\* A step of the thread of r, which touches no row of an operation but that of
\* the one it works on: what is left to show is about that operation and r.
LEMMA OperationStep ==
  ASSUME TypeOK, TypeOK', OperationInv, NEW r \in Runs, NEW c, c = cur[r],
         \A q \in Runs \ {r} : pc'[q] = pc[q] /\ cur'[q] = cur[q],
         proc' = proc, proc \in Up, faulted \subseteq faulted',
         \A q \in Runs : runStatus[q] # "absent" => runStatus'[q] # "absent",
         \A o \in Ops \ {c} :
           opRun'[o] = opRun[o] /\ opKind'[o] = opKind[o] /\ opStatus'[o] = opStatus[o],
         cur'[r] \in {cur[r], NoOp} \/ Fresh(cur'[r]),
         c \in Ops => OperationRow(c)',
         OperationThread(r)'
  PROVE  OperationInv'
<1> USE DEF TypeOK, TablesOK, MemoryOK
<1>1. ASSUME NEW o \in Ops PROVE OperationRow(o)'
  <2>1. CASE o = c
    BY <2>1
  <2>2. CASE o # c
    BY <2>2, KernelAssumption DEF OperationInv, OperationRow, Up
  <2>3. QED BY <2>1, <2>2
<1>2. ASSUME NEW q \in Runs PROVE OperationThread(q)'
  <2>1. CASE q # r
    BY <2>1, KernelAssumption
    DEF OperationInv, OperationThread, Up, Unopened, ModelOpen, ToolOpen
  <2>2. QED BY <2>1
<1>3. ASSUME NEW q1 \in Runs, NEW q2 \in Runs, q1 # q2
      PROVE  cur'[q1] = NoOp \/ cur'[q1] # cur'[q2]
  <2>1. cur[q1] = NoOp \/ cur[q1] # cur[q2]
    BY <1>3 DEF OperationInv
  <2>2. ASSUME NEW o, Fresh(o) PROVE o # cur[q1] /\ o # cur[q2]
    BY <2>2 DEF Fresh
  <2>3. QED BY <1>3, <2>1, <2>2
<1>4. QED BY <1>1, <1>2, <1>3 DEF OperationInv

\* The thread moves on with its operation, whose rows stay.
LEMMA OperationKept ==
  ASSUME TypeOK, TypeOK', ThreadInv, OperationInv, NEW r \in Runs, NEW p \in Positions,
         Goto(r, p), UNCHANGED <<proc, cur>>,
         \/ pc[r] \in ModelOpen /\ p \in ModelOpen
         \/ pc[r] \in ToolOpen /\ p \in ToolOpen
         \/ pc[r] \notin ModelOpen \cup ToolOpen /\ p \notin Unopened \cup ModelOpen \cup ToolOpen,
         proc \in Up, UNCHANGED opVars, faulted \subseteq faulted',
         \A q \in Runs : runStatus[q] # "absent" => runStatus'[q] # "absent"
  PROVE  OperationInv'
<1> USE DEF TypeOK, TablesOK, MemoryOK, Goto, opVars
<1>1. PICK c : c = cur[r]
  OBVIOUS
<1>2. c \in Ops => OperationRow(c)'
  BY <1>1, KernelAssumption DEF OperationInv, OperationRow, OperationThread, Up
<1>3. OperationThread(r)'
  BY <1>1 DEF OperationInv, OperationThread, Unopened, ModelOpen, ToolOpen
<1>4. QED BY <1>1, <1>2, <1>3, OperationStep

\* The thread is done with its operation, which is closed or lost to a fault.
LEMMA OperationLeft ==
  ASSUME TypeOK, TypeOK', ThreadInv, OperationInv, NEW r \in Runs, NEW c, c = cur[r],
         NEW p \in Positions \ (Unopened \cup ModelOpen \cup ToolOpen),
         Goto(r, p), cur'[r] \in {c, NoOp}, \A q \in Runs \ {r} : cur'[q] = cur[q],
         proc \in Up, UNCHANGED <<proc, runStatus>>, faulted \subseteq faulted',
         \A o \in Ops \ {c} :
           opRun'[o] = opRun[o] /\ opKind'[o] = opKind[o] /\ opStatus'[o] = opStatus[o],
         c \in Ops =>
           /\ opRun'[c] \in {opRun[c], r}
           /\ (opStatus'[c] = "absent") <=> (opRun'[c] = NoRun)
           /\ (opStatus'[c] = "absent") <=> (opKind'[c] = "none")
           /\ opRun'[c] = r => runStatus[r] # "absent"
           /\ opStatus'[c] = "running" =>
                opRun'[c] \in faulted' \/ (opRun'[c] = opRun[c] /\ opStatus[c] = "running" /\ opRun[c] # r)
  PROVE  OperationInv'
<1> USE DEF TypeOK, TablesOK, MemoryOK, Goto
<1>1. c \in Ops => OperationRow(c)'
  BY KernelAssumption DEF OperationInv, OperationRow, OperationThread, Up
<1>2. OperationThread(r)'
  BY DEF OperationThread
<1>3. QED BY <1>1, <1>2, OperationStep

\* The thread drops its operation as it is: none is open, or a fault strands it.
LEMMA OperationDropped ==
  ASSUME TypeOK, TypeOK', ThreadInv, OperationInv, NEW r \in Runs,
         NEW p \in Positions \ (Unopened \cup ModelOpen \cup ToolOpen),
         Goto(r, p), cur'[r] \in {cur[r], NoOp}, \A q \in Runs \ {r} : cur'[q] = cur[q],
         proc \in Up, UNCHANGED <<proc, runStatus, opVars>>, faulted \subseteq faulted',
         pc[r] \in ModelOpen \cup ToolOpen => r \in faulted' \/ opStatus[cur[r]] # "running"
  PROVE  OperationInv'
<1>1. PICK c : c = cur[r]
  OBVIOUS
<1>2. ASSUME c \in Ops PROVE OperationRow(c)
  BY <1>2 DEF OperationInv
<1>3. ASSUME c \in Ops, opStatus[c] = "running", opRun[c] \notin faulted'
      PROVE  opRun[c] # r
  BY <1>1, <1>2, <1>3 DEF OperationRow, Up
<1>4. c \in Ops /\ opRun[c] = r => runStatus[r] # "absent"
  BY <1>2, KernelAssumption DEF OperationRow
<1>5. QED BY <1>1, <1>2, <1>3, <1>4, OperationLeft DEF OperationRow, opVars

\* What CreateOperation does to the rows, whichever operation c it creates.
LEMMA CreateOperationRows ==
  ASSUME TypeOK, NEW r \in Runs, NEW c \in Ops, c = cur[r], NEW kind, NEW status,
         CreateOperation(r, kind, status)
  PROVE  /\ \A o \in Ops \ {c} :
              opRun'[o] = opRun[o] /\ opKind'[o] = opKind[o] /\ opStatus'[o] = opStatus[o]
         /\ opRun'[c] = r /\ opKind'[c] = kind /\ opStatus'[c] = status
BY DEF CreateOperation, TypeOK, TablesOK

\* The thread opens its operation and works on.
LEMMA OperationOpened ==
  ASSUME TypeOK, TypeOK', ThreadInv, OperationInv, NEW r \in Runs, pc[r] \in Unopened,
         NEW kind \in {"model", "tool"}, NEW p \in IF kind = "model" THEN ModelOpen ELSE ToolOpen,
         CreateOperation(r, kind, "running"), Await(r, p),
         proc \in Up, runStatus[r] = "running", UNCHANGED <<runStatus, faulted>>
  PROVE  OperationInv'
<1>1. PICK c \in Ops : c = cur[r] /\ opStatus[c] = "absent"
  BY DEF OperationInv, OperationThread, TypeOK, MemoryOK
<1>2. /\ \A o \in Ops \ {c} :
            opRun'[o] = opRun[o] /\ opKind'[o] = opKind[o] /\ opStatus'[o] = opStatus[o]
      /\ opRun'[c] = r /\ opKind'[c] = kind /\ opStatus'[c] = "running"
  BY <1>1, CreateOperationRows
<1>3. /\ pc'[r] = p /\ cur' = cur /\ proc' = proc
      /\ \A q \in Runs \ {r} : pc'[q] = pc[q]
  BY DEF Await, Goto, TypeOK, MemoryOK
<1>4. OperationThread(r)'
  BY <1>1, <1>2, <1>3, KernelAssumption DEF OperationThread, Unopened, ModelOpen, ToolOpen
<1>5. OperationRow(c)'
  BY <1>1, <1>2, <1>3, KernelAssumption DEF OperationRow, ModelOpen, ToolOpen
<1>6. QED BY <1>1, <1>2, <1>3, <1>4, <1>5, OperationStep

\* The thread opens its operation, or not, and lets go of it.
LEMMA OperationOpenedAndLeft ==
  ASSUME TypeOK, TypeOK', ThreadInv, OperationInv, NEW r \in Runs, pc[r] \in Unopened,
         NEW kind \in {"model", "tool"}, NEW status \in {"running", "failed"},
         CreateOperation(r, kind, status) \/ UNCHANGED opVars, ToDriver(r),
         status = "running" => r \in faulted' \/ UNCHANGED opVars,
         proc \in Up, runStatus[r] = "running", UNCHANGED runStatus, faulted \subseteq faulted'
  PROVE  OperationInv'
<1>1. PICK c \in Ops : c = cur[r] /\ opStatus[c] = "absent"
  BY DEF OperationInv, OperationThread, TypeOK, MemoryOK
<1>2. OperationRow(c)
  BY DEF OperationInv
<1>3. /\ Goto(r, "driver") /\ cur'[r] = NoOp /\ proc' = proc
      /\ \A q \in Runs \ {r} : cur'[q] = cur[q]
  BY DEF ToDriver, TypeOK, MemoryOK
<1>4. "driver" \in Positions \ (Unopened \cup ModelOpen \cup ToolOpen)
  BY DEF Positions, Unopened, ModelOpen, ToolOpen
<1>5. CASE UNCHANGED opVars
  BY <1>1, <1>2, <1>3, <1>4, <1>5, KernelAssumption, OperationLeft DEF OperationRow, opVars
<1>6. CASE CreateOperation(r, kind, status)
  BY <1>1, <1>2, <1>3, <1>4, <1>5, <1>6, KernelAssumption, CreateOperationRows, OperationLeft
  DEF OperationRow
<1>7. QED BY <1>5, <1>6

\* The thread closes its open operation, or a fault leaves it open; it lets go of it.
LEMMA OperationClosed ==
  ASSUME TypeOK, TypeOK', ThreadInv, OperationInv, NEW r \in Runs, pc[r] \in ModelOpen \cup ToolOpen,
         NEW status \in {"completed", "failed", "cancelled"},
         \/ opStatus' = [opStatus EXCEPT ![cur[r]] = status]
         \/ UNCHANGED opStatus /\ r \in faulted',
         NEW p \in Positions \ (Unopened \cup ModelOpen \cup ToolOpen),
         Goto(r, p), cur'[r] \in {cur[r], NoOp}, \A q \in Runs \ {r} : cur'[q] = cur[q],
         proc \in Up, UNCHANGED <<proc, runStatus, opRun, opKind>>, faulted \subseteq faulted'
  PROVE  OperationInv'
<1>1. PICK c \in Ops : c = cur[r] /\ opRun[c] = r
  BY DEF OperationInv, OperationThread, TypeOK, MemoryOK
<1>2. OperationRow(c)
  BY DEF OperationInv
<1>3. \A o \in Ops \ {c} : opStatus'[o] = opStatus[o]
  BY <1>1 DEF TypeOK, TablesOK
<1>4. opStatus'[c] # "absent" /\ (opStatus'[c] = "running" => r \in faulted')
  BY <1>1, <1>2, KernelAssumption DEF OperationRow, TypeOK, TablesOK
<1>5. opKind[c] # "none" /\ opRun[c] # NoRun /\ runStatus[r] # "absent"
  BY <1>1, <1>2, KernelAssumption DEF OperationRow
<1>6. QED BY <1>1, <1>3, <1>4, <1>5, OperationLeft

\* A thread that returns to its driver works on no operation.
LEMMA ToDriverLetsGo ==
  ASSUME TypeOK, NEW r \in Runs, ToDriver(r)
  PROVE  /\ cur'[r] = NoOp /\ \A q \in Runs \ {r} : cur'[q] = cur[q]
         /\ Goto(r, "driver") /\ UNCHANGED proc
BY DEF ToDriver, TypeOK, MemoryOK

\* An operation that exists has a run.
LEMMA OpenHasRun ==
  ASSUME NEW o \in Ops, OperationRow(o), opStatus[o] = "running"
  PROVE  opRun[o] # NoRun
BY DEF OperationRow

\* A running operation is the one that the thread of its run has open, and no
\* two threads share one, crashes and storage faults apart.
THEOREM OperationsAndThreads == Spec => []OperationInv
<1>1. Init => OperationInv
  BY KernelAssumption
  DEF Init, OperationInv, OperationRow, OperationThread, Unopened, ModelOpen, ToolOpen
<1>2. TypeOK /\ TypeOK' /\ RunMirrorsOperation /\ ThreadInv /\ OperationInv /\ [Next]_vars
      => OperationInv'
  <2> SUFFICES ASSUME TypeOK, TypeOK', RunMirrorsOperation, ThreadInv, OperationInv, [Next]_vars
               PROVE  OperationInv'
    OBVIOUS
  <2> USE DEF Await, ToDriver, Fault, durable, Positions, Unopened, ModelOpen, ToolOpen, history, opVars
  <2>0. ASSUME NEW r \in Runs, pc[r] # "none" PROVE proc \in Up
    BY <2>0 DEF ThreadInv
  <2>1. ASSUME NEW r \in Runs, StartRun(r) \/ CreateRun(r) \/ CreateRunFails(r) \/ AdmitRun(r)
        PROVE  OperationInv'
    <3>1. proc \in Up
      BY <2>0, <2>1 DEF StartRun, CreateRun, CreateRunFails, AdmitRun, Up
    <3>2. \A q \in Runs : runStatus[q] # "absent" => runStatus'[q] # "absent"
      BY <2>1 DEF StartRun, CreateRun, CreateRunFails, AdmitRun, TypeOK, TablesOK
    <3>3. QED BY <2>1, <3>1, <3>2, OperationKept DEF StartRun, CreateRun, CreateRunFails, AdmitRun
  <2>2. ASSUME NEW r \in Runs, CancelRun(r) PROVE OperationInv'
    BY <2>2 DEF CancelRun, OperationInv, OperationRow, OperationThread
  <2>3. ASSUME NEW r \in Runs, NEW o \in Ops, CallModel(r, o) \/ CallTool(r, o)
        PROVE  OperationInv'
    <3>1. PICK c : c = cur[r]
      OBVIOUS
    <3>2. ASSUME c \in Ops PROVE OperationRow(c)'
      <4>1. OperationRow(c) /\ opRun[c] \in Runs \cup {NoRun}
        BY <3>2 DEF OperationInv, TypeOK, TablesOK
      <4>2. UNCHANGED <<runStatus, opRun, opKind, opStatus, faulted, proc>> /\ pc[r] = "driver"
        BY <2>3 DEF CallModel, CallTool
      <4>3. \A q \in Runs \ {r} : pc'[q] = pc[q] /\ cur'[q] = cur[q]
        BY <2>3 DEF CallModel, CallTool, Goto, TypeOK, MemoryOK
      <4>4. QED BY <4>1, <4>2, <4>3, KernelAssumption, OpenHasRun DEF OperationRow
    <3>3. OperationThread(r)'
      BY <2>3, KernelAssumption DEF CallModel, CallTool, OperationThread, Fresh, Goto, TypeOK, MemoryOK
    <3>4. cur'[r] = o /\ Fresh(o) /\ \A q \in Runs \ {r} : pc'[q] = pc[q] /\ cur'[q] = cur[q]
      BY <2>3 DEF CallModel, CallTool, Goto, TypeOK, MemoryOK
    <3>5. proc \in Up
      BY <2>0, <2>3 DEF CallModel, CallTool
    <3>6. QED BY <2>3, <3>1, <3>2, <3>3, <3>4, <3>5, OperationStep DEF CallModel, CallTool
  <2>4. ASSUME NEW r \in Runs, CallAppend(r) \/ DriverReturns(r) \/ DriverThrows(r)
        PROVE  OperationInv'
    BY <2>0, <2>4, OperationKept DEF CallAppend, DriverReturns, DriverThrows, CaughtAt
  <2>5. ASSUME NEW r \in Runs, AppendContent(r) \/ AppendContentFails(r) PROVE OperationInv'
    <3>1. cur'[r] = NoOp /\ \A q \in Runs \ {r} : cur'[q] = cur[q]
      BY <2>5 DEF AppendContent, AppendContentFails, TypeOK, MemoryOK
    <3>2. QED BY <2>0, <2>5, <3>1, OperationDropped DEF AppendContent, AppendContentFails
  <2>6. ASSUME NEW r \in Runs, pc[r] \in Unopened
        PROVE  proc \in Up /\ runStatus[r] = "running"
    BY <2>0, <2>6 DEF ThreadInv, Busy
  <2>7. ASSUME NEW r \in Runs, OpenAttempt(r) PROVE OperationInv'
    BY <2>6, <2>7, OperationOpened DEF OpenAttempt, OpenAttemptUpTo
  <2>8. ASSUME NEW r \in Runs, OpenAttemptFails(r) PROVE OperationInv'
    <3>1. PICK k \in 0 .. 3 : OpenAttemptUpTo(r, k)
      BY <2>8 DEF OpenAttemptFails
    <3>2. CreateOperation(r, "model", "running") \/ UNCHANGED opVars
      BY <3>1 DEF OpenAttemptUpTo
    <3>3. r \in faulted' /\ UNCHANGED runStatus
      BY <2>8, <3>1 DEF OpenAttemptFails, OpenAttemptUpTo
    <3>4. QED BY <2>6, <2>8, <3>2, <3>3, OperationOpenedAndLeft DEF OpenAttemptFails
  <2>9. ASSUME NEW r \in Runs, RecordTransformFailure(r) PROVE OperationInv'
    <3>1. CreateOperation(r, "model", "failed") /\ UNCHANGED runStatus
      BY <2>9 DEF RecordTransformFailure, RecordTransformFailureUpTo
    <3>2. QED BY <2>6, <2>9, <3>1, OperationOpenedAndLeft DEF RecordTransformFailure
  <2>10. ASSUME NEW r \in Runs, RecordTransformFailureFails(r) PROVE OperationInv'
    <3>1. PICK k \in 0 .. 4 : RecordTransformFailureUpTo(r, k)
      BY <2>10 DEF RecordTransformFailureFails
    <3>2. PICK s \in {"running", "failed"} : CreateOperation(r, "model", s) \/ UNCHANGED opVars
      BY <3>1 DEF RecordTransformFailureUpTo
    <3>3. r \in faulted' /\ UNCHANGED runStatus
      BY <2>10, <3>1 DEF RecordTransformFailureFails, RecordTransformFailureUpTo
    <3>4. QED BY <2>6, <2>10, <3>2, <3>3, OperationOpenedAndLeft DEF RecordTransformFailureFails
  <2>11. ASSUME NEW r \in Runs, OpenTool(r) PROVE OperationInv'
    <3>1. CASE Aborted(r)
      BY <2>6, <2>11, <3>1, OperationOpenedAndLeft DEF OpenTool
    <3>2. CASE ~Aborted(r)
      BY <2>6, <2>11, <3>2, OperationOpened DEF OpenTool
    <3>3. QED BY <3>1, <3>2
  <2>12. ASSUME NEW r \in Runs, OpenToolFails(r) PROVE OperationInv'
    BY <2>6, <2>12, OperationOpenedAndLeft DEF OpenToolFails
  <2>13. ASSUME NEW r \in Runs, InvokeProvider(r) \/ ProviderSettles(r) PROVE OperationInv'
    BY <2>0, <2>13, OperationKept DEF InvokeProvider, ProviderSettles
  <2>14. ASSUME NEW r \in Runs, FinalizeFails(r) PROVE OperationInv'
    <3>1. cur'[r] = NoOp /\ \A q \in Runs \ {r} : cur'[q] = cur[q]
      BY <2>14 DEF FinalizeFails, TypeOK, MemoryOK
    <3>2. QED BY <2>0, <2>14, <3>1, OperationDropped DEF FinalizeFails
  <2>15. ASSUME NEW r \in Runs, DispatchTool(r) \/ ToolSettles(r) PROVE OperationInv'
    BY <2>0, <2>15, OperationKept DEF DispatchTool, ToolSettles, ToolOutcomes
  <2>16. ASSUME NEW r \in Runs, CloseAttempt(r) PROVE OperationInv'
    <3>1. CloseAttemptUpTo(r, Outcome(pc[r]), 3) /\ ToDriver(r) /\ pc[r] \in ModelOpen
      BY <2>16 DEF CloseAttempt
    <3>2. UNCHANGED <<runStatus, opRun, opKind>>
          /\ opStatus' = [opStatus EXCEPT ![cur[r]] = Outcome(pc[r])]
      BY <3>1 DEF CloseAttemptUpTo, CloseOrder
    <3>3. UNCHANGED faulted
      BY <2>16 DEF CloseAttempt
    <3>4. QED BY <2>0, <3>1, <3>2, <3>3, ToDriverLetsGo, OutcomeType, OperationClosed
  <2>17. ASSUME NEW r \in Runs, CloseAttemptFails(r) PROVE OperationInv'
    <3>1. PICK k \in 0 .. 3 : CloseAttemptUpTo(r, Outcome(pc[r]), k)
      BY <2>17 DEF CloseAttemptFails
    <3>2. UNCHANGED <<runStatus, opRun, opKind>>
          /\ \/ opStatus' = [opStatus EXCEPT ![cur[r]] = Outcome(pc[r])]
             \/ UNCHANGED opStatus
      BY <3>1 DEF CloseAttemptUpTo, CloseOrder
    <3>3. ToDriver(r) /\ pc[r] \in ModelOpen /\ r \in faulted' /\ faulted \subseteq faulted'
      BY <2>17 DEF CloseAttemptFails
    <3>4. QED BY <2>0, <3>2, <3>3, OutcomeType, OperationClosed
  <2>18. ASSUME NEW r \in Runs, FinishTool(r) PROVE OperationInv'
    <3>1. pc[r] \in ToolOpen /\ FinishToolTo(r, Outcome(pc[r])) /\ UNCHANGED <<proc, faulted>>
      BY <2>18 DEF FinishTool
    <3>2. PICK p \in {"driver", "result", "errorResult"} : Goto(r, p) /\ cur'[r] \in {cur[r], NoOp}
      BY <2>18, ToDriverLetsGo DEF FinishTool
    <3>3. \A q \in Runs \ {r} : cur'[q] = cur[q]
      BY <2>18, ToDriverLetsGo DEF FinishTool
    <3>4. QED BY <2>0, <3>1, <3>2, <3>3, OutcomeType, OperationClosed DEF FinishToolTo
  <2>19. ASSUME NEW r \in Runs, FinishToolRefused(r) PROVE OperationInv'
    <3>1. cur'[r] = NoOp /\ \A q \in Runs \ {r} : cur'[q] = cur[q]
      BY <2>19 DEF FinishToolRefused, TypeOK, MemoryOK
    <3>2. QED BY <2>0, <2>19, <3>1, OperationDropped DEF FinishToolRefused, CanEnd
  <2>20. ASSUME NEW r \in Runs, FinishToolFails(r) PROVE OperationInv'
    <3>0. pc[r] \in ToolOpen /\ r \in faulted' /\ faulted \subseteq faulted'
      BY <2>20 DEF FinishToolFails
    <3>1. /\ UNCHANGED <<runStatus, opRun, opKind>>
          /\ \/ opStatus' = [opStatus EXCEPT ![cur[r]] = Outcome(pc[r])]
             \/ UNCHANGED opStatus
      BY <2>20 DEF FinishToolFails, FinishToolTo
    <3>2. CASE pc[r] # "toolDone"
      <4>1. ToDriver(r)
        BY <2>20, <3>2 DEF FinishToolFails
      <4>2. QED BY <2>0, <3>0, <3>1, <4>1, OutcomeType, ToDriverLetsGo, OperationClosed
    <3>3. CASE pc[r] = "toolDone"
      <4>1. PICK p \in ToolOpen : Await(r, p)
        BY <2>20, <3>3 DEF FinishToolFails
      <4>2. PICK c \in Ops : c = cur[r] /\ opRun[c] = r /\ opKind[c] = "tool"
        BY <3>0 DEF OperationInv, OperationThread, TypeOK, MemoryOK
      <4>3. /\ \A o \in Ops \ {c} : opStatus'[o] = opStatus[o]
            /\ opStatus'[c] # "absent"
        <5>1. opStatus[c] # "absent"
          BY <4>2, KernelAssumption DEF OperationInv, OperationRow
        <5>2. opStatus \in [Ops -> OpStatuses] /\ Outcome(pc[r]) # "absent"
          BY OutcomeType DEF TypeOK, TablesOK
        <5>3. CASE UNCHANGED opStatus
          BY <5>1, <5>3
        <5>4. CASE opStatus' = [opStatus EXCEPT ![c] = Outcome(pc[r])]
          BY <5>2, <5>4
        <5>5. QED BY <3>1, <4>2, <5>3, <5>4
      <4>4. /\ pc'[r] = p /\ cur' = cur /\ proc' = proc
            /\ \A q \in Runs \ {r} : pc'[q] = pc[q]
        BY <4>1 DEF Goto, TypeOK, MemoryOK
      <4>5. OperationThread(r)'
        BY <3>0, <3>1, <4>2, <4>3, <4>4, KernelAssumption DEF OperationThread
      <4>6. OperationRow(c)'
        BY <3>0, <3>1, <4>2, <4>3, KernelAssumption DEF OperationInv, OperationRow
      <4>7. QED BY <2>0, <3>0, <3>1, <4>2, <4>3, <4>4, <4>5, <4>6, OperationStep
    <3>4. QED BY <3>2, <3>3
  <2>21. ASSUME NEW r \in Runs, AppendResult(r) \/ AppendResultFails(r) PROVE OperationInv'
    <3>1. PICK p \in {"driver", "errorResult"} :
            Goto(r, p) /\ cur'[r] \in {cur[r], NoOp} /\ UNCHANGED proc
      BY <2>21, ToDriverLetsGo DEF AppendResult, AppendResultFails
    <3>2. \A q \in Runs \ {r} : cur'[q] = cur[q]
      BY <2>21, ToDriverLetsGo DEF AppendResult, AppendResultFails
    <3>3. QED BY <2>0, <2>21, <3>1, <3>2, OperationDropped DEF AppendResult, AppendResultFails
  <2>22. ASSUME NEW r \in Runs, AppendError(r) \/ AppendErrorFails(r) \/ FinishRunRefused(r)
         PROVE  OperationInv'
    BY <2>0, <2>22, OperationKept DEF AppendError, AppendErrorFails, FinishRunRefused
  <2>23. ASSUME NEW r \in Runs, FinishRun(r) \/ FinishRunFails(r) PROVE OperationInv'
    <3>1. \A q \in Runs : runStatus[q] # "absent" => runStatus'[q] # "absent"
      <4>1. FinishRunTo(r, Outcome(pc[r])) \/ UNCHANGED runStatus
        BY <2>23 DEF FinishRun, FinishRunFails
      <4>2. QED BY <4>1, OutcomeType DEF FinishRunTo, TypeOK, TablesOK
    <3>2. PICK p \in {"settled", "finishCancelled", "error"} : Await(r, p)
      BY <2>23 DEF FinishRun, FinishRunFails, CaughtAt
    <3>3. UNCHANGED opVars /\ faulted \subseteq faulted'
          /\ pc[r] \in {"finish", "finishFailed", "finishCancelled"}
      BY <2>23 DEF FinishRun, FinishRunFails, FinishRunTo
    <3>4. QED BY <2>0, <3>1, <3>2, <3>3, OperationKept
  <2>24. ASSUME NEW r \in Runs, Settle(r) PROVE OperationInv'
    BY <2>0, <2>24, OperationKept DEF Settle
  <2>25. CASE Close \/ AbortAll \/ CloseDatabase
    BY <2>25 DEF Close, AbortAll, CloseDatabase, OperationInv, OperationRow, OperationThread
  <2>26. CASE Crash
    <3>1. /\ UNCHANGED <<runStatus, faulted>> /\ proc' = "crashed"
          /\ \A r \in Runs : pc'[r] = "none" /\ cur'[r] = NoOp
      BY <2>26 DEF Crash, OpenAttemptUpTo, RecordTransformFailureUpTo, CloseAttemptUpTo
    <3>2. ASSUME NEW o \in Ops, opStatus[o] = "running"
          PROVE  opRun[o] \in faulted \/ runStatus[opRun[o]] = "running"
      <4>1. OperationRow(o) /\ opRun[o] \in Runs
        BY <3>2 DEF OperationInv, OperationRow, TypeOK, TablesOK
      <4>2. QED BY <2>26, <3>2, <4>1 DEF Crash, OperationRow, ThreadInv, Busy, Up
    <3>3. \/ UNCHANGED opVars
          \/ \E r \in Runs, s \in {"running", "failed"} :
               pc[r] \in {"model", "transform"} /\ CreateOperation(r, "model", s)
      <4>1. CASE UNCHANGED durable
        BY <4>1
      <4>2. ASSUME NEW r \in Runs, NEW k \in 1 .. 2, pc[r] = "model", OpenAttemptUpTo(r, k)
            PROVE  \/ UNCHANGED opVars
                   \/ CreateOperation(r, "model", "running")
        BY <4>2 DEF OpenAttemptUpTo
      <4>3. ASSUME NEW r \in Runs, NEW k \in 1 .. 3, pc[r] = "transform",
                   RecordTransformFailureUpTo(r, k)
            PROVE  CreateOperation(r, "model", "running")
        BY <4>3 DEF RecordTransformFailureUpTo
      <4>4. ASSUME NEW r \in Runs, NEW k \in 1 .. 2, CloseAttemptUpTo(r, Outcome(pc[r]), k)
            PROVE  UNCHANGED opVars
        BY <4>4 DEF CloseAttemptUpTo, CloseOrder
      <4>5. QED BY <2>26, <4>1, <4>2, <4>3, <4>4 DEF Crash
    <3>4. ASSUME NEW o \in Ops PROVE OperationRow(o)'
      <4>1. OperationRow(o)
        BY DEF OperationInv
      <4>2. CASE UNCHANGED opVars
        BY <3>1, <3>2, <4>1, <4>2 DEF OperationRow
      <4>3. ASSUME NEW r \in Runs, NEW s \in {"running", "failed"}, pc[r] \in {"model", "transform"},
                   CreateOperation(r, "model", s)
            PROVE  OperationRow(o)'
        <5>1. runStatus[r] = "running"
          BY <2>6, <4>3
        <5>2. PICK c \in Ops : c = cur[r]
          BY <4>3 DEF OperationInv, OperationThread, TypeOK, MemoryOK
        <5>3. CASE o = c
          BY <3>1, <4>3, <5>1, <5>2, <5>3, CreateOperationRows, KernelAssumption DEF OperationRow
        <5>4. CASE o # c
          <6>1. opRun'[o] = opRun[o] /\ opKind'[o] = opKind[o] /\ opStatus'[o] = opStatus[o]
            BY <4>3, <5>2, <5>4, CreateOperationRows
          <6>2. QED BY <3>1, <3>2, <4>1, <6>1 DEF OperationRow
        <5>5. QED BY <5>3, <5>4
      <4>4. QED BY <3>3, <4>2, <4>3
    <3>5. QED BY <3>1, <3>4 DEF OperationInv, OperationThread
  <2>27. CASE Restart
    BY <2>27 DEF Restart, Live, OperationInv, OperationRow, OperationThread, ThreadInv, RecoveredRun,
                TypeOK, TablesOK, Up
  <2>28. CASE UNCHANGED vars
    BY <2>28 DEF vars, memory, OperationInv, OperationRow, OperationThread
  <2>29. QED
    BY <2>1, <2>2, <2>3, <2>4, <2>5, <2>7, <2>8, <2>9, <2>10, <2>11, <2>12, <2>13, <2>14, <2>15,
       <2>16, <2>17, <2>18, <2>19, <2>20, <2>21, <2>22, <2>23, <2>24, <2>25, <2>26, <2>27, <2>28
    DEF Next, RunNext, Driver, Thread, Outside, Failure, ProcessNext
<1>3. QED BY <1>1, <1>2, TypeCorrect, RunMirrors, ThreadsAndRuns, PTL DEF Spec

-----------------------------------------------------------------------------
\* What the invariant says of the tables.

\* An operation marked running belongs to a run marked running, storage faults
\* in that run apart.
THEOREM NoOrphans == Spec => []NoOrphanOperation
<1>1. TypeOK /\ ThreadInv /\ OperationInv => NoOrphanOperation
  <2> SUFFICES ASSUME TypeOK, ThreadInv, OperationInv, NEW o \in Ops,
                      opStatus[o] = "running", opRun[o] \notin faulted
               PROVE  runStatus[opRun[o]] = "running"
    BY DEF NoOrphanOperation
  <2>1. OperationRow(o) /\ opRun[o] \in Runs
    BY DEF OperationInv, OperationRow, TypeOK, TablesOK
  <2>2. QED
    BY <2>1 DEF OperationRow, ThreadInv, Busy, Positions, ModelOpen, ToolOpen
<1>2. QED BY <1>1, TypeCorrect, ThreadsAndRuns, OperationsAndThreads, PTL

\* close() ends every run before it closes the database, storage faults apart.
THEOREM Drains == Spec => []CloseDrains
<1>1. ThreadInv => CloseDrains
  BY DEF ThreadInv, CloseDrains, Busy, Up
<1>2. QED BY <1>1, ThreadsAndRuns, PTL

-----------------------------------------------------------------------------
\* A cancelled outcome is decided only after a request.

Decided == {"modelCancelled", "toolCancelled", "finishCancelled"}

\* Nobody's controller changes, and a cancelled outcome is decided only with an
\* aborted signal.
LEMMA AskedKept ==
  ASSUME AskedInv, UNCHANGED ctl, asked \subseteq asked',
         \A q \in Runs : pc'[q] \in Decided => pc[q] \in Decided \/ Aborted(q)
  PROVE  AskedInv'
BY DEF AskedInv, Aborted, Decided

\* The thread of one run moves.
LEMMA AskedMove ==
  ASSUME TypeOK, AskedInv, NEW r \in Runs, NEW p, Goto(r, p), UNCHANGED ctl, asked \subseteq asked',
         p \in Decided => pc[r] \in Decided \/ Aborted(r)
  PROVE  AskedInv'
<1>1. pc'[r] = p /\ \A q \in Runs \ {r} : pc'[q] = pc[q]
  BY DEF Goto, TypeOK, MemoryOK
<1>2. QED BY <1>1, AskedKept

\* Whoever is aborted was asked for, and so was whoever is about to be recorded
\* as cancelled (cancelRun, #close, and the checks of the signal).
THEOREM DecidedIsAsked == Spec => []AskedInv
<1>1. Init => AskedInv
  BY DEF Init, AskedInv, Aborted
<1>2. TypeOK /\ AskedInv /\ [Next]_vars => AskedInv'
  <2> SUFFICES ASSUME TypeOK, AskedInv, [Next]_vars PROVE AskedInv'
    OBVIOUS
  <2> USE DEF Await, ToDriver, Fault, history, Decided
  <2>1. ASSUME NEW r \in Runs, StartRun(r) \/ CreateRun(r) \/ CreateRunFails(r) PROVE AskedInv'
    BY <2>1, AskedMove DEF StartRun, CreateRun, CreateRunFails
  <2>2. ASSUME NEW r \in Runs, AdmitRun(r) \/ Settle(r) PROVE AskedInv'
    BY <2>2 DEF AdmitRun, Settle, AskedInv, Aborted, Goto, TypeOK, MemoryOK
  <2>3. ASSUME NEW r \in Runs, CancelRun(r) PROVE AskedInv'
    BY <2>3 DEF CancelRun, AskedInv, Aborted, TypeOK, MemoryOK
  <2>4. ASSUME NEW r \in Runs, Driver(r) PROVE AskedInv'
    BY <2>4, AskedMove
    DEF Driver, CallModel, CallTool, CallAppend, DriverReturns, DriverThrows, CaughtAt
  <2>5. ASSUME NEW r \in Runs, AppendContent(r) \/ AppendContentFails(r) PROVE AskedInv'
    BY <2>5, AskedMove DEF AppendContent, AppendContentFails
  <2>6. ASSUME NEW r \in Runs,
               \/ OpenAttempt(r) \/ OpenAttemptFails(r)
               \/ RecordTransformFailure(r) \/ RecordTransformFailureFails(r)
        PROVE  AskedInv'
    BY <2>6, AskedMove
    DEF OpenAttempt, OpenAttemptFails, RecordTransformFailure, RecordTransformFailureFails
  <2>7. ASSUME NEW r \in Runs, InvokeProvider(r) \/ ProviderSettles(r) \/ FinalizeFails(r)
        PROVE  AskedInv'
    BY <2>7, AskedMove DEF InvokeProvider, ProviderSettles, FinalizeFails
  <2>8. ASSUME NEW r \in Runs, CloseAttempt(r) \/ CloseAttemptFails(r) PROVE AskedInv'
    BY <2>8, AskedMove DEF CloseAttempt, CloseAttemptFails
  <2>9. ASSUME NEW r \in Runs, OpenTool(r) \/ OpenToolFails(r) \/ DispatchTool(r) \/ ToolSettles(r)
        PROVE  AskedInv'
    BY <2>9, AskedMove DEF OpenTool, OpenToolFails, DispatchTool, ToolSettles, ToolOutcomes
  <2>10. ASSUME NEW r \in Runs, FinishTool(r) \/ FinishToolRefused(r) \/ FinishToolFails(r)
         PROVE  AskedInv'
    BY <2>10, AskedMove DEF FinishTool, FinishToolRefused, FinishToolFails
  <2>11. ASSUME NEW r \in Runs,
                AppendResult(r) \/ AppendResultFails(r) \/ AppendError(r) \/ AppendErrorFails(r)
         PROVE  AskedInv'
    BY <2>11, AskedMove DEF AppendResult, AppendResultFails, AppendError, AppendErrorFails
  <2>12. ASSUME NEW r \in Runs, FinishRun(r) \/ FinishRunRefused(r) \/ FinishRunFails(r)
         PROVE  AskedInv'
    BY <2>12, AskedMove DEF FinishRun, FinishRunRefused, FinishRunFails, CaughtAt
  <2>13. CASE Close \/ CloseDatabase \/ Restart \/ UNCHANGED vars
    BY <2>13, AskedKept DEF Close, CloseDatabase, Restart, vars, memory
  <2>14. CASE AbortAll
    BY <2>14 DEF AbortAll, AskedInv, Aborted
  <2>15. CASE Crash
    BY <2>15 DEF Crash, AskedInv, Aborted
  <2>16. QED
    BY <2>1, <2>2, <2>3, <2>4, <2>5, <2>6, <2>7, <2>8, <2>9, <2>10, <2>11, <2>12, <2>13, <2>14, <2>15
    DEF Next, RunNext, Thread, Outside, Failure, ProcessNext
<1>3. QED BY <1>1, <1>2, TypeCorrect, PTL DEF Spec

-----------------------------------------------------------------------------
\* An attempt, its traces and its operation.

\* What the rows of one operation say of each other: AttemptFollowsOperation,
\* OutcomeHasTrace and the part of CancelledOnlyIfAsked about operations.
AttemptRow(o) ==
  /\ opStatus[o] = "absent" => attempt[o] = "absent"
  /\ attempt[o] = "running" => opStatus[o] = "running"
  /\ attempt[o] # "absent" => opKind[o] = "model"
  /\ opKind[o] = "model" /\ opStatus[o] \in {"completed", "failed", "cancelled"}
       => attempt[o] = opStatus[o]
  /\ attempt[o] = "completed" => art[o] = "completed"
  /\ attempt[o] \in {"failed", "cancelled"} => art[o] \in {"failed", "absent"}
  /\ "cancelled" \in {opStatus[o], attempt[o]} => opRun[o] \in asked

\* What the position of a thread says of the rows of its operation.
AttemptThread(r) ==
  /\ pc[r] \in Unopened => art[cur[r]] = "absent"
  /\ pc[r] \in ModelOpen => attempt[cur[r]] = "running" /\ art[cur[r]] = "partial"

AttemptRows == \A o \in Ops : AttemptRow(o)
OutcomeInv == AttemptRows /\ \A r \in Runs : AttemptThread(r)

\* Between two commits of r's thread only the rows of its operation c change.
OnlyRow(c) ==
  \A o \in Ops \ {c} :
    /\ opRun'[o] = opRun[o] /\ opKind'[o] = opKind[o] /\ opStatus'[o] = opStatus[o]
    /\ attempt'[o] = attempt[o] /\ art'[o] = art[o]

RowsKept == UNCHANGED <<opVars, attempt, art>>

\* Rows that stay go on fitting each other.
LEMMA AttemptRowsKept ==
  ASSUME AttemptRows, RowsKept, asked \subseteq asked'
  PROVE  AttemptRows'
BY DEF AttemptRows, AttemptRow, RowsKept, opVars

\* So do those beside the one that changes.
LEMMA AttemptRowsStep ==
  ASSUME AttemptRows, NEW c, OnlyRow(c), asked \subseteq asked', c \in Ops => AttemptRow(c)'
  PROVE  AttemptRows'
<1>1. ASSUME NEW o \in Ops \ {c} PROVE AttemptRow(o)'
  BY <1>1 DEF AttemptRows, AttemptRow, OnlyRow
<1>2. QED BY <1>1 DEF AttemptRows

\* A thread at work on an operation is the only one.
LEMMA OtherThreads ==
  ASSUME TypeOK, OperationInv, OutcomeInv, NEW r \in Runs, NEW c, c = cur[r],
         OnlyRow(c), \A q \in Runs \ {r} : pc'[q] = pc[q] /\ cur'[q] = cur[q]
  PROVE  \A q \in Runs \ {r} : AttemptThread(q)'
<1> SUFFICES ASSUME NEW q \in Runs \ {r}, pc[q] \in Unopened \cup ModelOpen
             PROVE  AttemptThread(q)'
  BY DEF AttemptThread
<1>1. cur[q] \in Ops
  BY DEF OperationInv, OperationThread, TypeOK, MemoryOK
<1>2. cur[q] # c
  BY <1>1, KernelAssumption DEF OperationInv
<1>3. QED BY <1>1, <1>2 DEF OutcomeInv, AttemptThread, OnlyRow

\* A thread moves and no row of an operation changes.
LEMMA OutcomeKept ==
  ASSUME TypeOK, OperationInv, OutcomeInv, NEW r \in Runs, NEW p,
         Goto(r, p), RowsKept, asked \subseteq asked',
         \A q \in Runs \ {r} : cur'[q] = cur[q],
         p \notin Unopened \cup ModelOpen \/ (pc[r] \in ModelOpen /\ p \in ModelOpen /\ cur'[r] = cur[r])
  PROVE  OutcomeInv'
<1>1. pc'[r] = p /\ \A q \in Runs \ {r} : pc'[q] = pc[q]
  BY DEF Goto, TypeOK, MemoryOK
<1>2. PICK c : c = cur[r]
  OBVIOUS
<1>3. OnlyRow(c)
  BY DEF OnlyRow, RowsKept, opVars
<1>4. \A q \in Runs \ {r} : AttemptThread(q)'
  BY <1>1, <1>2, <1>3, OtherThreads
<1>5. AttemptThread(r)'
  BY <1>1 DEF AttemptThread, OutcomeInv, RowsKept, Unopened, ModelOpen
<1>6. QED BY <1>4, <1>5, AttemptRowsKept DEF OutcomeInv

\* A thread commits rows of its operation and leaves it, or goes on with it.
LEMMA OutcomeStep ==
  ASSUME TypeOK, OperationInv, OutcomeInv, AttemptRows', NEW r \in Runs, NEW p, Goto(r, p),
         OnlyRow(cur[r]), \A q \in Runs \ {r} : cur'[q] = cur[q],
         p \notin Unopened \cup ModelOpen \/ AttemptThread(r)'
  PROVE  OutcomeInv'
<1>1. pc'[r] = p /\ \A q \in Runs \ {r} : pc'[q] = pc[q]
  BY DEF Goto, TypeOK, MemoryOK
<1>2. PICK c : c = cur[r]
  OBVIOUS
<1>3. \A q \in Runs \ {r} : AttemptThread(q)'
  BY <1>1, <1>2, OtherThreads
<1>4. AttemptThread(r)'
  BY <1>1 DEF AttemptThread
<1>5. QED BY <1>3, <1>4 DEF OutcomeInv

-----------------------------------------------------------------------------
\* Every prefix of the commits of a command leaves rows that fit each other.

\* The commits that open an attempt.
LEMMA OpenAttemptRows ==
  ASSUME TypeOK, OperationInv, OutcomeInv, NEW r \in Runs, pc[r] = "model",
         NEW k \in 0 .. 3, OpenAttemptUpTo(r, k), asked \subseteq asked'
  PROVE  OnlyRow(cur[r]) /\ AttemptRows'
<1>1. PICK c \in Ops : c = cur[r] /\ opStatus[c] = "absent" /\ art[c] = "absent"
  BY DEF OperationInv, OperationThread, OutcomeInv, AttemptThread, Unopened, TypeOK, MemoryOK
<1>2. attempt[c] = "absent" /\ opKind[c] = "none"
  BY <1>1 DEF OutcomeInv, AttemptRows, AttemptRow, OperationInv, OperationRow
<1>3. /\ OnlyRow(c)
      /\ art'[c] \in {"absent", "partial"}
      /\ \/ opStatus'[c] = "absent" /\ opKind'[c] = "none" /\ attempt'[c] = "absent"
         \/ opStatus'[c] = "running" /\ opKind'[c] = "model" /\ attempt'[c] \in {"absent", "running"}
  BY <1>1, <1>2 DEF OpenAttemptUpTo, CreateOperation, OnlyRow, opVars, TypeOK, TablesOK
<1>4. AttemptRow(c)'
  BY <1>3 DEF AttemptRow
<1>5. QED BY <1>1, <1>3, <1>4, AttemptRowsStep DEF OutcomeInv

\* Those that record a failed transform.
LEMMA RecordTransformFailureRows ==
  ASSUME TypeOK, OperationInv, OutcomeInv, NEW r \in Runs, pc[r] = "transform",
         NEW k \in 0 .. 4, RecordTransformFailureUpTo(r, k), asked \subseteq asked'
  PROVE  OnlyRow(cur[r]) /\ AttemptRows'
<1>1. PICK c \in Ops : c = cur[r] /\ opStatus[c] = "absent" /\ art[c] = "absent"
  BY DEF OperationInv, OperationThread, OutcomeInv, AttemptThread, Unopened, TypeOK, MemoryOK
<1>2. attempt[c] = "absent" /\ opKind[c] = "none"
  BY <1>1 DEF OutcomeInv, AttemptRows, AttemptRow, OperationInv, OperationRow
<1>3. /\ OnlyRow(c)
      /\ art'[c] = "absent"
      /\ \/ opStatus'[c] = "absent" /\ opKind'[c] = "none" /\ attempt'[c] = "absent"
         \/ /\ opStatus'[c] = "running" /\ opKind'[c] = "model"
            /\ attempt'[c] \in {"absent", "running", "failed"}
         \/ opStatus'[c] = "failed" /\ opKind'[c] = "model" /\ attempt'[c] = "failed"
  BY <1>1, <1>2 DEF RecordTransformFailureUpTo, CreateOperation, OnlyRow, opVars, TypeOK, TablesOK
<1>4. AttemptRow(c)'
  BY <1>3 DEF AttemptRow
<1>5. QED BY <1>1, <1>3, <1>4, AttemptRowsStep DEF OutcomeInv

\* Those that close an attempt: the traces first, then the attempt, then the operation.
LEMMA CloseAttemptRows ==
  ASSUME TypeOK, OperationInv, OutcomeInv, AskedInv, NEW r \in Runs,
         pc[r] \in {"modelDone", "modelFailed", "modelCancelled"},
         NEW k \in 0 .. 3, CloseAttemptUpTo(r, Outcome(pc[r]), k), asked \subseteq asked'
  PROVE  OnlyRow(cur[r]) /\ AttemptRows'
<1>1. PICK c \in Ops : /\ c = cur[r] /\ opRun[c] = r /\ opKind[c] = "model"
                       /\ opStatus[c] = "running" /\ attempt[c] = "running" /\ art[c] = "partial"
  BY DEF OperationInv, OperationThread, OutcomeInv, AttemptThread, ModelOpen, ToolOpen, TypeOK, MemoryOK
<1>2. PICK status \in {"completed", "failed", "cancelled"} : status = Outcome(pc[r])
  BY OutcomeType
<1>3. status = "cancelled" => r \in asked
  BY <1>2 DEF Outcome, AskedInv
<1>4. /\ OnlyRow(c)
      /\ opRun'[c] = r /\ opKind'[c] = "model"
      /\ \/ attempt'[c] = "running" /\ opStatus'[c] = "running"
         \/ /\ attempt'[c] = status /\ opStatus'[c] \in {"running", status}
            /\ art'[c] = IF status = "completed" THEN "completed" ELSE "failed"
  BY <1>1, <1>2 DEF CloseAttemptUpTo, CloseOrder, OnlyRow, TypeOK, TablesOK
<1>5. AttemptRow(c)'
  BY <1>3, <1>4 DEF AttemptRow
<1>6. QED BY <1>1, <1>4, <1>5, AttemptRowsStep DEF OutcomeInv

\* The commit that opens the operation of a tool.
LEMMA OpenToolRows ==
  ASSUME TypeOK, OperationInv, OutcomeInv, NEW r \in Runs, pc[r] = "tool",
         CreateOperation(r, "tool", "running"), UNCHANGED <<attempt, art>>, asked \subseteq asked'
  PROVE  OnlyRow(cur[r]) /\ AttemptRows'
<1>1. PICK c \in Ops : c = cur[r] /\ opStatus[c] = "absent"
  BY DEF OperationInv, OperationThread, Unopened, TypeOK, MemoryOK
<1>2. attempt[c] = "absent"
  BY <1>1 DEF OutcomeInv, AttemptRows, AttemptRow
<1>3. OnlyRow(c) /\ opStatus'[c] = "running" /\ opKind'[c] = "tool" /\ attempt'[c] = "absent"
  BY <1>1, <1>2, CreateOperationRows DEF OnlyRow
<1>4. AttemptRow(c)'
  BY <1>3 DEF AttemptRow
<1>5. QED BY <1>1, <1>3, <1>4, AttemptRowsStep DEF OutcomeInv

\* The commit that closes it.
LEMMA FinishToolRows ==
  ASSUME TypeOK, OperationInv, OutcomeInv, AskedInv, NEW r \in Runs,
         pc[r] \in {"toolDone", "toolFailed", "toolCancelled"},
         FinishToolTo(r, Outcome(pc[r])), asked \subseteq asked'
  PROVE  OnlyRow(cur[r]) /\ AttemptRows'
<1>1. PICK c \in Ops : c = cur[r] /\ opRun[c] = r /\ opKind[c] = "tool" /\ opStatus[c] = "running"
  BY DEF OperationInv, OperationThread, ModelOpen, ToolOpen, FinishToolTo, CanEnd, TypeOK, MemoryOK
<1>2. attempt[c] = "absent"
  <2>1. attempt[c] # "absent" => opKind[c] = "model"
    BY DEF OutcomeInv, AttemptRows, AttemptRow
  <2>2. QED BY <1>1, <2>1
<1>3. PICK status \in {"completed", "failed", "cancelled"} : status = Outcome(pc[r])
  BY OutcomeType
<1>4. status = "cancelled" => r \in asked
  BY <1>3 DEF Outcome, AskedInv
<1>5. /\ OnlyRow(c) /\ opRun'[c] = r /\ opKind'[c] = "tool"
      /\ opStatus'[c] = status /\ attempt'[c] = "absent"
  BY <1>1, <1>2, <1>3 DEF FinishToolTo, OnlyRow, TypeOK, TablesOK
<1>6. AttemptRow(c)'
  BY <1>4, <1>5 DEF AttemptRow
<1>7. QED BY <1>1, <1>5, <1>6, AttemptRowsStep DEF OutcomeInv

\* An attempt, its traces and its operation agree at every instant a crash could
\* expose, and what is marked cancelled was asked for (#invokeModel,
\* #dispatchTool and recoverAbandoned, commit by commit).
THEOREM OutcomesAgree == Spec => []OutcomeInv
<1>1. Init => OutcomeInv
  BY DEF Init, OutcomeInv, AttemptRows, AttemptRow, AttemptThread, Unopened, ModelOpen
<1>2. TypeOK /\ ThreadInv /\ OperationInv /\ AskedInv /\ OutcomeInv /\ [Next]_vars => OutcomeInv'
  <2> SUFFICES ASSUME TypeOK, ThreadInv, OperationInv, AskedInv, OutcomeInv, [Next]_vars
               PROVE  OutcomeInv'
    OBVIOUS
  <2>1. ASSUME UNCHANGED <<pc, cur>>, RowsKept, asked \subseteq asked' PROVE OutcomeInv'
    BY <2>1, AttemptRowsKept DEF OutcomeInv, AttemptThread, RowsKept, opVars
  <2> USE DEF Await, Fault, durable, history, opVars, RowsKept
  <2>2. ASSUME NEW r \in Runs, StartRun(r) \/ CreateRun(r) \/ CreateRunFails(r) \/ AdmitRun(r) \/ Settle(r)
        PROVE  OutcomeInv'
    BY <2>2, OutcomeKept
    DEF StartRun, CreateRun, CreateRunFails, AdmitRun, Settle, Unopened, ModelOpen
  <2>3. ASSUME NEW r \in Runs, CancelRun(r) PROVE OutcomeInv'
    BY <2>1, <2>3 DEF CancelRun
  <2>4. ASSUME NEW r \in Runs, NEW o \in Ops, CallModel(r, o) \/ CallTool(r, o)
        PROVE  OutcomeInv'
    <3>1. PICK p \in Unopened : Goto(r, p)
      BY <2>4 DEF CallModel, CallTool, Unopened
    <3>2. /\ cur' = [cur EXCEPT ![r] = o] /\ Fresh(o)
          /\ UNCHANGED <<opRun, opKind, opStatus, attempt, art, asked>>
      BY <2>4 DEF CallModel, CallTool
    <3>3. /\ pc'[r] = p /\ cur'[r] = o
          /\ \A q \in Runs \ {r} : pc'[q] = pc[q] /\ cur'[q] = cur[q]
      BY <3>1, <3>2 DEF Goto, TypeOK, MemoryOK
    <3>4. AttemptThread(r)'
      BY <3>1, <3>2, <3>3 DEF AttemptThread, Fresh, Unopened, ModelOpen
    <3>5. \A q \in Runs \ {r} : AttemptThread(q)'
      BY <3>2, <3>3 DEF OutcomeInv, AttemptThread
    <3>6. AttemptRows'
      BY <3>2, AttemptRowsKept DEF OutcomeInv
    <3>7. QED BY <3>4, <3>5, <3>6 DEF OutcomeInv
  <2>5. ASSUME NEW r \in Runs, CallAppend(r) \/ DriverReturns(r) \/ DriverThrows(r)
        PROVE  OutcomeInv'
    BY <2>5, OutcomeKept DEF CallAppend, DriverReturns, DriverThrows, CaughtAt, Unopened, ModelOpen
  <2>6. ASSUME NEW r \in Runs,
               AppendContent(r) \/ AppendContentFails(r) \/ AppendResult(r) \/ AppendResultFails(r)
        PROVE  OutcomeInv'
    <3>1. PICK p \in {"driver", "errorResult"} : Goto(r, p)
      BY <2>6 DEF AppendContent, AppendContentFails, AppendResult, AppendResultFails, ToDriver
    <3>2. \A q \in Runs \ {r} : cur'[q] = cur[q]
      BY <2>6, ToDriverLetsGo
      DEF AppendContent, AppendContentFails, AppendResult, AppendResultFails
    <3>3. RowsKept /\ asked \subseteq asked'
      BY <2>6 DEF AppendContent, AppendContentFails, AppendResult, AppendResultFails
    <3>4. QED BY <3>1, <3>2, <3>3, OutcomeKept DEF Unopened, ModelOpen
  <2>7. ASSUME NEW r \in Runs, OpenAttempt(r) PROVE OutcomeInv'
    <3>1. OnlyRow(cur[r]) /\ AttemptRows'
      BY <2>7, OpenAttemptRows DEF OpenAttempt
    <3>2. cur[r] \in Ops
      BY <2>7 DEF OpenAttempt, OperationInv, OperationThread, Unopened, TypeOK, MemoryOK
    <3>3. AttemptThread(r)'
      BY <2>7, <3>2
      DEF OpenAttempt, OpenAttemptUpTo, Goto, AttemptThread, Unopened, ModelOpen, TypeOK, TablesOK, MemoryOK
    <3>4. QED BY <2>7, <3>1, <3>3, OutcomeStep DEF OpenAttempt
  <2>8. ASSUME NEW r \in Runs, OpenAttemptFails(r) PROVE OutcomeInv'
    <3>1. PICK k \in 0 .. 3 : OpenAttemptUpTo(r, k)
      BY <2>8 DEF OpenAttemptFails
    <3>2. OnlyRow(cur[r]) /\ AttemptRows'
      BY <2>8, <3>1, OpenAttemptRows DEF OpenAttemptFails
    <3>3. QED BY <2>8, <3>2, ToDriverLetsGo, OutcomeStep DEF OpenAttemptFails, Unopened, ModelOpen
  <2>9. ASSUME NEW r \in Runs, RecordTransformFailure(r) \/ RecordTransformFailureFails(r)
        PROVE  OutcomeInv'
    <3>1. PICK k \in 0 .. 4 : RecordTransformFailureUpTo(r, k)
      BY <2>9 DEF RecordTransformFailure, RecordTransformFailureFails
    <3>2. pc[r] = "transform" /\ ToDriver(r) /\ UNCHANGED asked
      BY <2>9 DEF RecordTransformFailure, RecordTransformFailureFails
    <3>3. OnlyRow(cur[r]) /\ AttemptRows'
      BY <3>1, <3>2, RecordTransformFailureRows
    <3>4. QED BY <3>2, <3>3, ToDriverLetsGo, OutcomeStep DEF Unopened, ModelOpen
  <2>10. ASSUME NEW r \in Runs, InvokeProvider(r) \/ ProviderSettles(r) PROVE OutcomeInv'
    BY <2>10, OutcomeKept DEF InvokeProvider, ProviderSettles, ModelOpen
  <2>11. ASSUME NEW r \in Runs, FinalizeFails(r) \/ FinishToolRefused(r) PROVE OutcomeInv'
    BY <2>11, ToDriverLetsGo, OutcomeKept DEF FinalizeFails, FinishToolRefused, Unopened, ModelOpen
  <2>12. ASSUME NEW r \in Runs, CloseAttempt(r) \/ CloseAttemptFails(r) PROVE OutcomeInv'
    <3>1. PICK k \in 0 .. 3 : CloseAttemptUpTo(r, Outcome(pc[r]), k)
      BY <2>12 DEF CloseAttempt, CloseAttemptFails
    <3>2. /\ pc[r] \in {"modelDone", "modelFailed", "modelCancelled"}
          /\ ToDriver(r) /\ UNCHANGED asked
      BY <2>12 DEF CloseAttempt, CloseAttemptFails
    <3>3. OnlyRow(cur[r]) /\ AttemptRows'
      BY <3>1, <3>2, CloseAttemptRows
    <3>4. QED BY <3>2, <3>3, ToDriverLetsGo, OutcomeStep DEF Unopened, ModelOpen
  <2>13. ASSUME NEW r \in Runs, OpenTool(r) \/ OpenToolFails(r) PROVE OutcomeInv'
    <3>1. PICK p \in {"driver", "dispatch"} : Goto(r, p)
      BY <2>13 DEF OpenTool, OpenToolFails, ToDriver
    <3>2. \A q \in Runs \ {r} : cur'[q] = cur[q]
      BY <2>13, ToDriverLetsGo DEF OpenTool, OpenToolFails
    <3>3. /\ pc[r] = "tool" /\ UNCHANGED <<attempt, art, asked>>
          /\ CreateOperation(r, "tool", "running") \/ UNCHANGED opVars
      BY <2>13 DEF OpenTool, OpenToolFails
    <3>4. CASE UNCHANGED opVars
      BY <3>1, <3>2, <3>3, <3>4, OutcomeKept DEF Unopened, ModelOpen
    <3>5. CASE CreateOperation(r, "tool", "running")
      <4>1. OnlyRow(cur[r]) /\ AttemptRows'
        BY <3>3, <3>5, OpenToolRows
      <4>2. QED BY <3>1, <3>2, <4>1, OutcomeStep DEF Unopened, ModelOpen
    <3>6. QED BY <3>3, <3>4, <3>5
  <2>14. ASSUME NEW r \in Runs, DispatchTool(r) \/ ToolSettles(r) PROVE OutcomeInv'
    BY <2>14, OutcomeKept DEF DispatchTool, ToolSettles, ToolOutcomes, Unopened, ModelOpen
  <2>15. ASSUME NEW r \in Runs, FinishTool(r) \/ FinishToolFails(r) PROVE OutcomeInv'
    <3>1. PICK p \in {"driver", "result", "errorResult", "toolFailed", "toolCancelled"} : Goto(r, p)
      BY <2>15 DEF FinishTool, FinishToolFails, ToDriver
    <3>2. \A q \in Runs \ {r} : cur'[q] = cur[q]
      BY <2>15, ToDriverLetsGo DEF FinishTool, FinishToolFails
    <3>3. /\ pc[r] \in {"toolDone", "toolFailed", "toolCancelled"} /\ UNCHANGED asked
          /\ FinishToolTo(r, Outcome(pc[r])) \/ UNCHANGED durable
      BY <2>15 DEF FinishTool, FinishToolFails
    <3>4. CASE UNCHANGED durable
      BY <3>1, <3>2, <3>3, <3>4, OutcomeKept DEF Unopened, ModelOpen
    <3>5. CASE FinishToolTo(r, Outcome(pc[r]))
      <4>1. OnlyRow(cur[r]) /\ AttemptRows'
        BY <3>3, <3>5, FinishToolRows
      <4>2. QED BY <3>1, <3>2, <4>1, OutcomeStep DEF Unopened, ModelOpen
    <3>6. QED BY <3>3, <3>4, <3>5
  <2>16. ASSUME NEW r \in Runs,
                \/ AppendError(r) \/ AppendErrorFails(r)
                \/ FinishRun(r) \/ FinishRunRefused(r) \/ FinishRunFails(r)
         PROVE  OutcomeInv'
    BY <2>16, OutcomeKept
    DEF AppendError, AppendErrorFails, FinishRun, FinishRunRefused, FinishRunFails, FinishRunTo,
        CaughtAt, Unopened, ModelOpen
  <2>17. CASE Close \/ AbortAll \/ CloseDatabase \/ UNCHANGED vars
    BY <2>1, <2>17 DEF Close, AbortAll, CloseDatabase, vars, memory
  <2>18. CASE Crash
    <3>1. UNCHANGED asked /\ \A r \in Runs : pc'[r] = "none"
      BY <2>18 DEF Crash
    <3>2. AttemptRows'
      <4>1. CASE UNCHANGED durable
        BY <3>1, <4>1, AttemptRowsKept DEF OutcomeInv
      <4>2. ASSUME NEW r \in Runs, NEW k \in 1 .. 2, pc[r] = "model", OpenAttemptUpTo(r, k)
            PROVE  AttemptRows'
        BY <3>1, <4>2, OpenAttemptRows
      <4>3. ASSUME NEW r \in Runs, NEW k \in 1 .. 3, pc[r] = "transform",
                   RecordTransformFailureUpTo(r, k)
            PROVE  AttemptRows'
        BY <3>1, <4>3, RecordTransformFailureRows
      <4>4. ASSUME NEW r \in Runs, NEW k \in 1 .. 2,
                   pc[r] \in {"modelDone", "modelFailed", "modelCancelled"},
                   CloseAttemptUpTo(r, Outcome(pc[r]), k)
            PROVE  AttemptRows'
        BY <3>1, <4>4, CloseAttemptRows
      <4>5. QED BY <2>18, <4>1, <4>2, <4>3, <4>4 DEF Crash
    <3>3. QED BY <3>1, <3>2 DEF OutcomeInv, AttemptThread, Unopened, ModelOpen
  <2>19. CASE Restart
    <3>1. \A r \in Runs : pc'[r] = "none"
      BY <2>19 DEF Restart, ThreadInv, Up
    <3>2. ASSUME NEW o \in Ops PROVE AttemptRow(o)'
      <4>1. AttemptRow(o) /\ attempt[o] \in OpStatuses
        BY DEF OutcomeInv, AttemptRows, TypeOK, TablesOK
      <4>2. /\ opRun'[o] = opRun[o] /\ opKind'[o] = opKind[o] /\ art'[o] = art[o]
            /\ UNCHANGED asked
            /\ opStatus'[o] = IF opStatus[o] = "running" THEN "abandoned" ELSE opStatus[o]
            /\ attempt'[o] = IF opStatus[o] = "running" /\ attempt[o] = "running"
                             THEN "abandoned" ELSE attempt[o]
        BY <2>19 DEF Restart, Live, RecoveredAttempt, Abandon
      <4>3. QED BY <4>1, <4>2 DEF AttemptRow
    <3>3. QED BY <3>1, <3>2 DEF OutcomeInv, AttemptRows, AttemptThread, Unopened, ModelOpen
  <2>20. QED
    BY <2>2, <2>3, <2>4, <2>5, <2>6, <2>7, <2>8, <2>9, <2>10, <2>11, <2>12, <2>13, <2>14, <2>15,
       <2>16, <2>17, <2>18, <2>19
    DEF Next, RunNext, Driver, Thread, Outside, Failure, ProcessNext
<1>3. QED
  BY <1>1, <1>2, TypeCorrect, ThreadsAndRuns, OperationsAndThreads, DecidedIsAsked, PTL DEF Spec

-----------------------------------------------------------------------------
\* Runs, and the whole invariant.

\* A request is never forgotten.
LEMMA AskedGrows ==
  ASSUME [Next]_vars
  PROVE  asked \subseteq asked'
BY DEF Next, RunNext, Driver, Thread, Outside, Failure, ProcessNext, vars, history, Fault,
   StartRun, CreateRun, CreateRunFails, AdmitRun, CancelRun, CallModel, CallTool, CallAppend,
   DriverReturns, DriverThrows, AppendContent, AppendContentFails,
   OpenAttempt, OpenAttemptFails, RecordTransformFailure, RecordTransformFailureFails,
   InvokeProvider, ProviderSettles, FinalizeFails, CloseAttempt, CloseAttemptFails,
   OpenTool, OpenToolFails, DispatchTool, ToolSettles,
   FinishTool, FinishToolRefused, FinishToolFails,
   AppendResult, AppendResultFails, AppendError, AppendErrorFails,
   FinishRun, FinishRunRefused, FinishRunFails, Settle,
   Close, AbortAll, CloseDatabase, Crash, Restart

CancelledRunInv == \A r \in Runs : runStatus[r] = "cancelled" => r \in asked

\* A run is marked cancelled only if somebody cancelled it: the handler of
\* #executeRun read the signal, and recovery marks nothing cancelled.
THEOREM CancelledRunsAsked == Spec => []CancelledRunInv
<1>1. Init => CancelledRunInv
  BY DEF Init, CancelledRunInv
<1>2. TypeOK /\ AskedInv /\ CancelledRunInv /\ [Next]_vars => CancelledRunInv'
  <2> SUFFICES ASSUME TypeOK, AskedInv, CancelledRunInv, [Next]_vars PROVE CancelledRunInv'
    OBVIOUS
  <2> USE DEF CancelledRunInv, TypeOK, TablesOK, history
  <2>1. asked \subseteq asked'
    BY AskedGrows
  <2>2. ASSUME NEW r \in Runs, CreateRun(r) PROVE CancelledRunInv'
    BY <2>2 DEF CreateRun
  <2>3. ASSUME NEW r \in Runs, FinishRun(r) \/ FinishRunFails(r) PROVE CancelledRunInv'
    <3>1. FinishRunTo(r, Outcome(pc[r])) \/ UNCHANGED runStatus
      BY <2>3 DEF FinishRun, FinishRunFails, durable
    <3>2. Outcome(pc[r]) = "cancelled" => r \in asked
      BY DEF Outcome, AskedInv
    <3>3. QED BY <2>1, <3>1, <3>2 DEF FinishRunTo
  <2>4. CASE Restart
    BY <2>4 DEF Restart, RecoveredRun
  <2>5. CASE UNCHANGED <<runStatus, runOp>>
    BY <2>1, <2>5
  <2>6. QED BY <2>2, <2>3, <2>4, <2>5, RunRowSteps
<1>3. QED BY <1>1, <1>2, TypeCorrect, DecidedIsAsked, PTL DEF Spec

\* The invariant that explains the kernel's tables holds: rows fit each other
\* and the threads, crashes and storage faults included.
THEOREM KernelInvariant == Spec => []IInv
<1>1. OutcomeInv => AttemptInv /\ AttemptFollowsOperation /\ OutcomeHasTrace
  BY DEF OutcomeInv, AttemptRows, AttemptRow, AttemptThread,
         AttemptInv, AttemptFollowsOperation, OutcomeHasTrace
<1>2. OutcomeInv /\ CancelledRunInv => CancelledOnlyIfAsked
  BY DEF OutcomeInv, AttemptRows, AttemptRow, CancelledRunInv, CancelledOnlyIfAsked
<1>3. TypeOK /\ RunMirrorsOperation /\ ThreadInv /\ OperationInv /\ AskedInv
        /\ OutcomeInv /\ CancelledRunInv => IInv
  BY <1>1, <1>2 DEF IInv
<1>4. QED
  BY <1>3, TypeCorrect, RunMirrors, ThreadsAndRuns, OperationsAndThreads, DecidedIsAsked,
     OutcomesAgree, CancelledRunsAsked, PTL

\* Work is marked cancelled only if somebody cancelled its run (cancelRun,
\* #close), whatever crashes, faults and recoveries came between.
THEOREM OnlyTheAskedAreCancelled == Spec => []CancelledOnlyIfAsked
<1>1. IInv => CancelledOnlyIfAsked
  BY DEF IInv
<1>2. QED BY <1>1, KernelInvariant, PTL

\* An attempt that claims an outcome has its traces: closeModelAttempt commits
\* the artifacts first.
THEOREM OutcomesHaveTraces == Spec => []OutcomeHasTrace
<1>1. IInv => OutcomeHasTrace
  BY DEF IInv
<1>2. QED BY <1>1, KernelInvariant, PTL

-----------------------------------------------------------------------------
\* The steps by what they do to the tables.

\* A commit of r's thread that may write rows of its operation.
RowStep(r) ==
  \/ pc[r] = "model" /\ \E k \in 0 .. 3 : OpenAttemptUpTo(r, k)
  \/ pc[r] = "transform" /\ \E k \in 0 .. 4 : RecordTransformFailureUpTo(r, k)
  \/ /\ pc[r] \in {"modelDone", "modelFailed", "modelCancelled"}
     /\ \E k \in 0 .. 3 : CloseAttemptUpTo(r, Outcome(pc[r]), k)
  \/ /\ pc[r] = "tool" /\ ~Aborted(r) /\ CreateOperation(r, "tool", "running")
     /\ UNCHANGED <<runStatus, attempt>>
  \/ /\ pc[r] \in {"toolDone", "toolFailed", "toolCancelled"}
     /\ FinishToolTo(r, Outcome(pc[r]))

\* A commit that ends r.
EndStep(r) ==
  /\ pc[r] \in {"finish", "finishFailed", "finishCancelled"}
  /\ FinishRunTo(r, Outcome(pc[r]))

\* Every step creates a run, writes rows of one operation, ends a run, recovers,
\* or leaves the rows of runs, operations and attempts alone.
LEMMA TableSteps ==
  ASSUME [Next]_vars
  PROVE  \/ Restart
         \/ /\ UNCHANGED asked
            /\ \E r \in Runs : CreateRun(r) \/ RowStep(r) \/ EndStep(r)
         \/ UNCHANGED <<runStatus, opVars, attempt>>
<1> USE DEF durable, opVars, history, Fault
<1>1. ASSUME NEW r \in Runs, StartRun(r) \/ CancelRun(r) \/ Driver(r) \/ Outside(r)
      PROVE  UNCHANGED durable
  BY <1>1 DEF StartRun, CancelRun, Driver, CallModel, CallTool, CallAppend, DriverReturns, DriverThrows,
              Outside, DispatchTool, ProviderSettles, ToolSettles
<1>2. ASSUME NEW r \in Runs, Thread(r), ~CreateRun(r)
      PROVE  \/ UNCHANGED asked /\ (RowStep(r) \/ EndStep(r))
             \/ UNCHANGED <<runStatus, opVars, attempt>>
  BY <1>2 DEF Thread, AdmitRun, AppendContent, OpenAttempt, RecordTransformFailure, InvokeProvider,
              CloseAttempt, OpenTool, FinishTool, FinishToolRefused, AppendResult, AppendError,
              FinishRun, FinishRunRefused, Settle, RowStep, EndStep
<1>3. ASSUME NEW r \in Runs, Failure(r)
      PROVE  \/ UNCHANGED asked /\ (RowStep(r) \/ EndStep(r))
             \/ UNCHANGED <<runStatus, opVars, attempt>>
  BY <1>3 DEF Failure, CreateRunFails, AppendContentFails, OpenAttemptFails,
              RecordTransformFailureFails, FinalizeFails, CloseAttemptFails, OpenToolFails,
              FinishToolFails, AppendResultFails, AppendErrorFails, FinishRunFails, RowStep, EndStep
<1>4. CASE Close \/ AbortAll \/ CloseDatabase \/ UNCHANGED vars
  BY <1>4 DEF Close, AbortAll, CloseDatabase, vars
<1>5. CASE Crash
  BY <1>5 DEF Crash, RowStep
<1>6. ASSUME NEW r \in Runs, CreateRun(r) PROVE UNCHANGED asked
  BY <1>6 DEF CreateRun
<1>7. QED BY <1>1, <1>2, <1>3, <1>4, <1>5, <1>6 DEF Next, RunNext, ProcessNext

\* An operation is opened in a running run, or a running one is ended; nothing
\* else happens to the operation of a thread.
LEMMA RowEffects ==
  ASSUME IInv, NEW r \in Runs, RowStep(r)
  PROVE  /\ UNCHANGED runStatus
         /\ \/ UNCHANGED <<opStatus, opRun, opKind>>
            \/ \E c \in Ops, s \in {"running", "failed"}, kind \in {"model", "tool"} :
                 /\ runStatus[r] = "running" /\ opStatus[c] = "absent"
                 /\ opStatus' = [opStatus EXCEPT ![c] = s]
                 /\ opRun' = [opRun EXCEPT ![c] = r]
                 /\ opKind' = [opKind EXCEPT ![c] = kind]
                 /\ kind = "tool" => ~Aborted(r)
            \/ \E c \in Ops, s \in {"completed", "failed", "cancelled"} :
                 /\ opStatus[c] = "running" /\ opRun[c] = r
                 /\ opStatus' = [opStatus EXCEPT ![c] = s]
                 /\ s = "cancelled" => r \in asked
                 /\ UNCHANGED <<opRun, opKind>>
<1> USE DEF IInv, TypeOK, MemoryOK, Unopened, ModelOpen, ToolOpen
<1>1. CASE pc[r] \in Unopened
  <2>1. PICK c \in Ops : c = cur[r] /\ opStatus[c] = "absent"
    BY <1>1 DEF OperationInv, OperationThread
  <2>2. runStatus[r] = "running"
    BY <1>1 DEF ThreadInv, Busy, Positions
  <2>3. UNCHANGED runStatus
    BY <1>1 DEF RowStep, OpenAttemptUpTo, RecordTransformFailureUpTo
  <2>4. \/ UNCHANGED <<opStatus, opRun, opKind>>
        \/ \E s \in {"running", "failed"} : CreateOperation(r, "model", s)
        \/ CreateOperation(r, "tool", "running") /\ ~Aborted(r)
    BY <1>1 DEF RowStep, OpenAttemptUpTo, RecordTransformFailureUpTo, opVars
  <2>5. QED BY <2>1, <2>2, <2>3, <2>4 DEF CreateOperation
<1>2. CASE pc[r] \in {"modelDone", "modelFailed", "modelCancelled"}
  <2>1. PICK c \in Ops : c = cur[r] /\ opRun[c] = r /\ opStatus[c] = "running"
    BY <1>2 DEF OperationInv, OperationThread
  <2>2. PICK k \in 0 .. 3 : CloseAttemptUpTo(r, Outcome(pc[r]), k)
    BY <1>2 DEF RowStep
  <2>3. Outcome(pc[r]) = "cancelled" => r \in asked
    BY DEF Outcome, AskedInv
  <2>4. QED BY <2>1, <2>2, <2>3, OutcomeType DEF CloseAttemptUpTo
<1>3. CASE pc[r] \in {"toolDone", "toolFailed", "toolCancelled"}
  <2>1. FinishToolTo(r, Outcome(pc[r]))
    BY <1>3 DEF RowStep
  <2>2. PICK c \in Ops : c = cur[r] /\ opRun[c] = r /\ opStatus[c] = "running"
    BY <1>3, <2>1 DEF OperationInv, OperationThread, FinishToolTo, CanEnd
  <2>3. Outcome(pc[r]) = "cancelled" => r \in asked
    BY DEF Outcome, AskedInv
  <2>4. QED BY <2>1, <2>2, <2>3, OutcomeType DEF FinishToolTo
<1>4. QED BY <1>1, <1>2, <1>3 DEF RowStep

\* A run that ends was running, none of its operations is, and it is cancelled
\* only on request; storage faults apart.
LEMMA EndEffects ==
  ASSUME IInv, NEW r \in Runs, EndStep(r)
  PROVE  /\ runStatus[r] = "running" /\ UNCHANGED <<opVars, attempt>>
         /\ \A o \in Ops : opRun[o] = r /\ opStatus[o] = "running" => r \in faulted
         /\ \E s \in {"completed", "failed", "cancelled"} :
              runStatus' = [runStatus EXCEPT ![r] = s] /\ (s = "cancelled" => r \in asked)
<1>1. runStatus[r] = "running"
  BY DEF EndStep, FinishRunTo, CanEnd, IInv, RunMirrorsOperation
<1>2. ASSUME NEW o \in Ops, opRun[o] = r, opStatus[o] = "running" PROVE r \in faulted
  <2>1. OperationRow(o) /\ proc # "crashed"
    BY DEF IInv, OperationInv, EndStep, ThreadInv, Up
  <2>2. QED BY <1>2, <2>1 DEF OperationRow, EndStep, ModelOpen, ToolOpen
<1>3. Outcome(pc[r]) = "cancelled" => r \in asked
  BY DEF Outcome, IInv, AskedInv
<1>4. QED BY <1>1, <1>2, <1>3, OutcomeType DEF EndStep, FinishRunTo

\* A run that is created did not exist.
LEMMA CreateEffects ==
  ASSUME IInv, NEW r \in Runs, CreateRun(r)
  PROVE  /\ runStatus[r] = "absent" /\ runStatus' = [runStatus EXCEPT ![r] = "running"]
         /\ UNCHANGED <<opVars, attempt>>
BY DEF CreateRun, IInv, ThreadInv

\* A recovery ends everything that was live.
LEMMA RestartEffects ==
  ASSUME IInv, Restart
  PROVE  /\ opStatus' = [o \in Ops |-> IF opStatus[o] = "running" THEN "abandoned" ELSE opStatus[o]]
         /\ runStatus' = [r \in Runs |-> IF runStatus[r] = "running" THEN "failed" ELSE runStatus[r]]
         /\ UNCHANGED <<opRun, opKind, asked, records>>
BY DEF Restart, Live, RecoveredRun, IInv, RunMirrorsOperation, history

\* The journal of a run grows in three places only.
LEMMA RecordSteps ==
  ASSUME [Next]_vars
  PROVE  \/ \E r \in Runs : CreateRun(r)
         \/ \E r \in Runs : pc[r] = "error" /\ Append1(r, "error")
         \/ \E r \in Runs, kind \in {"content", "tool-result"} :
              /\ pc[r] \in {"append", "result", "errorResult"} /\ ~Aborted(r)
              /\ Append1(r, kind)
         \/ UNCHANGED records
BY DEF Next, RunNext, Driver, Thread, Outside, Failure, ProcessNext, vars, durable, history,
   StartRun, CreateRunFails, AdmitRun, CancelRun, CallModel, CallTool, CallAppend,
   DriverReturns, DriverThrows, AppendContent, AppendContentFails, AppendRejected,
   OpenAttempt, OpenAttemptFails, OpenAttemptUpTo,
   RecordTransformFailure, RecordTransformFailureFails, RecordTransformFailureUpTo,
   InvokeProvider, ProviderSettles, FinalizeFails, CloseAttempt, CloseAttemptFails, CloseAttemptUpTo,
   OpenTool, OpenToolFails, DispatchTool, ToolSettles,
   FinishTool, FinishToolRefused, FinishToolFails, FinishToolTo,
   AppendResult, AppendResultFails, AppendError, AppendErrorFails,
   FinishRun, FinishRunRefused, FinishRunFails, FinishRunTo, Settle,
   Close, AbortAll, CloseDatabase, Crash, Restart

-----------------------------------------------------------------------------
\* Nothing terminal changes.

\* An attempt that has ended stays as it ended.
LEMMA AttemptsAreFinal ==
  ASSUME IInv, NEW r \in Runs, RowStep(r), NEW o \in Ops, attempt[o] \in Terminal
  PROVE  attempt'[o] = attempt[o]
<1> USE DEF IInv, TypeOK, TablesOK, MemoryOK, Unopened, ModelOpen, Terminal
<1>1. CASE pc[r] \in Unopened
  <2>1. cur[r] # o
    BY <1>1 DEF OperationInv, OperationThread, AttemptInv
  <2>2. QED BY <1>1, <2>1 DEF RowStep, OpenAttemptUpTo, RecordTransformFailureUpTo
<1>2. CASE pc[r] \in {"modelDone", "modelFailed", "modelCancelled"}
  <2>1. cur[r] # o
    BY <1>2 DEF AttemptInv
  <2>2. QED BY <1>2, <2>1 DEF RowStep, CloseAttemptUpTo
<1>3. CASE pc[r] \in {"toolDone", "toolFailed", "toolCancelled"}
  BY <1>3 DEF RowStep, FinishToolTo
<1>4. QED BY <1>1, <1>2, <1>3 DEF RowStep

\* Of the statuses and owners, a step changes no terminal one, and no operation
\* joins a run that has ended.
EndedStays ==
  /\ \A o \in Ops : opStatus[o] \in Terminal => opStatus'[o] = opStatus[o]
  /\ \A o \in Ops : attempt[o] \in Terminal => attempt'[o] = attempt[o]
  /\ \A r \in Runs : runStatus[r] \in Terminal =>
       /\ runStatus'[r] = runStatus[r]
       /\ \A o \in Ops : opRun'[o] = r => opRun[o] = r

\* So it is with every step.
LEMMA TablesAreFinal ==
  ASSUME IInv, [Next]_vars
  PROVE  EndedStays
<1> USE DEF Terminal, EndedStays
<1>0. TablesOK
  BY DEF IInv, TypeOK
<1>1. CASE Restart
  <2>1. \A o \in Ops : attempt[o] \in Terminal => attempt'[o] = attempt[o]
    BY <1>1 DEF Restart, RecoveredAttempt, Abandon
  <2>2. QED BY <1>1, <2>1, RestartEffects
<1>2. ASSUME NEW r \in Runs, CreateRun(r) PROVE EndedStays
  BY <1>0, <1>2, CreateEffects DEF opVars, TablesOK
<1>3. ASSUME NEW r \in Runs, EndStep(r) PROVE EndedStays
  BY <1>0, <1>3, EndEffects DEF opVars, TablesOK
<1>4. ASSUME NEW r \in Runs, RowStep(r) PROVE EndedStays
  BY <1>0, <1>4, RowEffects, AttemptsAreFinal DEF TablesOK
<1>5. CASE UNCHANGED <<runStatus, opVars, attempt>>
  BY <1>5 DEF opVars
<1>6. QED BY <1>1, <1>2, <1>3, <1>4, <1>5, TableSteps

\* Nothing is added to the journal of a run that has ended, storage faults apart.
LEMMA JournalsAreFinal ==
  ASSUME IInv, [Next]_vars, NEW r \in Runs, runStatus[r] \in Terminal
  PROVE  records'[r] = records[r] \/ r \in faulted
<1> USE DEF IInv, TypeOK, TablesOK, ThreadInv, Terminal, Busy, Positions
<1>1. ASSUME NEW q \in Runs, CreateRun(q) PROVE records'[r] = records[r]
  BY <1>1 DEF CreateRun
<1>2. ASSUME NEW q \in Runs, NEW kind, Append1(q, kind),
             pc[q] \in {"error", "append", "result", "errorResult"}
      PROVE  records'[r] = records[r] \/ r \in faulted
  BY <1>2 DEF Append1
<1>3. QED BY <1>1, <1>2, RecordSteps

\* A terminal operation, attempt or run never changes again; neither do the
\* records of a terminal run, and no operation joins it (assertOperationTransition,
\* finishRun, recoverAbandoned).
THEOREM TerminalIsFinal == Spec => HistoryIsFinal
<1>1. IInv /\ [Next]_vars =>
        [/\ \A o \in Ops : opStatus[o] \in Terminal => opStatus'[o] = opStatus[o]
         /\ \A o \in Ops : attempt[o] \in Terminal => attempt'[o] = attempt[o]
         /\ \A r \in Runs : runStatus[r] \in Terminal =>
              /\ runStatus'[r] = runStatus[r]
              /\ records'[r] = records[r] \/ r \in faulted
              /\ \A o \in Ops : opRun'[o] = r => opRun[o] = r]_vars
  BY TablesAreFinal, JournalsAreFinal DEF EndedStays
<1>2. QED BY <1>1, KernelInvariant, PTL DEF Spec, HistoryIsFinal

-----------------------------------------------------------------------------
\* A run has a controller from its admission to its settling.

Unadmitted == {"none", "admit", "admitted"}
ControllerInv == \A r \in Runs : pc[r] \in Unadmitted => ctl[r] = "none"

\* A thread that moves stays admitted and keeps its controller.
LEMMA ControllerMove ==
  ASSUME TypeOK, ControllerInv, NEW q \in Runs, NEW p, Goto(q, p), UNCHANGED ctl,
         p \in Unadmitted => pc[q] \in Unadmitted
  PROVE  ControllerInv'
BY DEF Goto, TypeOK, MemoryOK, ControllerInv

\* A controller is registered when the run is admitted and forgotten when it
\* settles (#active in #admitRun and in the finally of #executeRun).
THEOREM ControllersOfTheAdmitted == Spec => []ControllerInv
<1>1. Init => ControllerInv
  BY DEF Init, ControllerInv
<1>2. TypeOK /\ ControllerInv /\ [Next]_vars => ControllerInv'
  <2> SUFFICES ASSUME TypeOK, ControllerInv, [Next]_vars PROVE ControllerInv'
    OBVIOUS
  <2> USE DEF Await, ToDriver, Unadmitted
  <2>1. ASSUME NEW q \in Runs, StartRun(q) \/ Driver(q) PROVE ControllerInv'
    BY <2>1, ControllerMove
    DEF StartRun, Driver, CallModel, CallTool, CallAppend, DriverReturns, DriverThrows, CaughtAt
  <2>2. ASSUME NEW q \in Runs, CancelRun(q) \/ AdmitRun(q) \/ Settle(q) PROVE ControllerInv'
    BY <2>2 DEF CancelRun, AdmitRun, Settle, Goto, ControllerInv, TypeOK, MemoryOK
  <2>3. ASSUME NEW q \in Runs,
               \/ CreateRun(q) \/ AppendContent(q) \/ OpenAttempt(q)
               \/ RecordTransformFailure(q) \/ InvokeProvider(q) \/ CloseAttempt(q) \/ OpenTool(q)
        PROVE  ControllerInv'
    BY <2>3, ControllerMove
    DEF CreateRun, AppendContent, OpenAttempt, RecordTransformFailure, InvokeProvider,
        CloseAttempt, OpenTool
  <2>4. ASSUME NEW q \in Runs,
               \/ FinishTool(q) \/ FinishToolRefused(q) \/ AppendResult(q) \/ AppendError(q)
               \/ FinishRun(q) \/ FinishRunRefused(q)
        PROVE  ControllerInv'
    BY <2>4, ControllerMove
    DEF FinishTool, FinishToolRefused, AppendResult, AppendError, FinishRun, FinishRunRefused
  <2>5. ASSUME NEW q \in Runs, Outside(q) PROVE ControllerInv'
    BY <2>5, ControllerMove DEF Outside, DispatchTool, ProviderSettles, ToolSettles, ToolOutcomes
  <2>6. ASSUME NEW q \in Runs, Failure(q) PROVE ControllerInv'
    BY <2>6, ControllerMove
    DEF Failure, CreateRunFails, AppendContentFails, OpenAttemptFails, RecordTransformFailureFails,
        FinalizeFails, CloseAttemptFails, OpenToolFails, FinishToolFails, AppendResultFails,
        AppendErrorFails, FinishRunFails, CaughtAt
  <2>7. CASE ProcessNext \/ UNCHANGED vars
    BY <2>7
    DEF ProcessNext, Close, AbortAll, AllAborted, CloseDatabase, Crash, Restart, vars, memory, ControllerInv
  <2>8. QED BY <2>1, <2>2, <2>3, <2>4, <2>5, <2>6, <2>7 DEF Next, RunNext, Thread
<1>3. QED BY <1>1, <1>2, TypeCorrect, PTL DEF Spec

-----------------------------------------------------------------------------
\* Nothing goes on after a cancel.

\* A thread that moves calls the provider only from "invoke", with a live signal.
LEMMA ProviderMove ==
  ASSUME TypeOK, NEW q \in Runs, NEW p, Goto(q, p), p = "provider" => ~Aborted(q)
  PROVE  \A r \in Runs : Aborted(r) /\ pc[r] # "provider" => pc'[r] # "provider"
BY DEF Goto, TypeOK, MemoryOK

\* No step takes the thread of an aborted run to its provider.
LEMMA ProviderSteps ==
  ASSUME TypeOK, [Next]_vars, NEW r \in Runs, Aborted(r), pc[r] # "provider"
  PROVE  pc'[r] # "provider"
<1> USE DEF Await, ToDriver
<1>1. ASSUME NEW q \in Runs, StartRun(q) \/ CancelRun(q) \/ Driver(q) PROVE pc'[r] # "provider"
  BY <1>1, ProviderMove
  DEF StartRun, CancelRun, Driver, CallModel, CallTool, CallAppend, DriverReturns, DriverThrows, CaughtAt
<1>2. ASSUME NEW q \in Runs,
             \/ CreateRun(q) \/ AdmitRun(q) \/ AppendContent(q) \/ OpenAttempt(q)
             \/ RecordTransformFailure(q) \/ InvokeProvider(q) \/ CloseAttempt(q) \/ OpenTool(q)
      PROVE  pc'[r] # "provider"
  BY <1>2, ProviderMove
  DEF CreateRun, AdmitRun, AppendContent, OpenAttempt, RecordTransformFailure, InvokeProvider,
      CloseAttempt, OpenTool
<1>3. ASSUME NEW q \in Runs,
             \/ FinishTool(q) \/ FinishToolRefused(q) \/ AppendResult(q) \/ AppendError(q)
             \/ FinishRun(q) \/ FinishRunRefused(q) \/ Settle(q)
      PROVE  pc'[r] # "provider"
  BY <1>3, ProviderMove
  DEF FinishTool, FinishToolRefused, AppendResult, AppendError, FinishRun, FinishRunRefused, Settle
<1>4. ASSUME NEW q \in Runs, Outside(q) PROVE pc'[r] # "provider"
  BY <1>4, ProviderMove DEF Outside, DispatchTool, ProviderSettles, ToolSettles, ToolOutcomes
<1>5. ASSUME NEW q \in Runs, Failure(q) PROVE pc'[r] # "provider"
  BY <1>5, ProviderMove
  DEF Failure, CreateRunFails, AppendContentFails, OpenAttemptFails, RecordTransformFailureFails,
      FinalizeFails, CloseAttemptFails, OpenToolFails, FinishToolFails, AppendResultFails,
      AppendErrorFails, FinishRunFails, CaughtAt
<1>6. CASE ProcessNext \/ UNCHANGED vars
  BY <1>6 DEF ProcessNext, Close, AbortAll, CloseDatabase, Crash, Restart, vars, memory
<1>7. QED BY <1>1, <1>2, <1>3, <1>4, <1>5, <1>6 DEF Next, RunNext, Thread

\* No step opens a tool operation in an aborted run.
LEMMA ToolSteps ==
  ASSUME IInv, [Next]_vars, NEW r \in Runs, Aborted(r),
         NEW o \in Ops, opKind[o] = "none", opRun'[o] = r
  PROVE  opKind'[o] = "model"
<1>1. opRun[o] # r
  BY KernelAssumption DEF IInv, OperationInv, OperationRow
<1>2. ASSUME NEW q \in Runs, RowStep(q) PROVE opKind'[o] = "model"
  BY <1>1, <1>2, RowEffects DEF IInv, TypeOK, TablesOK
<1>3. opRun'[o] # opRun[o]
  BY <1>1
<1>4. QED BY <1>2, <1>3, TableSteps, CreateEffects, EndEffects, RestartEffects DEF opVars

\* Nothing but the error joins the journal of an aborted run.
LEMMA AbortedJournals ==
  ASSUME IInv, ControllerInv, [Next]_vars, NEW r \in Runs, Aborted(r)
  PROVE  records'[r] \in {records[r], Append(records[r], "error")}
<1> USE DEF IInv, TypeOK, TablesOK
<1>1. ASSUME NEW q \in Runs, CreateRun(q) PROVE records'[r] = records[r]
  <2>1. q # r
    BY <1>1 DEF ControllerInv, Unadmitted, Aborted, CreateRun
  <2>2. QED BY <1>1, <2>1 DEF CreateRun
<1>2. QED BY <1>1, RecordSteps DEF Append1

\* Once a cancel is accepted the run's provider is not called again, no tool
\* operation is opened and nothing but the error record joins the journal (the
\* checks of the signal in #invokeModel, #dispatchTool and #append).
THEOREM CancelStops == Spec => NoContinuationAfterCancel
<1>1. IInv /\ ControllerInv /\ [Next]_vars =>
        [\A r \in Runs : Aborted(r) =>
           /\ pc[r] # "provider" => pc'[r] # "provider"
           /\ \A o \in Ops : opKind[o] = "none" /\ opRun'[o] = r => opKind'[o] = "model"
           /\ records'[r] \in {records[r], Append(records[r], "error")}]_vars
  BY ProviderSteps, ToolSteps, AbortedJournals DEF IInv
<1>2. QED
  BY <1>1, KernelInvariant, ControllersOfTheAdmitted, PTL DEF Spec, NoContinuationAfterCancel

-----------------------------------------------------------------------------
\* The tables keep the promise of the ledger.

\* A fault that has hit a run is never forgotten.
LEMMA FaultsGrow ==
  ASSUME [Next]_vars
  PROVE  faulted \subseteq faulted'
BY DEF Next, RunNext, Driver, Thread, Outside, Failure, ProcessNext, vars, history, Fault,
   StartRun, CreateRun, CreateRunFails, AdmitRun, CancelRun, CallModel, CallTool, CallAppend,
   DriverReturns, DriverThrows, AppendContent, AppendContentFails,
   OpenAttempt, OpenAttemptFails, RecordTransformFailure, RecordTransformFailureFails,
   InvokeProvider, ProviderSettles, FinalizeFails, CloseAttempt, CloseAttemptFails,
   OpenTool, OpenToolFails, DispatchTool, ToolSettles,
   FinishTool, FinishToolRefused, FinishToolFails,
   AppendResult, AppendResultFails, AppendError, AppendErrorFails,
   FinishRun, FinishRunRefused, FinishRunFails, Settle,
   Close, AbortAll, CloseDatabase, Crash, Restart

\* Requests come alone: a step that grows asked writes no table.
LEMMA AskedAlone ==
  ASSUME [Next]_vars
  PROVE  UNCHANGED asked \/ UNCHANGED durable
BY DEF Next, RunNext, Driver, Thread, Outside, Failure, ProcessNext, vars, history, Fault,
   StartRun, CreateRun, CreateRunFails, AdmitRun, CancelRun, CallModel, CallTool, CallAppend,
   DriverReturns, DriverThrows, AppendContent, AppendContentFails,
   OpenAttempt, OpenAttemptFails, RecordTransformFailure, RecordTransformFailureFails,
   InvokeProvider, ProviderSettles, FinalizeFails, CloseAttempt, CloseAttemptFails,
   OpenTool, OpenToolFails, DispatchTool, ToolSettles,
   FinishTool, FinishToolRefused, FinishToolFails,
   AppendResult, AppendResultFails, AppendError, AppendErrorFails,
   FinishRun, FinishRunRefused, FinishRunFails, Settle,
   Close, AbortAll, CloseDatabase, Crash, Restart

\* Every step of the kernel is a step of the ledger, or none.
LEMMA LedgerStep ==
  ASSUME IInv, TypeOK', [Next]_vars
  PROVE  Ledger!Next
<1>1. faulted \subseteq faulted' /\ faulted' \in SUBSET Runs
  BY FaultsGrow DEF TypeOK, HistoryOK
<1>2. Ledger!Step
  <2> USE DEF opVars, Ledger!Outcomes
  <2>1. CASE Restart
    BY <2>1, RestartEffects DEF Ledger!Step, Ledger!Recover
  <2>2. ASSUME NEW r \in Runs, CreateRun(r), UNCHANGED asked PROVE Ledger!Step
    BY <2>2, CreateEffects DEF Ledger!Step, Ledger!Begin
  <2>3. ASSUME NEW r \in Runs, EndStep(r), UNCHANGED asked PROVE Ledger!Step
    <3>1. \E s \in Ledger!Outcomes : Ledger!Finish(r, s)
      BY <2>3, EndEffects DEF Ledger!Finish
    <3>2. QED BY <3>1 DEF Ledger!Step
  <2>4. ASSUME NEW r \in Runs, RowStep(r), UNCHANGED asked PROVE Ledger!Step
    <3>1. CASE UNCHANGED <<opStatus, opRun, opKind>>
      BY <2>4, <3>1, RowEffects DEF Ledger!Step
    <3>2. ASSUME NEW c \in Ops, NEW s \in {"running", "failed"},
                 runStatus[r] = "running", opStatus[c] = "absent",
                 opStatus' = [opStatus EXCEPT ![c] = s], opRun' = [opRun EXCEPT ![c] = r]
          PROVE  Ledger!Step
      <4>1. Ledger!Open(r, c, s)
        BY <2>4, <3>2, RowEffects DEF Ledger!Open
      <4>2. QED BY <4>1 DEF Ledger!Step
    <3>3. ASSUME NEW c \in Ops, NEW s \in Ledger!Outcomes,
                 opStatus[c] = "running", opRun[c] = r, s = "cancelled" => r \in asked,
                 opStatus' = [opStatus EXCEPT ![c] = s], UNCHANGED opRun
          PROVE  Ledger!Step
      <4>1. Ledger!End(c, s)
        BY <2>4, <3>3, RowEffects DEF Ledger!End
      <4>2. QED BY <4>1 DEF Ledger!Step
    <3>4. QED BY <2>4, <3>1, <3>2, <3>3, RowEffects
  <2>5. CASE UNCHANGED <<runStatus, opVars, attempt>> /\ UNCHANGED asked
    BY <2>5 DEF Ledger!Step
  <2>6. CASE UNCHANGED durable
    BY <2>6, AskedGrows DEF Ledger!Step, Ledger!Ask, durable, TypeOK, HistoryOK
  <2>7. QED BY <2>1, <2>2, <2>3, <2>4, <2>5, <2>6, TableSteps, AskedAlone
<1>3. QED BY <1>1, <1>2 DEF Ledger!Next

\* Seen from outside the tables behave as RunLedger promises, whatever threads,
\* commits, faults and crashes lie behind them.
THEOREM KernelImplementsLedger == Spec => ImplementsLedger
<1>1. Init => Ledger!Init
  BY DEF Init, Ledger!Init
<1>2. IInv /\ IInv' /\ [Next]_vars => [Ledger!Next]_(Ledger!vars)
  BY LedgerStep DEF IInv
<1>3. QED BY <1>1, <1>2, KernelInvariant, PTL DEF Spec, ImplementsLedger, Ledger!Spec

-----------------------------------------------------------------------------
\* The journal explains a failed run.

Errors(s) == {i \in 1 .. Len(s) : s[i] = "error"}
Clean(r) == Errors(records[r]) = {}
Explained(r) == Errors(records[r]) = {Len(records[r])}

\* The positions of a thread whose run has no error record yet.
Journaling == Busy \ {"finishFailed"}

JournalRow(r) ==
  /\ Clean(r) \/ Explained(r)
  /\ pc[r] \in Journaling => Clean(r)
  /\ pc[r] = "finishFailed" => Explained(r)
  /\ runStatus[r] \in {"completed", "cancelled"} => Clean(r) \/ r \in faulted
  /\ runStatus[r] = "failed" => Explained(r) \/ runOp[r] = "abandoned"

JournalInv == \A r \in Runs : JournalRow(r)

\* What an append makes of a clean journal.
LEMMA AppendErrors ==
  ASSUME NEW s \in Seq(RecordKinds), Errors(s) = {}, NEW kind \in RecordKinds
  PROVE  Errors(Append(s, kind)) = IF kind = "error" THEN {Len(Append(s, kind))} ELSE {}
<1>1. /\ Len(s) \in Nat /\ Len(Append(s, kind)) = Len(s) + 1
      /\ Append(s, kind)[Len(s) + 1] = kind
      /\ \A i \in 1 .. Len(s) : Append(s, kind)[i] = s[i]
  OBVIOUS
<1>2. \A i \in 1 .. Len(s) : s[i] # "error"
  BY DEF Errors
<1>3. QED BY <1>1, <1>2 DEF Errors

LEMMA CleanAppend ==
  ASSUME TypeOK, NEW r \in Runs, Clean(r), NEW kind \in RecordKinds, Append1(r, kind)
  PROVE  IF kind = "error" THEN Explained(r)' ELSE Clean(r)'
<1>1. records'[r] = Append(records[r], kind) /\ records[r] \in Seq(RecordKinds)
  BY DEF Append1, TypeOK, TablesOK
<1>2. QED BY <1>1, AppendErrors DEF Clean, Explained

\* A step of r's thread leaves the other journals as they are.
LEMMA JournalMove ==
  ASSUME TypeOK, JournalInv, NEW r \in Runs, NEW p, Goto(r, p), faulted \subseteq faulted',
         \A q \in Runs \ {r} :
           records'[q] = records[q] /\ runStatus'[q] = runStatus[q] /\ runOp'[q] = runOp[q],
         JournalRow(r)'
  PROVE  JournalInv'
<1>1. \A q \in Runs \ {r} : pc'[q] = pc[q]
  BY DEF Goto, TypeOK, MemoryOK
<1>2. ASSUME NEW q \in Runs \ {r} PROVE JournalRow(q)'
  BY <1>1, <1>2 DEF JournalInv, JournalRow, Clean, Explained
<1>3. QED BY <1>2 DEF JournalInv

\* A thread that writes nothing in its journal moves among positions of one kind.
LEMMA JournalKept ==
  ASSUME TypeOK, JournalInv, NEW r \in Runs, NEW p, Goto(r, p), faulted \subseteq faulted',
         UNCHANGED <<records, runStatus, runOp>>,
         p \in Journaling => pc[r] \in Journaling, p # "finishFailed"
  PROVE  JournalInv'
<1>1. pc'[r] = p
  BY DEF Goto, TypeOK, MemoryOK
<1>2. JournalRow(r)'
  BY <1>1 DEF JournalInv, JournalRow, Clean, Explained
<1>3. QED BY <1>2, JournalMove

\* An append of content, or none, by a thread that goes on.
LEMMA JournalGrows ==
  ASSUME TypeOK, ThreadInv, JournalInv, NEW r \in Runs, NEW p \in Journaling, Goto(r, p),
         faulted \subseteq faulted', pc[r] \in Journaling, UNCHANGED <<runStatus, runOp>>,
         UNCHANGED records \/ \E kind \in {"content", "tool-result"} : Append1(r, kind)
  PROVE  JournalInv'
<1>1. pc'[r] = p
  BY DEF Goto, TypeOK, MemoryOK
<1>2. Clean(r)'
  <2>1. Clean(r)
    BY DEF JournalInv, JournalRow
  <2>2. CASE UNCHANGED records
    BY <2>1, <2>2 DEF Clean
  <2>3. CASE \E kind \in {"content", "tool-result"} : Append1(r, kind)
    BY <2>1, <2>3, CleanAppend DEF RecordKinds
  <2>4. QED BY <2>2, <2>3
<1>3. JournalRow(r)'
  BY <1>1, <1>2 DEF JournalInv, JournalRow, ThreadInv, Journaling, Busy
<1>4. QED BY <1>3, JournalMove DEF Append1, TypeOK, TablesOK

\* The error record is the last of its journal, and a run that ends as failed has
\* it unless a recovery ended it (#executeRun, finishRun, recoverAbandoned).
THEOREM JournalsExplain == Spec => []JournalInv
<1>1. Init => JournalInv
  BY DEF Init, JournalInv, JournalRow, Clean, Errors, Journaling, Busy
<1>2. TypeOK /\ RunMirrorsOperation /\ ThreadInv /\ JournalInv /\ [Next]_vars => JournalInv'
  <2> SUFFICES ASSUME TypeOK, RunMirrorsOperation, ThreadInv, JournalInv, [Next]_vars
               PROVE  JournalInv'
    OBVIOUS
  <2>0. faulted \subseteq faulted'
    BY FaultsGrow
  <2>00. Journaling = {"admitted", "driver", "append",
           "model", "transform", "invoke", "provider", "modelDone", "modelFailed", "modelCancelled",
           "tool", "dispatch", "worker", "toolDone", "toolFailed", "toolCancelled", "result",
           "errorResult", "finish", "error", "finishCancelled"}
    BY DEF Journaling, Busy, Positions
  <2> USE <2>0, <2>00 DEF Await, ToDriver, durable, history, opVars
  <2>1. ASSUME NEW r \in Runs, StartRun(r) \/ CreateRunFails(r) \/ AdmitRun(r) \/ Driver(r) \/ Settle(r)
        PROVE  JournalInv'
    BY <2>1, JournalKept
    DEF StartRun, CreateRunFails, AdmitRun, Driver, CallModel, CallTool, CallAppend,
        DriverReturns, DriverThrows, CaughtAt, Settle
  <2>2. ASSUME NEW r \in Runs, CreateRun(r) PROVE JournalInv'
    <3>1. /\ records'[r] = <<"user">> /\ runStatus'[r] = "running" /\ pc'[r] = "admitted"
          /\ \A q \in Runs \ {r} :
               records'[q] = records[q] /\ runStatus'[q] = runStatus[q] /\ runOp'[q] = runOp[q]
      BY <2>2 DEF CreateRun, Goto, TypeOK, TablesOK, MemoryOK
    <3>2. JournalRow(r)'
      BY <3>1 DEF JournalRow, Clean, Errors
    <3>3. QED BY <2>2, <3>1, <3>2, JournalMove DEF CreateRun
  <2>3. ASSUME NEW r \in Runs,
               AppendContent(r) \/ AppendContentFails(r) \/ AppendResult(r) \/ AppendResultFails(r)
        PROVE  JournalInv'
    <3>1. PICK p \in {"driver", "errorResult"} : Goto(r, p)
      BY <2>3 DEF AppendContent, AppendContentFails, AppendResult, AppendResultFails
    <3>2. /\ pc[r] \in {"append", "result", "errorResult"} /\ UNCHANGED <<runStatus, runOp>>
          /\ UNCHANGED records \/ \E kind \in {"content", "tool-result"} : Append1(r, kind)
      BY <2>3 DEF AppendContent, AppendContentFails, AppendResult, AppendResultFails
    <3>3. QED BY <3>1, <3>2, JournalGrows
  <2>4. ASSUME NEW r \in Runs,
               \/ OpenAttempt(r) \/ OpenAttemptFails(r)
               \/ RecordTransformFailure(r) \/ RecordTransformFailureFails(r)
               \/ InvokeProvider(r) \/ ProviderSettles(r) \/ FinalizeFails(r)
               \/ CloseAttempt(r) \/ CloseAttemptFails(r)
        PROVE  JournalInv'
    BY <2>4, JournalKept
    DEF OpenAttempt, OpenAttemptFails, OpenAttemptUpTo,
        RecordTransformFailure, RecordTransformFailureFails, RecordTransformFailureUpTo,
        InvokeProvider, ProviderSettles, FinalizeFails,
        CloseAttempt, CloseAttemptFails, CloseAttemptUpTo
  <2>5. ASSUME NEW r \in Runs,
               \/ OpenTool(r) \/ OpenToolFails(r) \/ DispatchTool(r) \/ ToolSettles(r)
               \/ FinishTool(r) \/ FinishToolRefused(r) \/ FinishToolFails(r)
        PROVE  JournalInv'
    BY <2>5, JournalKept
    DEF OpenTool, OpenToolFails, DispatchTool, ToolSettles, ToolOutcomes,
        FinishTool, FinishToolRefused, FinishToolFails, FinishToolTo
  <2>6. ASSUME NEW r \in Runs, AppendError(r) \/ AppendErrorFails(r) PROVE JournalInv'
    <3>1. PICK p \in {"finishFailed", "settled"} : Goto(r, p)
      BY <2>6 DEF AppendError, AppendErrorFails
    <3>2. /\ pc[r] = "error" /\ UNCHANGED <<runStatus, runOp>>
          /\ Append1(r, "error") \/ (UNCHANGED records /\ p = "settled")
      BY <2>6, <3>1 DEF AppendError, AppendErrorFails, Goto, TypeOK, MemoryOK
    <3>3. CASE UNCHANGED records /\ p = "settled"
      BY <3>1, <3>2, <3>3, JournalKept
    <3>4. CASE Append1(r, "error")
      <4>1. Explained(r)'
        BY <3>2, <3>4, CleanAppend DEF JournalInv, JournalRow, RecordKinds
      <4>2. runStatus[r] = "running" \/ r \in faulted
        BY <3>2 DEF ThreadInv, Busy, Positions
      <4>3. pc'[r] = p
        BY <3>1 DEF Goto, TypeOK, MemoryOK
      <4>4. JournalRow(r)'
        BY <3>2, <4>1, <4>2, <4>3 DEF JournalRow
      <4>5. QED BY <3>1, <3>2, <3>4, <4>4, JournalMove DEF Append1, TypeOK, TablesOK
    <3>5. QED BY <3>2, <3>3, <3>4
  <2>7. ASSUME NEW r \in Runs, FinishRunRefused(r) PROVE JournalInv'
    BY <2>7, JournalKept DEF FinishRunRefused
  <2>8. ASSUME NEW r \in Runs, FinishRun(r) \/ FinishRunFails(r) PROVE JournalInv'
    <3>1. PICK p \in {"settled", "finishCancelled", "error"} :
            Goto(r, p) /\ (p # "settled" => pc[r] = "finish")
      BY <2>8 DEF FinishRun, FinishRunFails, CaughtAt
    <3>2. /\ pc[r] \in {"finish", "finishFailed", "finishCancelled"}
          /\ FinishRunTo(r, Outcome(pc[r])) \/ UNCHANGED durable
      BY <2>8 DEF FinishRun, FinishRunFails
    <3>3. CASE UNCHANGED durable
      BY <3>1, <3>2, <3>3, JournalKept
    <3>4. CASE FinishRunTo(r, Outcome(pc[r]))
      <4>1. /\ runStatus'[r] = Outcome(pc[r]) /\ UNCHANGED records /\ pc'[r] = p
            /\ \A q \in Runs \ {r} : runStatus'[q] = runStatus[q] /\ runOp'[q] = runOp[q]
        BY <3>1, <3>4 DEF FinishRunTo, Goto, TypeOK, TablesOK, MemoryOK
      <4>2. /\ pc[r] # "finishFailed" => Clean(r) /\ Outcome(pc[r]) # "failed"
            /\ pc[r] = "finishFailed" => Explained(r) /\ Outcome(pc[r]) = "failed"
        BY <3>2 DEF Outcome, JournalInv, JournalRow
      <4>3. JournalRow(r)'
        <5>1. Clean(r)' = Clean(r) /\ Explained(r)' = Explained(r)
          BY <4>1 DEF Clean, Explained
        <5>2. p # "finishFailed" /\ (p \in Journaling => pc[r] # "finishFailed")
          BY <3>1
        <5>3. QED BY <3>2, <4>1, <4>2, <5>1, <5>2, OutcomeType DEF JournalRow
      <4>4. QED BY <3>1, <4>1, <4>3, JournalMove
    <3>5. QED BY <3>2, <3>3, <3>4
  <2>9. ASSUME UNCHANGED <<records, runStatus, runOp>>,
               \A r \in Runs : pc'[r] \in {pc[r], "none"}
        PROVE  JournalInv'
    BY <2>9 DEF JournalInv, JournalRow, Clean, Explained
  <2>10. ASSUME NEW r \in Runs, CancelRun(r) PROVE JournalInv'
    BY <2>9, <2>10 DEF CancelRun
  <2>11. CASE Close \/ AbortAll \/ CloseDatabase \/ Crash \/ UNCHANGED vars
    BY <2>9, <2>11
    DEF Close, AbortAll, CloseDatabase, Crash, vars, memory,
        OpenAttemptUpTo, RecordTransformFailureUpTo, CloseAttemptUpTo
  <2>12. CASE Restart
    <3>1. ASSUME NEW r \in Runs PROVE JournalRow(r)'
      <4>1. JournalRow(r)
        BY DEF JournalInv
      <4>2. /\ records' = records /\ pc' = pc /\ UNCHANGED faulted
            /\ runStatus'[r] = IF runStatus[r] = "running" THEN "failed" ELSE runStatus[r]
            /\ runStatus[r] = "running" => runOp'[r] = "abandoned"
            /\ runStatus[r] = "failed" => runOp'[r] = runOp[r]
        BY <2>12 DEF Restart, RecoveredRun, Live, RunMirrorsOperation
      <4>3. QED BY <4>1, <4>2 DEF JournalRow, Clean, Explained
    <3>2. QED BY <3>1 DEF JournalInv
  <2>13. QED
    BY <2>1, <2>2, <2>3, <2>4, <2>5, <2>6, <2>7, <2>8, <2>10, <2>11, <2>12
    DEF Next, RunNext, Thread, Outside, Failure, ProcessNext
<1>3. QED BY <1>1, <1>2, TypeCorrect, RunMirrors, ThreadsAndRuns, PTL DEF Spec

\* The journal explains a failed run: its last record is the error, unless a
\* restart abandoned it; an error is always the last record, and a run that
\* completed or was cancelled has none, storage faults apart (#executeRun).
THEOREM FailuresAreRecorded == Spec => []FailureIsRecorded
<1>1. TypeOK /\ JournalInv => FailureIsRecorded
  BY DEF JournalInv, JournalRow, Clean, Explained, Errors, FailureIsRecorded
<1>2. QED BY <1>1, TypeCorrect, JournalsExplain, PTL
=============================================================================
