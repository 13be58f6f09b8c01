------------------------------- MODULE Kernel -------------------------------
(***************************************************************************)
(* The control plane of one daemon: run admission, the run / model / tool  *)
(* operations a driver opens inside a run, the model attempts and their    *)
(* trace artifacts, the records of a run, cancellation, orderly shutdown,  *)
(* crashes and the recovery a restart performs                             *)
(* (packages/core/src/runtime.ts, persistence.ts, domain.ts).              *)
(*                                                                         *)
(* The program is single threaded: code interleaves only where it awaits.  *)
(* Every write awaits a turn of the serialized writer, and a writer        *)
(* command runs to its end before any other code does.  So pc[r] names     *)
(* what the thread of run r awaits, and one action is what happens between *)
(* two awaits.  Some commands commit more than one SQLite transaction:     *)
(* those are written XxxUpTo(.., k), "the first k commits are durable", so *)
(* that a crash or a storage fault may fall between two commits.           *)
(*                                                                         *)
(* Abstractions: a driver is any sequential client of DriverContext (the   *)
(* policy of the demo driver is not fixed here); an attempt is named by    *)
(* its model operation (model_attempts.operation_id); the two artifact     *)
(* rows of an attempt, written by adjacent statements, are one value;      *)
(* texts, timestamps, provenance and the outbox rows are left out.         *)
(***************************************************************************)
EXTENDS Naturals, Sequences, FiniteSets

CONSTANTS
  Runs,        \* run ids
  Ops,         \* ids of model and tool operations
  NoRun,       \* "no run": the owner of an operation that does not exist
  NoOp,        \* "no operation"
  MaxRecords,  \* bound on the records of one run
  MaxCrashes,  \* bound on process crashes
  MaxFaults    \* bound on failing storage calls

ASSUME KernelAssumption ==
  /\ NoRun \notin Runs
  /\ NoOp \notin Ops
  /\ MaxRecords \in Nat /\ MaxCrashes \in Nat /\ MaxFaults \in Nat

VARIABLES
  \* SQLite: survives a crash
  runStatus,   \* runs.status
  runOp,       \* status of the operation of kind "run"
  opRun,       \* operations.run_id of model and tool operations
  opKind,      \* operations.kind
  opStatus,    \* operations.status
  attempt,     \* model_attempts.status, by operation
  art,         \* artifacts.status of the attempt's request and event traces
  records,     \* the kinds of a run's records, in order
  \* memory of the process
  proc,        \* where the Runtime object is in its life
  pc,          \* what the thread of a run awaits
  cur,         \* the operation that thread is working on
  ctl,         \* the run's AbortController
  \* history
  asked,       \* runs whose controller was ever aborted
  faulted,     \* runs that a storage fault has hit
  crashes,
  faults

opVars  == <<opRun, opKind, opStatus>>
durable == <<runStatus, runOp, opRun, opKind, opStatus, attempt, art, records>>
memory  == <<proc, pc, cur, ctl>>
history == <<asked, faulted, crashes, faults>>
vars    == <<durable, memory, history>>

RunStatuses == {"absent", "running", "completed", "failed", "cancelled"}
OpStatuses  == RunStatuses \cup {"abandoned"}
Terminal    == {"completed", "failed", "cancelled", "abandoned"}
RecordKinds == {"user", "content", "tool-result", "error"}

\* What a run's thread can be waiting for.  "driver" is the driver between two
\* calls of its context; the others name the queued command or external call.
Positions ==
  {"none", "admit", "admitted", "driver", "append",
   "model", "transform", "invoke", "provider",
   "modelDone", "modelFailed", "modelCancelled",
   "tool", "dispatch", "worker",
   "toolDone", "toolFailed", "toolCancelled", "result", "errorResult",
   "finish", "error", "finishFailed", "finishCancelled", "settled"}

Up == {"up", "closing", "draining"}

Aborted(r) == ctl[r] = "aborted"

\* An id no row and no thread has used: what ids.next(), a random UUID, returns.
Fresh(o) == opStatus[o] = "absent" /\ art[o] = "absent" /\ \A r \in Runs : cur[r] # o

TablesOK ==
  /\ runStatus \in [Runs -> RunStatuses]
  /\ runOp \in [Runs -> OpStatuses]
  /\ opRun \in [Ops -> Runs \cup {NoRun}]
  /\ opKind \in [Ops -> {"none", "model", "tool"}]
  /\ opStatus \in [Ops -> OpStatuses]
  /\ attempt \in [Ops -> OpStatuses]
  /\ art \in [Ops -> {"absent", "partial", "completed", "failed"}]
  /\ records \in [Runs -> Seq(RecordKinds)]

MemoryOK ==
  /\ proc \in Up \cup {"closed", "crashed"}
  /\ pc \in [Runs -> Positions]
  /\ cur \in [Runs -> Ops \cup {NoOp}]
  /\ ctl \in [Runs -> {"none", "live", "aborted"}]

HistoryOK ==
  /\ asked \subseteq Runs /\ faulted \subseteq Runs
  /\ crashes \in 0 .. MaxCrashes /\ faults \in 0 .. MaxFaults

TypeOK == TablesOK /\ MemoryOK /\ HistoryOK

Init ==
  /\ runStatus = [r \in Runs |-> "absent"]
  /\ runOp = [r \in Runs |-> "absent"]
  /\ opRun = [o \in Ops |-> NoRun]
  /\ opKind = [o \in Ops |-> "none"]
  /\ opStatus = [o \in Ops |-> "absent"]
  /\ attempt = [o \in Ops |-> "absent"]
  /\ art = [o \in Ops |-> "absent"]
  /\ records = [r \in Runs |-> <<>>]
  /\ proc = "up"
  /\ pc = [r \in Runs |-> "none"]
  /\ cur = [r \in Runs |-> NoOp]
  /\ ctl = [r \in Runs |-> "none"]
  /\ asked = {} /\ faulted = {} /\ crashes = 0 /\ faults = 0

-----------------------------------------------------------------------------
\* Moves of one thread.

Goto(r, p) == pc' = [pc EXCEPT ![r] = p]

\* Back in the driver: the call of the context has resolved or rejected.
ToDriver(r) ==
  /\ Goto(r, "driver")
  /\ cur' = [cur EXCEPT ![r] = NoOp]
  /\ UNCHANGED <<proc, ctl>>

Await(r, p) == Goto(r, p) /\ UNCHANGED <<proc, cur, ctl>>

\* A storage call of run r's thread fails: SQLite or the file system throws,
\* in the command or, its commits made, in the publication of its events.
Fault(r) ==
  /\ faults < MaxFaults
  /\ faults' = faults + 1
  /\ faulted' = faulted \cup {r}
  /\ UNCHANGED <<asked, crashes>>

\* The catch of #executeRun: `cancelled` is read once, before the error record.
\* (mutants: no error record; a cancelled run is not finished)
CaughtSilently(r) == IF Aborted(r) THEN "finishCancelled" ELSE "finishFailed"
CaughtAndDropped(r) == IF Aborted(r) THEN "settled" ELSE "error"
CaughtAt(r) == IF Aborted(r) THEN "finishCancelled" ELSE "error"

-----------------------------------------------------------------------------
\* Admission: startRun, #admitRun, #startRun.

StartRun(r) ==
  /\ proc = "up" /\ runStatus[r] = "absent" /\ pc[r] = "none"
  /\ Await(r, "admit")
  /\ UNCHANGED <<durable, history>>

\* One transaction: run, run operation, user record, provenance, two events.
CreateRun(r) ==
  /\ pc[r] = "admit"
  /\ runStatus' = [runStatus EXCEPT ![r] = "running"]
  /\ runOp' = [runOp EXCEPT ![r] = "running"]
  /\ records' = [records EXCEPT ![r] = <<"user">>]
  /\ Await(r, "admitted")
  /\ UNCHANGED <<opVars, attempt, art, history>>

CreateRunFails(r) ==
  /\ pc[r] = "admit" /\ Fault(r)
  /\ Await(r, "none")
  /\ UNCHANGED durable

\* After the await: register the controller and start #executeRun.
AdmitRun(r) ==
  /\ pc[r] = "admitted"
  /\ ctl' = [ctl EXCEPT ![r] = "live"]
  /\ Goto(r, "driver")
  /\ UNCHANGED <<durable, proc, cur, history>>

CancelRun(r) ==
  /\ proc \in Up /\ ctl[r] = "live"
  /\ ctl' = [ctl EXCEPT ![r] = "aborted"]
  /\ asked' = asked \cup {r}
  /\ UNCHANGED <<durable, proc, pc, cur, faulted, crashes, faults>>

-----------------------------------------------------------------------------
\* The driver.  Each call of the context checks the signal before it queues
\* its writer command; with an aborted signal it rejects and nothing changes.

CallModel(r, o) ==
  /\ pc[r] = "driver" /\ ~Aborted(r) /\ Fresh(o)
  /\ \E p \in {"model", "transform"} : Goto(r, p)   \* a transform may throw
  /\ cur' = [cur EXCEPT ![r] = o]
  /\ UNCHANGED <<durable, proc, ctl, history>>

CallTool(r, o) ==
  /\ pc[r] = "driver" /\ ~Aborted(r) /\ Fresh(o)
  /\ Goto(r, "tool")
  /\ cur' = [cur EXCEPT ![r] = o]
  /\ UNCHANGED <<durable, proc, ctl, history>>

CallAppend(r) ==
  /\ pc[r] = "driver" /\ ~Aborted(r) /\ Len(records[r]) < MaxRecords
  /\ Await(r, "append")
  /\ UNCHANGED <<durable, history>>

DriverReturns(r) ==
  /\ pc[r] = "driver"
  /\ Await(r, IF Aborted(r) THEN "finishCancelled" ELSE "finish")
  /\ UNCHANGED <<durable, history>>

DriverThrows(r) ==
  /\ pc[r] = "driver"
  /\ Await(r, CaughtAt(r))
  /\ UNCHANGED <<durable, history>>

-----------------------------------------------------------------------------
\* Records.

Append1(r, kind) == records' = [records EXCEPT ![r] = Append(@, kind)]

\* #append with a signal checks it again inside the writer command.
Unchecked(r) == FALSE                          \* mutant: the check is missing
AppendRejected(r) == Aborted(r)

AppendContent(r) ==
  /\ pc[r] = "append"
  /\ IF AppendRejected(r) THEN UNCHANGED records ELSE Append1(r, "content")
  /\ ToDriver(r)
  /\ UNCHANGED <<runStatus, runOp, opVars, attempt, art, history>>

AppendContentFails(r) ==
  /\ pc[r] = "append" /\ ~AppendRejected(r) /\ Fault(r)
  /\ Append1(r, "content") \/ UNCHANGED records
  /\ ToDriver(r)
  /\ UNCHANGED <<runStatus, runOp, opVars, attempt, art>>

-----------------------------------------------------------------------------
\* Operations and model attempts: #invokeModel.

CreateOperation(r, kind, status) ==
  /\ opRun' = [opRun EXCEPT ![cur[r]] = r]
  /\ opKind' = [opKind EXCEPT ![cur[r]] = kind]
  /\ opStatus' = [opStatus EXCEPT ![cur[r]] = status]

\* The command that opens an attempt commits the partial artifact rows, then
\* the operation with its event, then the attempt.
OpenAttemptUpTo(r, k) ==
  /\ art' = IF k >= 1 THEN [art EXCEPT ![cur[r]] = "partial"] ELSE art
  /\ IF k >= 2 THEN CreateOperation(r, "model", "running") ELSE UNCHANGED opVars
  /\ attempt' = IF k >= 3 THEN [attempt EXCEPT ![cur[r]] = "running"] ELSE attempt
  /\ UNCHANGED <<runStatus, runOp, records>>

OpenAttempt(r) ==
  /\ pc[r] = "model"
  /\ OpenAttemptUpTo(r, 3)
  /\ Await(r, "invoke")
  /\ UNCHANGED history

OpenAttemptFails(r) ==
  /\ pc[r] = "model" /\ Fault(r)
  /\ \E k \in 0 .. 3 : OpenAttemptUpTo(r, k)
  /\ ToDriver(r)

\* A context transform threw: one command opens the attempt without artifacts
\* and closes it as failed, in four commits.
RecordTransformFailureUpTo(r, k) ==
  /\ IF k >= 1 THEN CreateOperation(r, "model", IF k >= 4 THEN "failed" ELSE "running")
               ELSE UNCHANGED opVars
  /\ attempt' = IF k >= 2 THEN [attempt EXCEPT ![cur[r]] = IF k >= 3 THEN "failed" ELSE "running"]
                          ELSE attempt
  /\ UNCHANGED <<runStatus, runOp, art, records>>

RecordTransformFailure(r) ==
  /\ pc[r] = "transform"
  /\ RecordTransformFailureUpTo(r, 4)
  /\ ToDriver(r)
  /\ UNCHANGED history

RecordTransformFailureFails(r) ==
  /\ pc[r] = "transform" /\ Fault(r)
  /\ \E k \in 0 .. 4 : RecordTransformFailureUpTo(r, k)
  /\ ToDriver(r)

\* The signal is checked between the commit and the call of the provider.
InvokeProvider(r) ==
  /\ pc[r] = "invoke"
  /\ Await(r, IF Aborted(r) THEN "modelCancelled" ELSE "provider")
  /\ UNCHANGED <<durable, history>>

\* The provider answers or fails; after an abort the attempt counts as
\* cancelled whichever it did.  The trace files are closed here.
ProviderSettles(r) ==
  /\ pc[r] = "provider"
  /\ \E p \in IF Aborted(r) THEN {"modelCancelled"} ELSE {"modelDone", "modelFailed"} : Await(r, p)
  /\ UNCHANGED <<durable, history>>

\* Closing the second trace file fails, and the handler then throws when it
\* closes the first one again: invokeModel rejects with nothing written.
FinalizeFails(r) ==
  /\ \/ pc[r] = "provider"
     \/ pc[r] = "invoke" /\ Aborted(r)
  /\ Fault(r)
  /\ ToDriver(r)
  /\ UNCHANGED durable

\* The order in which the closing command commits: artifacts, then the
\* attempt, then the operation with its event.
CloseOrderArtifactsLate == [art |-> 2, attempt |-> 1, op |-> 3]        \* mutant
CloseOrder == [art |-> 1, attempt |-> 2, op |-> 3]

CloseAttemptUpTo(r, status, k) ==
  /\ art' = IF k >= CloseOrder.art
            THEN [art EXCEPT ![cur[r]] = IF status = "completed" THEN "completed" ELSE "failed"]
            ELSE art
  /\ attempt' = IF k >= CloseOrder.attempt THEN [attempt EXCEPT ![cur[r]] = status] ELSE attempt
  /\ opStatus' = IF k >= CloseOrder.op THEN [opStatus EXCEPT ![cur[r]] = status] ELSE opStatus
  /\ UNCHANGED <<runStatus, runOp, opRun, opKind, records>>

\* assertOperationTransition, from "running": nothing leaves a terminal status.
AnyStatus(status) == TRUE                      \* mutant: the table is not consulted
CanEnd(status) == status = "running"

\* The outcome a queued command has already decided.
\* (mutant: a failing provider counts as a cancelled one)
ConfusedOutcome(p) ==
  CASE p \in {"modelDone", "toolDone", "finish"} -> "completed"
    [] p \in {"modelCancelled", "modelFailed", "toolCancelled", "finishCancelled"} -> "cancelled"
    [] OTHER -> "failed"
Outcome(p) ==
  CASE p \in {"modelDone", "toolDone", "finish"} -> "completed"
    [] p \in {"modelCancelled", "toolCancelled", "finishCancelled"} -> "cancelled"
    [] OTHER -> "failed"

CloseAttempt(r) ==
  /\ pc[r] \in {"modelDone", "modelFailed", "modelCancelled"}
  /\ CloseAttemptUpTo(r, Outcome(pc[r]), 3)
  /\ ToDriver(r)
  /\ UNCHANGED history

\* The command fails part way.  The success path enters the handler, which
\* throws on the closed trace files before it writes; the others just reject.
CloseAttemptFails(r) ==
  /\ pc[r] \in {"modelDone", "modelFailed", "modelCancelled"} /\ Fault(r)
  /\ \E k \in 0 .. 3 : CloseAttemptUpTo(r, Outcome(pc[r]), k)
  /\ ToDriver(r)

-----------------------------------------------------------------------------
\* Tools: #dispatchTool, #finishTool.

\* The command checks the signal; then one transaction opens the operation.
OpenTool(r) ==
  /\ pc[r] = "tool"
  /\ \/ Aborted(r) /\ ToDriver(r) /\ UNCHANGED durable
     \/ /\ ~Aborted(r)
        /\ CreateOperation(r, "tool", "running")
        /\ Await(r, "dispatch")
        /\ UNCHANGED <<runStatus, runOp, attempt, art, records>>
  /\ UNCHANGED history

OpenToolFails(r) ==
  /\ pc[r] = "tool" /\ ~Aborted(r) /\ Fault(r)
  /\ CreateOperation(r, "tool", "running") \/ UNCHANGED opVars
  /\ ToDriver(r)
  /\ UNCHANGED <<runStatus, runOp, attempt, art, records>>

\* What a settled dispatch leads to, once its signal has been looked at.
ToolOutcomes(r) == IF Aborted(r) THEN {"toolCancelled"} ELSE {"toolDone", "toolFailed"}

\* tools.dispatch awaits the middleware, which may answer or refuse in place of
\* the tool; else the tool starts.  Nothing looks at the signal before it does.
DispatchTool(r) ==
  /\ pc[r] = "dispatch"
  /\ \E p \in ToolOutcomes(r) \cup {"worker"} : Await(r, p)
  /\ UNCHANGED <<durable, history>>

\* (mutant: an aborted dispatch rejects without closing its operation)
ToolSettlesEarly(r) ==
  /\ pc[r] = "worker"
  /\ IF Aborted(r) THEN ToDriver(r) ELSE \E p \in ToolOutcomes(r) : Await(r, p)
  /\ UNCHANGED <<durable, history>>

\* The tool returns (and its output is accepted) or something in that throws.
ToolSettles(r) ==
  /\ pc[r] = "worker"
  /\ \E p \in ToolOutcomes(r) : Await(r, p)
  /\ UNCHANGED <<durable, history>>

\* One transaction closes the operation, if it is still open.
FinishToolTo(r, status) ==
  /\ CanEnd(opStatus[cur[r]])
  /\ opStatus' = [opStatus EXCEPT ![cur[r]] = status]
  /\ UNCHANGED <<runStatus, runOp, opRun, opKind, attempt, art, records>>

\* The result record is appended only while the signal is not aborted.
FinishTool(r) ==
  /\ pc[r] \in {"toolDone", "toolFailed", "toolCancelled"}
  /\ FinishToolTo(r, Outcome(pc[r]))
  /\ IF Aborted(r) THEN ToDriver(r)
     ELSE Await(r, IF pc[r] = "toolDone" THEN "result" ELSE "errorResult")
  /\ UNCHANGED history

\* The transition is refused: the handler's own command throws, dispatch rejects.
FinishToolRefused(r) ==
  /\ pc[r] \in {"toolFailed", "toolCancelled"} /\ ~CanEnd(opStatus[cur[r]])
  /\ ToDriver(r)
  /\ UNCHANGED <<durable, history>>

\* A failing success command, even one whose transaction has committed, is
\* tried once more as a failed (or cancelled) one.
FinishToolFails(r) ==
  /\ pc[r] \in {"toolDone", "toolFailed", "toolCancelled"} /\ Fault(r)
  /\ FinishToolTo(r, Outcome(pc[r])) \/ UNCHANGED durable
  /\ IF pc[r] = "toolDone"
     THEN Await(r, IF Aborted(r) THEN "toolCancelled" ELSE "toolFailed")
     ELSE ToDriver(r)

AppendResult(r) ==
  /\ pc[r] \in {"result", "errorResult"}
  /\ IF AppendRejected(r) THEN UNCHANGED records ELSE Append1(r, "tool-result")
  /\ ToDriver(r)
  /\ UNCHANGED <<runStatus, runOp, opVars, attempt, art, history>>

\* A failed append of a result is followed by the append of an error result,
\* whether or not the first one is durable.
AppendResultFails(r) ==
  /\ pc[r] \in {"result", "errorResult"} /\ ~AppendRejected(r) /\ Fault(r)
  /\ Append1(r, "tool-result") \/ UNCHANGED records
  /\ IF pc[r] = "result" /\ ~Aborted(r) THEN Await(r, "errorResult") ELSE ToDriver(r)
  /\ UNCHANGED <<runStatus, runOp, opVars, attempt, art>>

-----------------------------------------------------------------------------
\* The end of a run: #executeRun after the driver, #finishRun.

\* Appended without a signal: a cancel that arrives now comes too late.
AppendError(r) ==
  /\ pc[r] = "error"
  /\ Append1(r, "error")
  /\ Await(r, "finishFailed")
  /\ UNCHANGED <<runStatus, runOp, opVars, attempt, art, history>>

\* One transaction: run operation, if still open, run, event.
FinishRunTo(r, status) ==
  /\ CanEnd(runOp[r])
  /\ runOp' = [runOp EXCEPT ![r] = status]
  /\ runStatus' = [runStatus EXCEPT ![r] = status]
  /\ UNCHANGED <<opVars, attempt, art, records>>

FinishRun(r) ==
  /\ pc[r] \in {"finish", "finishFailed", "finishCancelled"}
  /\ FinishRunTo(r, Outcome(pc[r]))
  /\ Await(r, "settled")
  /\ UNCHANGED history

FinishRunRefused(r) ==
  /\ pc[r] \in {"finishFailed", "finishCancelled"} /\ ~CanEnd(runOp[r])
  /\ Await(r, "settled")
  /\ UNCHANGED <<durable, history>>

\* finishRun(completed) stands inside the try: its failure is caught as the
\* driver's would be, even after the commit.  A failure inside the catch
\* leaves #executeRun.
FinishRunFails(r) ==
  /\ pc[r] \in {"finish", "finishFailed", "finishCancelled"} /\ Fault(r)
  /\ FinishRunTo(r, Outcome(pc[r])) \/ UNCHANGED durable
  /\ Await(r, IF pc[r] = "finish" THEN CaughtAt(r) ELSE "settled")

AppendErrorFails(r) ==
  /\ pc[r] = "error" /\ Fault(r)
  /\ Append1(r, "error") \/ UNCHANGED records
  /\ Await(r, "settled")
  /\ UNCHANGED <<runStatus, runOp, opVars, attempt, art>>

\* finally: the controller is forgotten.
Settle(r) ==
  /\ pc[r] = "settled"
  /\ Goto(r, "none")
  /\ ctl' = [ctl EXCEPT ![r] = "none"]
  /\ UNCHANGED <<durable, proc, cur, history>>

-----------------------------------------------------------------------------
\* The process: close, crash, restart.

Close ==
  /\ proc = "up"
  /\ proc' = "closing"
  /\ UNCHANGED <<durable, pc, cur, ctl, history>>

\* All pending admissions have settled: each has registered its controller.
NoWait == TRUE                                 \* mutant: admissions not awaited
AdmissionsSettled == \A r \in Runs : pc[r] \notin {"admit", "admitted"}

NobodyAborted == [r \in Runs |-> ctl[r]]       \* mutant: controllers not aborted
AllAborted == [r \in Runs |-> IF ctl[r] = "live" THEN "aborted" ELSE ctl[r]]

AbortAll ==
  /\ proc = "closing" /\ AdmissionsSettled
  /\ proc' = "draining"
  /\ ctl' = AllAborted
  /\ asked' = asked \cup {r \in Runs : ctl'[r] = "aborted"}
  /\ UNCHANGED <<durable, pc, cur, faulted, crashes, faults>>

\* The completions of the runs registered by then have settled; the database
\* closes and drops its lock.
CloseDatabase ==
  /\ proc = "draining"
  /\ \A r \in Runs : pc[r] \in {"none", "admit", "admitted"}
  /\ proc' = "closed"
  /\ UNCHANGED <<durable, pc, cur, ctl, history>>

\* The process dies, perhaps between two commits of the command it was in.
Crash ==
  /\ proc \in Up /\ crashes < MaxCrashes
  /\ \/ UNCHANGED durable
     \/ \E r \in Runs :
          \/ pc[r] = "model" /\ \E k \in 1 .. 2 : OpenAttemptUpTo(r, k)
          \/ pc[r] = "transform" /\ \E k \in 1 .. 3 : RecordTransformFailureUpTo(r, k)
          \/ /\ pc[r] \in {"modelDone", "modelFailed", "modelCancelled"}
             /\ \E k \in 1 .. 2 : CloseAttemptUpTo(r, Outcome(pc[r]), k)
  /\ proc' = "crashed"
  /\ pc' = [r \in Runs |-> "none"]
  /\ cur' = [r \in Runs |-> NoOp]
  /\ ctl' = [r \in Runs |-> "none"]
  /\ crashes' = crashes + 1
  /\ UNCHANGED <<asked, faulted, faults>>

\* recoverAbandoned, one transaction in the constructor of the next Runtime:
\* every live operation is abandoned, and with it its running attempt and, for
\* a run operation, its running run.
Live(status) == status = "running"

Abandon(f, o) == IF f[o] = "running" THEN "abandoned" ELSE f[o]

RecoveredAttempt(o) == IF Live(opStatus[o]) THEN Abandon(attempt, o) ELSE attempt[o]
RecoveredRun(r) ==
  IF Live(runOp[r]) /\ runStatus[r] = "running" THEN "failed" ELSE runStatus[r]

Restart ==
  /\ proc \in {"closed", "crashed"}
  /\ opStatus' = [o \in Ops |-> IF Live(opStatus[o]) THEN "abandoned" ELSE opStatus[o]]
  /\ attempt' = [o \in Ops |-> RecoveredAttempt(o)]
  /\ runOp' = [r \in Runs |-> IF Live(runOp[r]) THEN "abandoned" ELSE runOp[r]]
  /\ runStatus' = [r \in Runs |-> RecoveredRun(r)]
  /\ proc' = "up"
  /\ UNCHANGED <<opRun, opKind, art, records, pc, cur, ctl, history>>

-----------------------------------------------------------------------------

Driver(r) ==
  \/ \E o \in Ops : CallModel(r, o) \/ CallTool(r, o)
  \/ CallAppend(r) \/ DriverReturns(r) \/ DriverThrows(r)

\* Turns of the event loop that nothing outside the process can hold up.
Thread(r) ==
  \/ CreateRun(r) \/ AdmitRun(r) \/ AppendContent(r)
  \/ OpenAttempt(r) \/ RecordTransformFailure(r) \/ InvokeProvider(r) \/ CloseAttempt(r)
  \/ OpenTool(r) \/ FinishTool(r) \/ FinishToolRefused(r)
  \/ AppendResult(r) \/ AppendError(r) \/ FinishRun(r) \/ FinishRunRefused(r) \/ Settle(r)

Outside(r) == DispatchTool(r) \/ ProviderSettles(r) \/ ToolSettles(r)

Failure(r) ==
  \/ CreateRunFails(r) \/ AppendContentFails(r)
  \/ OpenAttemptFails(r) \/ RecordTransformFailureFails(r) \/ FinalizeFails(r)
  \/ CloseAttemptFails(r) \/ OpenToolFails(r) \/ FinishToolFails(r)
  \/ AppendResultFails(r) \/ AppendErrorFails(r) \/ FinishRunFails(r)

RunNext(r) == StartRun(r) \/ CancelRun(r) \/ Driver(r) \/ Thread(r) \/ Outside(r) \/ Failure(r)

ProcessNext == Close \/ AbortAll \/ CloseDatabase \/ Crash \/ Restart

Next == (\E r \in Runs : RunNext(r)) \/ ProcessNext

Spec == Init /\ [][Next]_vars

\* The event loop turns; a provider or tool that was told to stop does so (the
\* contract of AbortSignal), while one that was not may take for ever; a driver
\* whose context only rejects gives up; a shutdown proceeds; a daemon that
\* stopped is started again.
Stopping(r) == Aborted(r) /\ (Outside(r) \/ DriverReturns(r) \/ DriverThrows(r))

Fairness ==
  /\ \A r \in Runs : WF_vars(Thread(r)) /\ WF_vars(Stopping(r))
  /\ WF_vars(AbortAll) /\ WF_vars(CloseDatabase) /\ WF_vars(Restart)

FairSpec == Spec /\ Fairness

-----------------------------------------------------------------------------
\* Safety.

\* finishRun and recoverAbandoned keep the run row and the row of its run
\* operation in step, at every instant a crash could expose.
RunMirrorsOperation ==
  \A r \in Runs :
    /\ runStatus[r] # "failed" => runOp[r] = runStatus[r]
    /\ runStatus[r] = "failed" => runOp[r] \in {"failed", "abandoned"}

\* An operation still marked running belongs to a run still marked running:
\* whatever ended the run - its driver, a cancel, a shutdown, a recovery -
\* ended its operations first.  Only a storage fault in that run excuses it.
NoOrphanOperation ==
  \A o \in Ops :
    opStatus[o] = "running" =>
      runStatus[opRun[o]] = "running" \/ opRun[o] \in faulted

\* An attempt is never ahead of or behind its operation except inside one
\* closing command: a running attempt has a running operation, and a model
\* operation that ended other than by recovery ended as its attempt did.
AttemptFollowsOperation ==
  \A o \in Ops :
    /\ attempt[o] = "running" => opStatus[o] = "running"
    /\ attempt[o] # "absent" => opKind[o] = "model"
    /\ opKind[o] = "model" /\ opStatus[o] \in {"completed", "failed", "cancelled"}
         => attempt[o] = opStatus[o]

\* An attempt that claims an outcome has its traces: completed with complete
\* artifacts, failed or cancelled with closed ones (none if a transform threw).
OutcomeHasTrace ==
  \A o \in Ops :
    /\ attempt[o] = "completed" => art[o] = "completed"
    /\ attempt[o] \in {"failed", "cancelled"} => art[o] \in {"failed", "absent"}

\* The journal explains a failed run: its last record is the error, unless a
\* restart abandoned it or a storage fault hit it; an error is always the last
\* record, and a run that completed or was cancelled has none.
FailureIsRecorded ==
  \A r \in Runs :
    LET n == Len(records[r])
        errors == {i \in 1 .. n : records[r][i] = "error"} IN
    /\ errors \subseteq {n}
    /\ runStatus[r] \in {"completed", "cancelled"} => errors = {} \/ r \in faulted
    /\ runStatus[r] = "failed" => errors = {n} \/ runOp[r] = "abandoned"

\* close() leaves no run behind: admissions under way are let in, aborted and
\* finished before the database closes.
CloseDrains ==
  proc = "closed" => \A r \in Runs : runStatus[r] = "running" => r \in faulted

\* Work is marked cancelled only if somebody cancelled its run.
CancelledOnlyIfAsked ==
  /\ \A r \in Runs : runStatus[r] = "cancelled" => r \in asked
  /\ \A o \in Ops : "cancelled" \in {opStatus[o], attempt[o]} => opRun[o] \in asked

\* A terminal operation, attempt or run never changes again; neither do the
\* records of a terminal run, and no operation joins it.
HistoryIsFinal ==
  [][/\ \A o \in Ops : opStatus[o] \in Terminal => opStatus'[o] = opStatus[o]
     /\ \A o \in Ops : attempt[o] \in Terminal => attempt'[o] = attempt[o]
     /\ \A r \in Runs : runStatus[r] \in Terminal =>
          /\ runStatus'[r] = runStatus[r]
          /\ records'[r] = records[r] \/ r \in faulted
          /\ \A o \in Ops : opRun'[o] = r => opRun[o] = r]_vars

\* Once a cancel is accepted the run's provider is not called again, no tool
\* operation is opened and nothing but the error record joins the journal.
NoContinuationAfterCancel ==
  [][\A r \in Runs : Aborted(r) =>
       /\ pc[r] # "provider" => pc'[r] # "provider"
       /\ \A o \in Ops : opKind[o] = "none" /\ opRun'[o] = r => opKind'[o] = "model"
       /\ records'[r] \in {records[r], Append(records[r], "error")}]_vars

\* The stronger reading of "Cancellation forbids further model or tool
\* continuation": no tool is started after a cancel either.
NoToolStartAfterCancel ==
  [][\A r \in Runs : pc[r] = "dispatch" /\ pc'[r] = "worker" => ~Aborted(r)]_vars

\* The inductive invariant behind these properties, in parts.

ModelOpen == {"invoke", "provider", "modelDone", "modelFailed", "modelCancelled"}
ToolOpen  == {"dispatch", "worker", "toolDone", "toolFailed", "toolCancelled"}
Unopened  == {"model", "transform", "tool"}     \* the id is drawn, no row yet
Busy      == Positions \ {"none", "admit", "settled"}

\* A thread at work works on a running run - except the handler of a run whose
\* completion was committed and then failed to be published - and a running run
\* has a thread at work, unless a crash or a storage fault took it.
ThreadInv ==
  \A r \in Runs :
    /\ pc[r] = "admit" => runStatus[r] = "absent"
    /\ pc[r] = "settled" => runStatus[r] # "absent"
    /\ pc[r] \in Busy =>
         \/ runStatus[r] = "running"
         \/ /\ pc[r] \in {"error", "finishFailed", "finishCancelled"}
            /\ runStatus[r] = "completed" /\ r \in faulted
    /\ runStatus[r] = "running" => pc[r] \in Busy \/ r \in faulted \/ proc = "crashed"
    /\ proc \in {"draining", "closed"} => pc[r] \notin {"admit", "admitted"}
    /\ proc \notin Up => pc[r] = "none"

\* Operations belong to runs, no two threads share one, and a running operation
\* is the one its run's thread has open, unless a crash or a fault stranded it.
OperationRow(o) ==
  /\ opStatus[o] = "absent" <=> opRun[o] = NoRun
  /\ opStatus[o] = "absent" <=> opKind[o] = "none"
  /\ opRun[o] # NoRun => runStatus[opRun[o]] # "absent"
  /\ opStatus[o] = "running" =>
       \/ opRun[o] \in faulted
       \/ (cur[opRun[o]] = o /\ pc[opRun[o]] \in ModelOpen \cup ToolOpen)
       \/ (proc = "crashed" /\ runStatus[opRun[o]] = "running")

OperationThread(r) ==
  /\ pc[r] \in Unopened => cur[r] # NoOp /\ opStatus[cur[r]] = "absent"
  /\ pc[r] \in ModelOpen \cup ToolOpen =>
       /\ cur[r] # NoOp /\ opRun[cur[r]] = r
       /\ opKind[cur[r]] = IF pc[r] \in ModelOpen THEN "model" ELSE "tool"
       /\ opStatus[cur[r]] = "running" \/ (pc[r] \in ToolOpen /\ r \in faulted)

OperationInv ==
  /\ \A o \in Ops : OperationRow(o)
  /\ \A r \in Runs : OperationThread(r)
  /\ \A r, q \in Runs : r # q => cur[r] = NoOp \/ cur[r] # cur[q]

\* An attempt and its artifacts are where the thread that has them open left them.
AttemptInv ==
  /\ \A o \in Ops : opStatus[o] = "absent" => attempt[o] = "absent"
  /\ \A r \in Runs :
       /\ pc[r] \in Unopened => art[cur[r]] = "absent"
       /\ pc[r] \in ModelOpen => attempt[cur[r]] = "running" /\ art[cur[r]] = "partial"

\* A cancelled outcome is decided only after a request.
AskedInv ==
  \A r \in Runs :
    Aborted(r) \/ pc[r] \in {"modelCancelled", "toolCancelled", "finishCancelled"} => r \in asked

IInv ==
  /\ TypeOK /\ RunMirrorsOperation /\ ThreadInv /\ OperationInv
  /\ AskedInv /\ CancelledOnlyIfAsked
  /\ AttemptInv /\ AttemptFollowsOperation /\ OutcomeHasTrace

\* The tables, seen from outside, behave as the abstract ledger does.
Ledger == INSTANCE RunLedger WITH
  run <- runStatus, op <- opStatus, owner <- opRun, asked <- asked, stuck <- faulted
ImplementsLedger == Ledger!Spec

\* Liveness.

\* A run whose cancel was accepted leaves the running state, unless a storage
\* fault strands it.
CancelEndsRun ==
  \A r \in Runs : Aborted(r) ~> (runStatus[r] # "running" \/ r \in faulted)

\* A shutdown ends, whatever the runs were doing.
CloseTerminates == proc = "closing" ~> proc \in {"closed", "crashed"}

=============================================================================
