# Verification of the customizable agent runtime

TLA+ models of the control plane in `packages/core`, of the process-isolated
worker and the driver in `packages/defaults`, of plugins as `packages/plugin-mcp`
makes them, and of the daemon and its web client in `apps/daemon`, checked with TLC
on small instances, and theorems about them checked with TLAPS for every value of
the constants. `PROJECT.json` maps every definition to the lines it
models and lists runs, mutants, hazards, findings and theorems.

## The system

One Node process (the daemon, or a program that embeds the runtime) owns one
SQLite database. It is single threaded: code interleaves only where it awaits.
All writes go through `SerializedWriter`, whose commands run one at a time, each
to its end; a command holds one or more `BEGIN IMMEDIATE` transactions.

| Component | State | Operations | Interacts with |
| --- | --- | --- | --- |
| Run kernel (`runtime.ts`, `persistence.ts`, `domain.ts`) | rows of runs, operations, model attempts, trace artifacts, records; an `AbortController` and a promise per run; pending admissions | `createSession`, `startRun`, `cancelRun`, `close`; for a driver `invokeModel`, `dispatch`, `append`, `recordRetryDecision`; recovery at start | calls driver, provider, tool dispatcher; commits events with its rows |
| Outbox (`#publishPending`, `pendingEvents`, `markPublished`) | outbox rows, `published_at`, listeners | commit, publish, subscribe, unsubscribe | called after every command; calls listeners synchronously |
| Writer lock (`storage.ts`) | the lock file, its owner and pid | acquire, reclaim, release | other processes, through the file system |
| Storage (`storage.ts`) | writer queue, transaction, schema version | `run`, `transaction`, migrations | used by everything that writes |
| Review workflows (`review-workflows.ts`) | workflow row (head, revision), plan revisions, evidence, stage results | `create`, `appendEvidence`, `completeStage`, `updateHead`; derived stage states and merge readiness | daemon routes; a provider that amends the plan |
| Tool dispatcher (`tool-dispatcher.ts`) | none | middleware chain, validation, `execute` | kernel, tools, workers |
| Isolated worker (`isolated-worker.ts`, `-host.ts`) | child process, lease, pending requests, renewals | `execute`, `reconcile`, `close`; JSON lines both ways, timers, exit events | tools; contains the local worker |
| Local worker (`local-worker.ts`) | the workspace's files | ten request types | file system, `rg`, `git`, `sh` |
| Artifacts (`artifacts.ts`) | partial and final files, staged ingress files | create, append, finalize, abort, ingest | kernel, worker |
| Default driver and composition (`defaults/src/index.ts`) | attempt and retry counters, call fingerprints | `run`, backoff, `createDefaultRuntime` | kernel |
| Plugin host, MCP plugin, Gitea plugin | plugin states, staged registrations, MCP connection generation | initialise, inspect, close; connect, call, reconnect | composition of the runtime |
| Context projector, usage, provenance, redaction, providers, SSE | none or per call | pure transformations, one HTTP exchange | kernel |
| Daemon and web client (`apps/daemon`) | HTTP server, shutdown state | routes, static page | all of the above |

What is hard to test here:

* a cancel, a close or a crash between any two awaits or commits of a run;
* the several transactions of one command, each of which may fail;
* recovery from every prefix of those transactions;
* redelivery of events after a listener, an UPDATE or the process failed;
* processes that start together, die between two system calls, and reuse pids;
* clients that retry over lost answers while others move the workflow;
* results stored long ago that a changed plan or head selects again or not;
* a child process that dies, is replaced or renewed while requests wait for it;
* plugins that fail in the middle of their set-up, start or stop, and signals that
  come while requests, runs and their calls are under way;
* files that are renamed and rows that name them, with a fault or a crash between;
* a page whose handlers share one state and get their answers in any order.

What makes each component correct is stated by its properties below.

## Modules

| Module | What it is |
| --- | --- |
| `RunLedger` | what the kernel promises: runs and operations start, end once, and are cancelled only when asked |
| `Kernel` | the run kernel, one action per await-to-await step |
| `MCKernel` | `Kernel` with symmetry |
| `KernelProofs` | theorems about `Kernel`: its inductive invariant, its action properties, its journals and the refinement of `RunLedger` |
| `Delivery` | what the outbox promises its subscribers |
| `Outbox`, `MCOutbox` | the outbox |
| `WriterLock`, `MCWriterLock` | the lock file, one action per system call |
| `StoreProofs` | theorems about `WriterLock` and `Outbox`, and the refinement of `Delivery` |
| `ReviewWorkflow`, `MCReviewWorkflow` | one review workflow |
| `ReviewClients`, `MCReviewClients` | `ReviewWorkflow` behind a network, with clients that retry |
| `ReviewProofs` | theorems about both |
| `IsolatedWorker`, `WorkerProofs` | parent and child processes of the isolated worker |
| `AgentLoop`, `MCAgentLoop`, `AgentLoopProofs` | the default driver over a session's journal, and the context projected from it |
| `Artifacts`, `MCArtifacts`, `ArtifactsProofs` | the files behind traces and tool outputs, and the rows that name them |
| `PluginHost` | set-up, start and stop of plugins, and what an MCP plugin does in each |
| `Daemon`, `MCDaemon`, `DaemonProofs` | `PluginHost` within the daemon: boot, requests, runs, signals, shutdown; theorems about both |
| `WebClient`, `MCWebClient` | the sessions and runs of the web page, with the daemon and another client |
| `WebProofs` | theorems about `WebClient` |

### Kernel

Durable variables are columns (`runStatus` is `runs.status`, `opStatus` is
`operations.status`, `attempt` is `model_attempts.status`, `art` the status of an
attempt's two artifact rows, `records` the kinds of a run's records). Memory is
`proc` (the life of the `Runtime` object), `pc[r]` (what the thread of run `r`
awaits), `cur[r]` (the operation it has open) and `ctl[r]` (its
`AbortController`). `asked` and `faulted` are history. A command with several
commits is written `XxxUpTo(.., k)`: the first `k` commits are durable; the normal
action takes all of them, `XxxFails` and `Crash` take a prefix. The driver is any
sequential client of `DriverContext`: it may call, return or throw at any time,
which includes the default driver whatever its retry policy is.

`RunLedger` has neither threads nor commits. `ImplementsLedger` maps the tables
to it; the runs a storage fault has stranded are its `stuck`.

### Outbox

Rows are numbered by sequence. `#publishPending` has no await, yet every call of a
listener and every `UPDATE` is a step of its own, so that an exception or the end
of the process can cut it short; the other actions wait (`Idle`). `due` counts the
commands that are committed and have still to publish. A listener accepts, throws,
unsubscribes or subscribes another in its callback (`SubscribeWithin`): the
publication that starts then is nested in the one under way, which is kept in
`outer` and goes on with the rows it had read; if no row is left to publish (all are
marked), it returns at once. Each listener's `stream` starts when it subscribes. When the
last listener leaves in its callback, the loop goes on and marks rows that nobody gets; the
history variable `deserted` says that this has happened. `ReachedUnlessDeserted` (a part of
`OutboxInv`) says that until then every marked row was sent to somebody; without the
exception, `PublishedWasReached` is what ADR 0002 promises and is violated (finding 4 below).

`Delivery` knows no publications, callbacks, batches or bounds: events, which of them
are marked, subscribers, and what each has `had`. `ImplementsDelivery` maps the outbox to
it: `had` is what a listener's stream holds and what was marked before it came. An event
may be delivered only when all before it are marked, as often as it takes, and be marked
only when all subscribers have it; nobody else may decide that. Marking begins when there
is a subscriber (`publishing`), and may go on when the last one has left.

### WriterLock

A process is one incarnation with its random owner id. `Create` is `openSync(.., "wx")`,
`Write` the `writeFileSync` after it, `Read` reads the file and asks `kill(pid, 0)`,
`Unlink` removes whatever is at the path by then. Any number of processes may be acquiring
at once, and a pid may come back when its process is dead. Three variables are history:
`met` is the dead owner's lock a process has read and is about to unlink, `crowded` holds
the processes that were acquiring while another was, `raced` says that a process unlinked
the lock of a living writer without having read that one (`Races`).

### ReviewWorkflow and ReviewClients

`history[n]` is the evidence that caused revision `n + 1`; `results` are the
stage results, each pinned to a commit and to `Gate`, which stands for
`stageGateHash` and is what it hashes: the definitions of all stages below the
stage. Stage states and readiness are operators, as they are functions of the
stored rows in the code. `ReviewWorkflow` alone sends each request once, against
the current revision. `ReviewClients` adds clients (not in the repository, hence
marked external) that read a revision, send, give up, read again and repeat under the same event
id; requests stay in the network for ever, so they can arrive late and often, and
answers may be lost. `PolicyAssumption` says what the plans in use have in common (one
human gate, the only stage a human's approval completes; no stage completed by the
evidence of a risk: `defaultReviewWorkflowPlan` and the amendments of the adaptive
provider). `ClientsAssumption` says that evidence of a changed head is recorded by
moving the head, not by `appendEvidence`, which would accept it under the same id.

### IsolatedWorker

`req[r]` holds how far `execute` is for request `r`, the child its lease came from
and its answer. Children are numbered by `#starts`. Settled promises are visible as
states (`starting.state`, stages `renewed`, `unrenewed`, `prepared`), and what
they lead to are actions of their own; timers and exit events wait for them
(`Quiet`), further lines of the same chunk and calls made from a continuation do
not. The pipes are queues. The worker inside the child fails a request before its
effect, ends it with an uncertain outcome, or completes it.

### AgentLoop

`Kernel` lets a driver do anything; `AgentLoop` is the one the repository ships.
`run[r]` holds where `DemoAgentDriver.run` waits and its variables (`attempt`,
`retries`, `retryOf`, `counts`, the calls of the last answer); `shown`, `target`
and `decided` are columns of the attempt's row, `ran` is history. `journal` is the
session's sequence of calls and results with their ids, which `Kernel` leaves out;
`ToolStructureOK` is `validateToolStructure` and `Pruned` the selection made by
`OldToolResultPruningTransform`. A session's other runs (`Peers`) append to the same
journal, each result after its call. Results of protected tools are kept as errors
are, so one kind stands for both. `BrokenForCause` records a weakness rather than a
promise: a storage fault after a result is committed (`runtime.ts:483`) and a provider
that reuses a call id do make the session unreadable, nothing else does.

### Artifacts

A file has a name (`partial` or `final`) and the pieces written to it; digest and
length stand for all the pieces, so `written` (what the writer has hashed) and a
row's `data` are sequences too. `writeSync` may write less than it is given, and its
result is not looked at: such files are in `short`. Every system call and every
commit is one step, and any may fail or be the process's last. `CloseOrder` and
`IngestOrder` are the orders of the code's calls; `Caught` says where a failure
leads. An attempt's two traces are opened before its rows and made final before
they are completed; a tool's output is staged by a worker, which may be a process
that outlives this one, verified, copied, made final, and only then removed.

### PluginHost and Daemon

`PluginHost` takes the manifests' dependencies as a variable that is chosen once:
every manifest in `Manifests`, with cycles and absent ids, is a start. `order` is
`orderPlugins` (those whose dependencies are taken, `Sorted` by id, then the next of
them), `host` is where `initialize` or `close` is, `doing[p]` is what plugin `p` waits for: its connection, the list of its tools, its start, the end of
its session, the close of its client. `Selectable` is `selectTools` of the MCP
plugin; `Conflicts` is the host's check of names, which can meet because one
plugin's id may be the beginning of another's name. A failure stops all entries,
the failing one included, in reverse order.

`Daemon` adds the life of the process: `main.ts` from its first await to its exit,
requests that wait (`Inspect` with its health checks and their timer, `Submit`),
runs that call the plugins' tools, the two signals, and `Runtime.close` with the
resources in its order (`runtime`). `connected` holds the requests in progress whose
client is still there: a handler begins with `Handle` and ends with `Answer`, and a client
may hang up in between (`Drop`), after which its handler goes on. `server.close` waits for
connections and not for handlers (`ServerClosed`, `Drained`), and until it has called back a
connection that is kept alive may bring another request (`Accepting`). `stops`, `cause` and
`errors` are history or what is reported. Runs have no rows here and plugins no effects: `Kernel` and
`Artifacts` have those. The review routes are in `ReviewClients`.

### WebClient

The page's `state` and the buttons' `disabled` are variables under their names;
`shown` and `listed` are what is on the screen. `waiting` holds what handlers await:
`kind` says which handler a request belongs to (a click, the New button, a prompt,
the loop that polls), `at` which of its requests it is. Answers are used in any
order. A request is carried out by the daemon (`Serve`) at one moment and its answer used
at another: what it read (a session's runs, a run's status, the list of sessions) may be
stale by then, what it did (a session or a run made) is done also if the answer never
comes. Any request may fail, which ends its handler in its
`catch` and `finally` (`Fail`). Other clients start runs (`OtherStarts`), runs end.
The loop's last refresh belongs to nobody any more (`last`). The id of a new session is
set aside when it is asked for (`FreeSessions`), as the daemon's ids are random; the supply
is bounded, and a request for a new session is made only while there is one
(`ClickNew`, `ListIsEmpty`).

## Runs

| Run | Question | Bounds and why they are enough |
| --- | --- | --- |
| `Kernel` | Do the tables stay consistent, does a cancel stop continuation and a close drain, when runs interleave? | 2 runs, 2 operations, 2 records, 1 crash, no storage fault. Two operations can be in two runs or in one; all interference between runs is through the writer, the close and the crash, so a pair shows it. |
| `KernelFaults` | The same for one run under storage faults, with the traces of attempts, the error record, the abstract ledger and liveness. | 1 run, 2 operations, 1 crash, 2 faults: a fault while handling a fault, then a crash. |
| `WriterLock` | Are there two writers, or is anybody locked out, in another way than the code is known to allow? | 4 incarnations, starting in any order and together, with 3 pids: a dead one, two that find its lock at once, and a fourth; one of them with a pid that has come back. |
| `ReviewWorkflow` | Do late risks, repeated approvals and head moves keep stage states and readiness sound? | 5 stages (the default plan without two middle links, and a risk stage), 2 reviewers, 2 commits, 8 revisions, of which 2 move the head and 3 only record evidence: enough to get ready (4 results, 2 approvals) and to be reopened, or to leave a commit and return to it. |
| `ReviewHeadReturns` (violation) | Does a head change invalidate what was recorded before it? | smaller |
| `ReviewClients` | Are commands carried out once, in a known state, and answered truthfully over an unreliable network? | 3 clients, 2 of which use the same event id for different commands; 3 revisions. |
| `Outbox` | Is every event delivered in order and at least once before it is marked, as `Delivery` promises? | 2 listeners, 3 events in batches of up to 2, 2 faults, 1 crash, 2 subscriptions made in callbacks: a fault before and after a redelivery, or inside a nested publication and after it. |
| `IsolatedWorker` | Is every request answered, and truthfully? | 2 requests, one with a side effect, lease of 2 ticks, clock up to 3, 1 crash: a start, a renewal, an expiry after a renewal and a replacement. |
| `AgentLoop` | Is the journal the driver goes on from always in order, are retries justified, limits kept, and does it always end? | 1 run and 1 peer, 2 earlier exchanges and 2 new calls (3 results prune a batch, 4 must not prune more), 3 attempts with 1 retry (a retry after an answer and an answer after a retry), 1 reused id, 1 storage fault. |
| `Daemon` | Do plugins start and stop in the order of their dependencies, with no call of theirs in flight, and does the daemon end, tell the truth about it and leave nothing open? | 2 plugins with every manifest over 3 ids (one absent), 5 lists a server may give, names apart or shared; 1 inspection and 1 run asked for, whose clients may hang up, any number of calls, 2 signals. A pair of plugins shows every order and a failure in either's set-up, start and stop; the second signal comes at any point of the first one's shutdown. |
| `Artifacts` | Can everything be read that a row names, is no output lost, and what is left behind? | 1 attempt (traces of 1 and up to 2 pieces) and 2 tools, each of which may hand in the other's output; 1 fault and 1 crash at any system call or commit. |
| `WebClient` | Does the screen settle on what is selected, and are the flags that lock it cleared? | 2 sessions (both there, or none), 2 runs of this or another client, 2 things the user does while at most one answer is out (`MaxWaiting`), 1 failing request. With 3 clicks (888,000 states of an earlier version, too long for a run kept here) nothing else was found. |

### What the properties say

* `Kernel`, `KernelFaults`: an operation marked running belongs to a run marked
  running (`NoOrphanOperation`); close leaves no run behind (`CloseDrains`); after a
  cancel no provider is called, no tool opened and nothing but an error recorded
  (`NoContinuationAfterCancel`); a failed run says why (`FailureIsRecorded`); nothing
  terminal changes (`HistoryIsFinal`); the ledger is implemented (`ImplementsLedger`);
  cancels and shutdowns end (`CancelEndsRun`, `CloseTerminates`). `IInv` is the
  inductive invariant itself with its named parts: types, a run row and its run
  operation agree whenever a crash could expose them (`RunMirrorsOperation`), work is
  cancelled only if asked (`CancelledOnlyIfAsked`), attempts follow their operations
  (`AttemptFollowsOperation`) and have their traces (`OutcomeHasTrace`).
* `WriterLock`: there is one writer unless a process unlinked a living writer's lock that
  it had not read (`OneWriterUnlessRaced`); a process is refused by a living writer, by
  the reused pid of a dead one, or because others were acquiring with it, and never by what
  a crash left behind (`RefusedForCause`). `MutualExclusion` and `RefusedOnlyByLiveWriter`
  are what ADR 0002 says; findings 2 and 3 are the exceptions.
* `ReviewWorkflow`: what counts as complete is closed under the dependencies of the
  present plan (`CompletedClosed`) and was recorded in an order it allows (with the
  types, `WorkflowInv`); a new risk reopens the review and what waits for it and
  nothing else (`RiskReopens`); ready means enough people approved this commit after
  all their approval waits for (`ReadyMeansApproved`).
* `ReviewClients`: `ClientsInv` (types, every event recorded once, no update lost) and
  `AnswersHold`: an accepted request is in the history, a refused one never gets there.
* `Outbox`: `OutboxInv` (types; what is published is a prefix and, until a callback has
  removed the last listener, was sent to somebody; no subscriber misses an event marked while it is one, `NobodyMisses`); each
  gets the rows without a gap and, publications inside others apart, in order
  (`StreamInOrder`); what is marked is not sent again but by a publication in which
  another one marked it (`PublishedIsOver`); and `Delivery` is implemented
  (`ImplementsDelivery`).
* `IsolatedWorker`: `AnswersAreTrue` (no answer denies a side effect that began or
  will begin), `WorkerInv` (types; no lease longer than the child granted, no request
  lost, nothing after close), `EveryoneIsAnswered`.
* `AgentLoop`: `LoopInv` (types; a provider is asked only when each call of the run has
  one result, no call is carried out as often as the limit or without a record), a
  session breaks only for the two causes above (`BrokenForCause`), outputs are pruned
  in batches and for good (`PrefixInBatches`), a retry follows its failed attempt with
  a stored decision and nothing in between (`RetriesJustified`), every run ends
  (`RunSettles`).
* `Daemon`: a tool name has one owner and no plugin is stopped twice (`DaemonInv`);
  between its set-up and the end of its stop a plugin's dependencies are there for it
  (`DependenciesServe`); when a plugin is stopped no call of its tools is under way, and a
  health check that was not given up only for a client that has hung up
  (`NothingInFlight`); what is left open at the end has one of the
  known causes (`LeftOpenForCause`: a signal too early or too often, origins, port or
  recovery refused with everything open, a close that failed); exit code 0 means
  everything is closed and nothing failed (`ExitTellsTruth`); requests are answered and
  a daemon told to stop ends (`DaemonSettles`).
* `Artifacts`: what a row offers can be read and is what the row says, and an attempt
  that ended by itself has both traces (`ArtifactsInv`); a staged output is never lost
  and a reference leads to the operation's own output (`OutputKept`); descriptors,
  partial files, files without a row and staged outputs are left only after a fault, a
  crash or a cancel (`LeftoversForCause`).
* `WebClient`: when all answers are in, the screen shows the selected session and the
  buttons fit the state, unless a request failed or an answer was overtaken by a later
  one's, and at most one loop polls (`ScreenSettles`); the flags `starting`, `sessionBusy`
  and `polling` are cleared (`ControlsReturn`). A run nobody polls for is finding 7.

Deadlock is not checked where the system may rest: a review workflow whose
revisions are used up, processes that are all dead, a worker with nothing to do,
a session whose runs have ended, a daemon that is over, work that is done, a page
whose user does nothing.

### Fairness

* `KernelFaults`: weak fairness of every thread (`Thread`: the writer queue is
  first-in first-out, so each queued command gets its turn), of a provider, tool or
  driver whose signal is aborted (`Stopping`: they are expected to heed it; without
  this a cancel may take for ever, in the code too), of the steps of `close` and of
  a restart after a crash. A driver that is not cancelled owes nothing.
* `IsolatedWorker`: continuations, the exit event, both timers, lines read by the
  parent and by the child, and the worker in the child finish. A child that hangs
  without dying is excluded: the code has no timeout for a request that was sent.
* `AgentLoop`: weak fairness of a run's own steps: providers and tools settle, timers
  fire. Cancels and storage faults are never owed.
* `Daemon`: what the host and `main.ts` await settles: the steps of plugins, which have
  connection and request timeouts in the MCP plugin (but for the DELETE that ends a
  session, which is assumed to be answered), the worker and the database; admissions
  and health checks' timers; calls of tools, and runs whose signal is aborted. A health
  check may never answer, a run that is not aborted may go on for ever, and no signal
  is owed.
* `WebClient`: every request is answered or fails, a timer fires, and runs end. The user
  owes nothing. `fetch` has no timeout in the page; a daemon that never answers would
  keep it waiting.

## Findings

`ReviewHeadReturns` is a run of the project. Each of the others has a `.cfg` of its own as
well, which checks one definition that says what the quoted text says; TLC finds it violated
(`tlc -config <name>.cfg <module>`). The passing runs check what remains true: the same
statement with the exception named.

1. A cancel accepted while the tool middleware is awaited does not keep the tool from
   starting (`runtime.ts:474`; ADR 0003:55, "Cancellation forbids further model or tool
   continuation"). `KernelLateTool.cfg` of `MCKernel`: `NoToolStartAfterCancel`.
2. A process that unlinks a dead owner's lock removes whatever is at the path by then, also
   the lock another has just created, or is still writing: both hold the database
   (`storage.ts:377-389`; ADR 0002:19-21, "Permit one logical writer per database").
   `WriterLockRace.cfg` of `MCWriterLock`: `MutualExclusion`.
3. A reused pid, as of a daemon that is restarted in a container, makes a dead owner's
   lock look alive (`storage.ts:383`; ADR 0002:20-21, it "is reclaimed after an ungraceful
   process exit by checking the recorded PID"). `WriterLockPid.cfg` of `MCWriterLock`:
   `RefusedOnlyByLiveWriter`.
4. When the only listener leaves in its callback, the rest of the batch is marked
   published with nobody called (`runtime.ts:580`; ADR 0002:26-27, "Treat delivery as
   at-least-once until an event is marked published"). `OutboxDeserted.cfg` of `MCOutbox`:
   `PublishedWasReached`.
5. A head that moves away and back revives the old results (`review-workflows.ts:584`;
   ADR 0009:44, "A head change invalidates every old result"). The run
   `ReviewHeadReturns`: `HeadChangeInvalidates`.
6. A second request that arrives while the child starts kills it, and both fail
   (`isolated-worker.ts:124`; ADR 0005:36-38, the parent "terminates expired workers").
   `IsolatedWorkerRecycled.cfg` of `IsolatedWorker`: `StartFailsForCause`.
7. A run of another client that the page finds in progress becomes the active one, and
   nothing polls for it: the page stays locked until it is reloaded (`web-ui.ts:287-288`;
   ADR 0008:28-29, "The client polls durable run and record projections").
   `WebClientUnnoticed.cfg` of `MCWebClient`: `EndIsNoticed`.

Observations without a quotation to disagree with:

* Attempt, artifacts and operation are closed by separate transactions
  (`runtime.ts:413-442`), while ADR 0002:23-24 speaks of one. `KernelFaults` and
  `Artifacts` show that recovery repairs every prefix of the rows; files that a fault
  or crash left are not cleaned up by anybody.
* When the origins, the port or recovery are refused, database and plugins stay open
  until the process ends (`main.ts:44-46`, `454`; a cause in `LeftOpenForCause`).
* A client that hangs up during `GET /v1/plugins` (`main.ts:148`) lets the shutdown go on
  (`main.ts:459`) with its health checks out. The host aborts them at their timer only
  (`plugins.ts:260-272`), so a plugin may be stopped under its own check (a case
  `NothingInFlight` names). The MCP plugin's `stop` ends such a check itself
  (`plugin-mcp/src/index.ts:204-211`); other plugins have to do so as well.
* A storage fault in the command that closes an operation leaves it running under a run
  that has ended (`runtime.ts:415`), and one in the finish of a run leaves the run running,
  both until the next start; a fault after a tool's result is committed adds a second result
  (`runtime.ts:483`). The properties of `KernelFaults` and `AgentLoop` name these cases.
* A cancel that arrives while a retry decision is written is noticed after the whole
  backoff (`defaults/src/index.ts:477`); `RunSettles` says that the run ends all the same.
* A refresh answered late can put the records of one session on the screen of another
  and make its run the active one there (`web-ui.ts:273-289`; `late` in `WebClient`).

## Proofs

Every theorem holds for all values of the constants that satisfy the assumptions named
in the modules. An invariant that says what a component promises is seldom inductive;
below is what it needed.

`KernelProofs`, from `KernelAssumption` (the null values are not ids, bounds are
naturals), for any sets of runs and operations and any bounds:

* `TypeCorrect`. Lemmas say what each shared operator (append a record, create an
  operation, open, close or finish up to commit k) leaves in the tables; the proof
  has a step per action.
* `RunMirrors`. Only four kinds of step touch the rows of runs (`RunRowSteps`).
* `ThreadsAndRuns` proves `ThreadInv`: a thread at work has a running run and the
  reverse, crashes and faults apart. It is needed because `CloseDrains` follows
  only if every running run still has a thread that close waits for.
* `OperationsAndThreads` proves `OperationInv`: a running operation is the one its
  thread has open. `NoOrphanOperation` is not inductive: that a run may end only
  when its operations have needs to know where its thread is. Its step is split
  into lemmas by what a thread does with its operation (keep, open, close, leave,
  drop), each reduced by `OperationStep` to that one row and thread.
* `NoOrphans` and `Drains` follow from these.
* `DecidedIsAsked` proves `AskedInv`: a run that is aborted, or whose thread is about
  to record it as cancelled, was asked to stop. Only memory decides that a row becomes
  cancelled, so `OnlyTheAskedAreCancelled` needs it.
* `OutcomesAgree` proves `OutcomeInv`: per attempt, one of the states that the separate
  commits of an attempt's closing, or a recovery, can leave attempt, artifacts and
  operation in. `AttemptFollowsOperation` and `OutcomeHasTrace` are not inductive: which
  commits are done is known only from where the thread is.
* `KernelInvariant` puts the named parts together: `IInv` holds, which is what
  `KernelFaults` checks.
* `TableSteps` classifies every step by what it does to the tables: nothing, a run
  created, a commit on an operation (`RowStep`), the end of a run (`EndStep`), a
  restart. `RowEffects`, `EndEffects` and `RestartEffects` say what each class may
  change. `TerminalIsFinal` and the refinement `KernelImplementsLedger` go through the
  classes rather than the actions.
* `CancelStops` needs `ControllerInv`: a run that is not admitted yet has no controller,
  so that only a thread that looks at the signal can be cancelled.
* `FailuresAreRecorded` needs `JournalInv`: an error is recorded only by a thread that
  goes on to end its run and appends nothing more.

`ReviewProofs`, for any stages, commits, reviewers, offers and clients. `Command(e)` is
what a command does with its evidence, shown once for both specifications:

* `ResultsAreFounded`, from `ReviewAssumption` (bounds are naturals, what an adaptive
  provider may offer names only the risk stages). A stage's gate determines the gates of
  everything below the stage (`GateDetermines`), so if the present plan selects a result
  that an earlier plan was asked about, the two agree on all the result depended on, and
  the results found then are selected now. Without the gates the induction would break
  at an amendment. `WorkflowInvariant` and `CompletionIsClosed` follow.
* `ReadinessIsApproved` needs in addition `PolicyAssumption` and `Fits` (the evidence of
  a result fits its stage). What counts was recorded after everything below it, not only
  after its direct dependencies (`BelowIsEarlier`: the stages with an earlier result are
  a closed set, and `Below` is the least). So the gate's result comes after all its
  approval waits for. With a second human gate, approvals of the first would count for
  both; with another stage that a human approval completes, they would count too early.
* `RisksReopenReviews`: a plan that differs at one stage gives new gates to exactly what
  is above it (`GateStays`, `BelowGrows`), and no stored gate names the new stage (`Fits`).
* `ClientsInvariant`, `AnswersAreKept`, from `ClientsAssumption`. A refusal is true for good
  because a request that may still become true, one against the present revision, is
  invalid (`AnswersInv`), and whatever is carried out against this revision was valid for
  every client with the same command (`CarriedIsValid`). `NetworkIsHarmless`: the theorems
  about the workflow hold for these clients, and `RisksReopenForClients` that risks that
  arrive late or again do no more and no less.

`StoreProofs`, of the outbox, for any listeners and bounds:

* `RowsAreListed` proves `RowsInv`: the rows being published, in the outer publication
  and the inner one, are what is not marked, in order. What `Pending` lists is found by
  counting (`Listing`), without induction.
* `EverybodyServed` proves `ServedInv`: who has not been called with the row at the head
  is in `left`, or is just subscribing. A row is marked when `left` is empty, so
  `NobodyMisses` needs to know that for both publications (`NobodyIsMissed`).
* `EventsAreReached` proves `ReachedInv`: while nobody deserted, somebody is left to be
  called, or was, whenever a row is at the head (finding 4 is the exception that `deserted`
  records); with `RowsInv` it gives `OutboxSafe`.
* `RowsComeInOrder` proves `OrderInv`: where each listener's stream stands relative to the
  row at the head. `StreamsInOrder` and `PublishedRowsAreOver` follow.
* `OutboxImplementsDelivery`: each step is one of `Delivery` or leaves what it sees alone
  (`DeliveryStep`). That it is the row's turn is known from `Listing`; that all subscribers
  have what is marked from `NobodyMisses` of the next state, as `Mark` itself looks only at
  `left`. That a step within a publication leaves it under way or ends it is `Decided`. What a call and a subscription do to `had` is said once (`CallSeen`, `NewSeen`).

`StoreProofs`, of the lock, for any processes and pids, with starts that overlap and pids
that come back: `LockInvariant`, and from it `OneWriter`, `CleanClose` and
`RefusalIsJustified`. The invariant `LockInv` says, position by position, what a process
knows of its own file (`OwnFile`) and of the one it met, whose owner is dead (`MetFile`);
that until there was a race the lock on disk names whoever writes it or holds
(`HolderHasLock`); that a process that acquires alone meets one lock at most
(`AloneMeetsOne`); and that living processes have pids of their own (`PidInv`), so that a
pid that answers is the owner's or has come back.

`WorkerProofs`, for any requests, leases and clock:

* `ClosedForGood`, `CloseIsQuiet`, from `QuietInv`: without a child nobody waits for one,
  so that a close, which takes the child, leaves nobody waiting, and no continuation that
  was under way gets another child.
* `WorkerTypes`: there are never more children than requests that began; the bound is
  counted with `Cardinality(Begun(req))`.
* `LeasesAreGranted` proves `GrantInv`: every expiry in a pipe, in a request or in the
  parent's lease is at most what the child will keep to.
* `RequestsAreHeld` proves `HeldInv`: a request that waits has a child, and while that
  child lives it has not read the request yet, works on it, or its result is on the way
  back. `WorkerIsSound` puts them together.
* `OnceIsEnough`: a request is sent once, to one child, and nobody works on it any more
  once there is a result; so an effect that was denied cannot happen later, which gives
  `AnswersTrue`. Steps go through `Moved`: one request changes
  its place, the others keep theirs.

`AgentLoopProofs`, for any runs, tools, peers and limits. A step is a move of one run, or
of a peer that runs notice only in the journal (`Steps`); moves are stated of a run's
variables and a journal as values:

* `RunsAreInOrder` proves `RunInv` of every run: the calls of a turn (`TurnInv`), the counts
  of calls carried out (`CountInv`), which calls are answered in the journal (`AnswerInv`),
  what a retry follows (`RetryInv`), what a provider was shown (`AskedInv`). What others
  append disturbs none of them, shown once for each part. `LoopIsSound` and
  `RetriesAreJustified` follow.
* `IdsAreFresh` proves `FreshInv`: while no id is reused and nothing was thrown, the calls of
  two runs are apart, each record belongs to the owner of its id, and a call without a
  result belongs to a run that still has it in its turn or to a peer. So a result always
  finds its call open: `SessionsBreakForCause`.
* `PruningIsInBatches`: the share of a set that a count selects (`First`) has that many
  members, and grows with the count, by whole batches (`PruneCounts`).

`ArtifactsProofs`, for any attempts, tools and pieces:

* `WorksAreInOrder` proves `ProofInv`: per attempt, which of its files, rows and results are
  there in every position of its opening, its closing and their failure paths
  (`AttemptInv`), and per tool the same for staging, verification, copy and removal
  (`ToolInv`). Frame lemmas (`AttemptFrame`, `ToolFrame`) leave a step to the work that
  takes it. `RowsAreReadable`, `OutputsAreKept` and `NothingIsLeft` are read off it.
* It assumes that the names of attempts and tools are apart, as the ids of the rows are.

`DaemonProofs`, for any plugins, manifests, servers and clients:

* `OrderIsFound`: `OrderOf` lists every plugin once and after its dependencies, unless one
  is absent or there is a cycle (`Blocked`: a set whose members all need another), which
  are refused. Its recursion goes over sets of plugins: a smallest set for which it fails
  exists (`Smallest`, from the well-foundedness of the subset ordering) and is refuted.
* `DaemonIsInOrder` proves `DaemonIInv`: for each place in the order what became of its
  plugin while the host sets up, starts, is open or stops (`SetupInv`, `StartInv`,
  `StopInv`), and how far daemon, runtime and host are with one another (`StageInv`,
  `ClientInv`, `RunInv`, `ErrorInv`). `ClientInv` has what is left of the requests when the
  runtime closes: no connection, and no admission once the runs are aborted, but perhaps an
  inspection whose client has hung up. `DaemonIsSound`, `DependenciesAreThere`,
  `NothingIsInFlight`, `NothingIsLeftOpen` and `ExitIsTrue` follow.

`WebProofs`, from `WebAssumption`, for any sessions, runs and numbers of clicks, of waiting
requests and of failures:

* `PageIsInOrder` proves `PageInv`. Whatever fails, the page's flags say who is at work
  (`AskedInv`: the loop that polls and the New button have one request each, which is out
  exactly while `polling` and `sessionBusy` say so). While nothing failed, the buttons fit
  the state or an answer is awaited that sets them (`ButtonsInv`), and the screen shows the
  selected session or an answer is awaited that does it; an answer for another session is
  followed by one for the selected session, or was overtaken (`ShownInv`).
* `ScreenIsSettled` follows: when nothing is awaited, only the good cases are left.
* An answer may be used long after the request was carried out: `GotKeeps` and `ServeKeeps`
  say that what it saw is among the sessions there are, and that carrying it out leaves the
  page alone.
* Answers are used in any order, so every action is reduced to what becomes of the sequence
  of requests (`Gone`: one leaves, at most one is added at the end, the others stay in
  order) and what that does to each part (`AskedKept`, `ButtonsKept`, `ShownKept`).

Recursion and induction over data: a theorem with an operator as its parameter cannot be
used here, so facts about a recursive function or a count are proved by a smallest
counterexample among the subsets of a finite set, as above.

Only model-checked: all liveness (`CancelEndsRun`, `CloseTerminates`,
`EveryoneIsAnswered`, `RunSettles`, `DaemonSettles`, `ControlsReturn`), which rests on
fairness and `ENABLED` and is out of the prover's reach. Parts of an
invariant that are proved (`RunMirrorsOperation`, `CancelledOnlyIfAsked`,
`OutcomeHasTrace`, `ClosedIsQuiet`, `NobodyMisses`) have no run of their own: `IInv`,
`WorkerInv` and `OutboxInv` contain them. `LockInv` and `ClosedLeavesNoLock` are proved and
have no run.

## Not modelled

* Migrations (run alone, before anything else), provenance hashes, redaction,
  credentials, provider adapters and SSE, usage summaries, the Gitea plan, read-only
  queries: no control that a checker reaches better than a test.
* Of the MCP plugin, the projection of schemas, results and content; of the default
  composition, its options. Data that no property tells apart.
* Of the web page, the review panel, the inspector's contents and the cancel button.
  The panel has a hazard of its own (`web-ui.ts:139`: the id of a newly selected
  workflow is used with the old one's revision); the service refuses what does not fit.
* A listener that subscribes two others in one callback while rows are unpublished, or
  a publication that nests deeper than once.

## Plan

Done, in this order because the kernel carries the most: `RunLedger`, `Kernel`,
`WriterLock`, `ReviewWorkflow`, `ReviewClients`, `Outbox` with nested publication,
`IsolatedWorker`, `AgentLoop`, `PluginHost` and `Daemon`, `Artifacts`, `WebClient`; and
the proofs of every safety property the passing runs check, and of two refinements.

Worth having next: the review panel of the page; an abstract specification of the isolated
worker (a request is carried out at most once, and its answer says so) for it to
implement.
