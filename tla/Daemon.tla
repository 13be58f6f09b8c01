--------------------------------- MODULE Daemon ---------------------------------
(***************************************************************************)
(* The life of the daemon (apps/daemon/src/main.ts): it makes the plugin   *)
(* host, opens the runtime with it (createDefaultRuntime), listens, serves *)
(* requests, and on a signal closes server, runtime, worker, plugins and   *)
(* database.  Of requests, those matter that wait for something: plugin    *)
(* inspections, with their health checks, and admissions of runs, which go *)
(* on in the background and call tools of plugins.                         *)
(*                                                                         *)
(* Kernel says what a run does with its rows, and IsolatedWorker how the   *)
(* worker closes.                                                          *)
(***************************************************************************)
EXTENDS PluginHost

CONSTANTS
  Inspections, \* requests for the state of the plugins
  Submissions, \* requests to start a run
  Runs,        \* runs they may start
  Signals      \* SIGINT and SIGTERM

ASSUME DaemonAssumption == Inspections \cap Submissions = {}

Requests == Inspections \cup Submissions

VARIABLES
  daemon,   \* whether it boots, serves, fails to open, or is over
  cause,    \* what left something open, if not a clean end
  db,       \* whether the database is open and its lock held
  runtime,  \* how far Runtime.close is
  failures, \* whether it has met an error
  sig,      \* how far the handler of a signal is
  code,     \* process.exitCode, as the handlers set it
  req,      \* what a request waits for
  check,    \* the health checks of an inspection
  connected, \* requests in progress whose client has not gone
  run,      \* where a run is
  calls,    \* tool calls under way, each from a run to a plugin
  aborted   \* runs whose signal is aborted

clientVars == <<req, check, connected>>
runVars == <<run, calls, aborted>>
closeVars == <<runtime, failures, db>>
lifeVars == <<daemon, cause, closeVars, sig, code>>
vars == <<hostVars, lifeVars, clientVars, runVars>>

RuntimeStates == {"unmade", "open", "admissions", "runs", "worker", "plugins", "database", "closed"}

Init ==
  /\ HostInit
  /\ daemon = "booting" /\ cause = "none" /\ code = "none"
  /\ runtime = "unmade" /\ failures = FALSE /\ db = FALSE
  /\ sig = [s \in Signals |-> "none"]
  /\ req = [q \in Requests |-> "none"]
  /\ check = [q \in Inspections |-> [p \in Plugins |-> "none"]]
  /\ run = [r \in Runs |-> "none"]
  /\ connected = {} /\ calls = {} /\ aborted = {}

Over == daemon = "over"
Dies(why) == daemon' = "over" /\ cause' = why

-----------------------------------------------------------------------------
(* Start-up.                                                               *)

\* PluginHost.initialize throws: the module's evaluation ends, and the process with it.
NoHost ==
  /\ daemon = "booting" /\ host.at \in {"refused", "thrown"}
  /\ daemon' = "over"
  /\ UNCHANGED <<hostVars, cause, closeVars, sig, code, clientVars, runVars>>

\* createDefaultRuntime, origins and listen, without a pause in between.
Serve ==
  /\ daemon = "booting" /\ host.at = "open"
  /\ daemon' = "serving" /\ runtime' = "open" /\ db' = TRUE
  /\ UNCHANGED <<hostVars, cause, failures, sig, code, clientVars, runVars>>

\* createDefaultRuntime throws, before the database is open or after: its lock is held
\* by somebody, say, or recovery fails.  Only the plugins are closed.
NoRuntime(opened) ==
  /\ daemon = "booting"
  /\ BeginClose
  /\ daemon' = "failing" /\ db' = opened
  /\ cause' = IF opened THEN "recovery" ELSE cause
  /\ UNCHANGED <<runtime, failures, sig, code, clientVars, runVars>>

GiveUpStart ==
  /\ daemon = "failing" /\ host.at = "closed"
  /\ daemon' = "over"
  /\ UNCHANGED <<hostVars, cause, closeVars, sig, code, clientVars, runVars>>

\* The origins are refused, or the port is taken, with everything open.
NoServer(why) ==
  /\ daemon = "booting" /\ host.at = "open"
  /\ Dies(why)
  /\ db' = TRUE /\ runtime' = "open"
  /\ UNCHANGED <<hostVars, failures, sig, code, clientVars, runVars>>

-----------------------------------------------------------------------------
(* Requests.                                                               *)

\* A connection that is kept alive brings requests until the server has closed.
Accepting == daemon = "serving" /\ \A s \in Signals : sig[s] \in {"none", "draining"}

\* A handler begins for a client, which waits for the answer.
Handle(q, does) == req' = [req EXCEPT ![q] = does] /\ connected' = connected \cup {q}
Answer(q) == req' = [req EXCEPT ![q] = "answered"] /\ connected' = connected \ {q}

\* The client ends its connection, and the handler goes on.
Drop(q) ==
  /\ ~Over /\ q \in connected
  /\ connected' = connected \ {q}
  /\ UNCHANGED <<hostVars, lifeVars, req, check, runVars>>

\* GET /v1/plugins: inspect asks all plugins at once.
Inspect(q) ==
  /\ Accepting /\ req[q] = "none"
  /\ Handle(q, "inspecting")
  /\ check' = [check EXCEPT ![q] =
       [p \in Plugins |-> IF entry[p] = "ready" /\ p \in Checked THEN "out" ELSE "answered"]]
  /\ UNCHANGED <<hostVars, lifeVars, runVars>>

\* A check answers, in time or long after it was given up.
HealthSettles(q, p) ==
  /\ ~Over /\ check[q][p] \in {"out", "late"}
  /\ check' = [check EXCEPT ![q][p] = "answered"]
  /\ UNCHANGED <<hostVars, lifeVars, req, connected, runVars>>

\* inspectHealth: the timer aborts the check and answers for it.
TimedOut(q, p) == check[q][p] = "out"
HealthTimesOut(q, p) ==
  /\ ~Over /\ TimedOut(q, p)
  /\ check' = [check EXCEPT ![q][p] = "late"]
  /\ UNCHANGED <<hostVars, lifeVars, req, connected, runVars>>

Inspected(q) ==
  /\ ~Over /\ req[q] = "inspecting"
  /\ \A p \in Plugins : check[q][p] # "out"
  /\ Answer(q)
  /\ UNCHANGED <<hostVars, lifeVars, check, runVars>>

\* POST /v1/sessions/:id/runs.
Submit(q) ==
  /\ Accepting /\ req[q] = "none"
  /\ Handle(q, "admitting")
  /\ UNCHANGED <<hostVars, lifeVars, check, runVars>>

\* The run is answered for when it is admitted, and goes on in the background.
Admitted(q) ==
  /\ ~Over /\ req[q] = "admitting"
  /\ Answer(q)
  /\ \/ \E r \in Runs : run[r] = "none" /\ run' = [run EXCEPT ![r] = "driver"]
     \/ UNCHANGED run
  /\ UNCHANGED <<hostVars, lifeVars, check, calls, aborted>>

\* POST /v1/runs/:id/cancel.
Cancel(r) ==
  /\ Accepting /\ run[r] \notin {"none", "over"}
  /\ aborted' = aborted \cup {r}
  /\ UNCHANGED <<hostVars, lifeVars, clientVars, run, calls>>

-----------------------------------------------------------------------------
(* Runs.                                                                   *)

\* While its tool call is under way a run does nothing else.
Calling(r) == \E p \in Plugins : <<r, p>> \in calls

\* #dispatchTool looks at the signal, and then opens the operation and asks middleware.
Dispatch(r) ==
  /\ ~Over /\ run[r] = "driver" /\ ~Calling(r) /\ r \notin aborted
  /\ run' = [run EXCEPT ![r] = "dispatching"]
  /\ UNCHANGED <<hostVars, lifeVars, clientVars, calls, aborted>>

\* The tool of a plugin is executed, or a tool of the worker, or none.
CallTool(r) ==
  /\ ~Over /\ run[r] = "dispatching"
  /\ run' = [run EXCEPT ![r] = "driver"]
  /\ \/ \E t \in tools : calls' = calls \cup {<<r, t.owner>>}
     \/ UNCHANGED calls
  /\ UNCHANGED <<hostVars, lifeVars, clientVars, aborted>>

\* The client answers, its timeout is over, or one of the two signals is aborted.
CallSettles(r, p) ==
  /\ ~Over /\ <<r, p>> \in calls
  /\ calls' = calls \ {<<r, p>>}
  /\ UNCHANGED <<hostVars, lifeVars, clientVars, run, aborted>>

RunEnds(r) ==
  /\ ~Over /\ run[r] = "driver" /\ ~Calling(r)
  /\ run' = [run EXCEPT ![r] = "over"]
  /\ UNCHANGED <<hostVars, lifeVars, clientVars, calls, aborted>>

-----------------------------------------------------------------------------
(* Shutdown.                                                               *)

\* The first SIGINT and the first SIGTERM close the server, if there is one yet;
\* a second one of a kind, or one that comes too early, ends the process.
Signal(s) ==
  /\ ~Over
  /\ IF daemon = "serving" /\ sig[s] = "none"
       THEN sig' = [sig EXCEPT ![s] = "draining"] /\ UNCHANGED <<daemon, cause>>
       ELSE Dies("signal") /\ UNCHANGED sig
  /\ UNCHANGED <<hostVars, closeVars, code, clientVars, runVars>>

\* server.close waits for connections, not for handlers.
Drained == connected = {}

\* The server's close event reaches every handler; the first one starts Runtime.close.
ServerClosed(s) ==
  /\ ~Over /\ sig[s] = "draining" /\ Drained
  /\ sig' = [sig EXCEPT ![s] = "awaiting"]
  /\ runtime' = IF runtime = "open" THEN "admissions" ELSE runtime
  /\ UNCHANGED <<hostVars, daemon, cause, failures, db, code, clientVars, runVars>>

\* (mutant: runs are waited for, and not aborted)
AwaitRuns ==
  /\ ~Over /\ runtime = "admissions"
  /\ \A q \in Requests : req[q] # "admitting"
  /\ runtime' = "runs"
  /\ UNCHANGED <<hostVars, daemon, cause, failures, db, sig, code, clientVars, runVars>>

\* Nobody is being admitted any more, and every run there is is aborted.
AbortRuns ==
  /\ ~Over /\ runtime = "admissions"
  /\ \A q \in Requests : req[q] # "admitting"
  /\ aborted' = aborted \cup {r \in Runs : run[r] \notin {"none", "over"}}
  /\ runtime' = "runs"
  /\ UNCHANGED <<hostVars, daemon, cause, failures, db, sig, code, clientVars, run, calls>>

\* (mutant: close only aborts the runs)
RunsAreAborted == \A r \in Runs : run[r] \in {"none", "over"} \/ r \in aborted

RunsAreOver == \A r \in Runs : run[r] \in {"none", "over"}

\* A run that could not store how it ended is an error of the close.
RunsSettled(fails) ==
  /\ ~Over /\ runtime = "runs" /\ RunsAreOver
  /\ runtime' = "worker"
  /\ failures' = (failures \/ fails)
  /\ UNCHANGED <<hostVars, daemon, cause, db, sig, code, clientVars, runVars>>

\* The worker is the first resource that is closed, the plugins are the second.
WorkerClosed(fails) ==
  /\ ~Over /\ runtime = "worker"
  /\ runtime' = "plugins"
  /\ failures' = (failures \/ fails)
  /\ BeginClose
  /\ UNCHANGED <<daemon, cause, db, sig, code, clientVars, runVars>>

PluginsClosed ==
  /\ ~Over /\ runtime = "plugins" /\ host.at = "closed"
  /\ runtime' = "database"
  /\ failures' = (failures \/ errors # {})
  /\ UNCHANGED <<hostVars, daemon, cause, db, sig, code, clientVars, runVars>>

DatabaseClosed(fails) ==
  /\ ~Over /\ runtime = "database"
  /\ runtime' = "closed"
  /\ db' = fails /\ failures' = (failures \/ fails)
  /\ UNCHANGED <<hostVars, daemon, cause, sig, code, clientVars, runVars>>

\* (mutant: a second close returns at once)
SomebodyCloses == runtime # "open"

\* All handlers wait for the one promise of Runtime.close.
HasReturned == runtime = "closed"

CloseReturns(s) ==
  /\ ~Over /\ sig[s] = "awaiting" /\ HasReturned
  /\ sig' = [sig EXCEPT ![s] = "done"]
  /\ code' = IF failures THEN "failed" ELSE "ok"
  /\ UNCHANGED <<hostVars, daemon, cause, closeVars, clientVars, runVars>>

\* Nothing is left to do; the timer of a health check keeps the process alive.
Exit ==
  /\ ~Over /\ runtime = "closed"
  /\ \A q \in Requests : req[q] \in {"none", "answered"}
  /\ \A s \in Signals : sig[s] \in {"none", "done"}
  /\ daemon' = "over"
  /\ UNCHANGED <<hostVars, cause, closeVars, sig, code, clientVars, runVars>>

-----------------------------------------------------------------------------
HostWorks == ~Over /\ HostStep /\ UNCHANGED <<lifeVars, clientVars, runVars>>
PluginWorks(p) == ~Over /\ PluginStep(p) /\ UNCHANGED <<lifeVars, clientVars, runVars>>

Starting ==
  \/ NoHost \/ Serve \/ GiveUpStart
  \/ \E opened \in BOOLEAN : NoRuntime(opened)
  \/ \E why \in {"origins", "port"} : NoServer(why)

Serving ==
  \/ \E q \in Inspections :
       \/ Inspect(q) \/ Inspected(q)
       \/ \E p \in Plugins : HealthSettles(q, p) \/ HealthTimesOut(q, p)
  \/ \E q \in Submissions : Submit(q) \/ Admitted(q)
  \/ \E q \in Requests : Drop(q)

Running ==
  \E r \in Runs : \/ Cancel(r) \/ Dispatch(r) \/ CallTool(r) \/ RunEnds(r)
                 \/ \E p \in Plugins : CallSettles(r, p)

Closing ==
  \/ AbortRuns \/ PluginsClosed \/ Exit
  \/ \E fails \in BOOLEAN : RunsSettled(fails) \/ WorkerClosed(fails) \/ DatabaseClosed(fails)
  \/ \E s \in Signals : ServerClosed(s) \/ CloseReturns(s)

Next ==
  \/ HostWorks \/ \E p \in Plugins : PluginWorks(p)
  \/ Starting \/ Serving \/ Running \/ Closing
  \/ \E s \in Signals : Signal(s)

Spec == Init /\ [][Next]_vars

\* What is waited for settles: the steps of a plugin, admissions, calls of a client, runs
\* that are aborted, the worker and the database.  A health check may never answer, and
\* nobody has to send a signal.
Answering ==
  \/ \E q \in Inspections : Inspected(q) \/ \E p \in Plugins : HealthTimesOut(q, p)
  \/ \E q \in Submissions : Admitted(q)

Ending(r) ==
  \/ CallTool(r) \/ (r \in aborted /\ RunEnds(r))
  \/ \E p \in Plugins : CallSettles(r, p)

Fairness ==
  /\ WF_vars(HostWorks \/ (\E p \in Plugins : PluginWorks(p)) \/ Starting \/ Closing)
  /\ WF_vars(Answering)
  /\ \A r \in Runs : WF_vars(Ending(r))

FairSpec == Spec /\ Fairness

-----------------------------------------------------------------------------
TypeOK ==
  /\ HostTypeOK
  /\ daemon \in {"booting", "serving", "failing", "over"}
  /\ cause \in {"none", "recovery", "origins", "port", "signal"}
  /\ runtime \in RuntimeStates /\ failures \in BOOLEAN /\ db \in BOOLEAN
  /\ sig \in [Signals -> {"none", "draining", "awaiting", "done"}]
  /\ code \in {"none", "ok", "failed"}
  /\ req \in [Requests -> {"none", "inspecting", "admitting", "answered"}]
  /\ connected \subseteq Requests
  /\ check \in [Inspections -> [Plugins -> {"none", "out", "late", "answered"}]]
  /\ run \in [Runs -> {"none", "driver", "dispatching", "over"}]
  /\ calls \subseteq Runs \X Plugins /\ aborted \subseteq Runs

\* Types; a tool name has one owner, and no plugin is stopped twice, whoever closes it.
DaemonInv == TypeOK /\ HostInv

\* When a plugin is stopped, no tool call to it is under way, and a health check only for
\* a client that has gone: the server drains its connections, then come the admissions and
\* the runs, then the resources (main.ts:459, runtime.ts:285-293).
NothingInFlight ==
  \A p \in Plugins : doing[p] \in {"terminating", "closing"} =>
    /\ \A r \in Runs : <<r, p>> \notin calls
    /\ \A q \in Inspections : check[q][p] = "out" => q \notin connected

\* A process that ended left nothing open - database, lock, a plugin not stopped, a
\* session that its plugin did not fail to close - but for the known causes: a signal that
\* the default action took, or origins, port or recovery refused with everything open
\* (main.ts:36-46, 454).
LeftOpenForCause ==
  Over =>
    \/ cause # "none"
    \/ /\ db => failures
       /\ \A p \in Entries : stops[p] = 1
       /\ conn \subseteq errors

\* The exit code says success only if everything is closed and nothing failed, also when
\* both signals came and both handlers wait for the close (main.ts:458-466).
ExitTellsTruth ==
  code = "ok" => ~db /\ ~failures /\ errors = {} /\ conn = {} /\ \A p \in Plugins : stops[p] = 1

\* Every request that waits is answered, a plugin that never answers its health check
\* notwithstanding, and a daemon told to stop ends (plugins.ts:260-272, main.ts:458-466).
DaemonSettles ==
  /\ \A q \in Requests :
       req[q] \in {"inspecting", "admitting"} ~> req[q] = "answered" \/ Over
  /\ \A s \in Signals : sig[s] = "draining" ~> Over
=============================================================================
