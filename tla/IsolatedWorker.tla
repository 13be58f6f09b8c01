---------------------------- MODULE IsolatedWorker ----------------------------
(***************************************************************************)
(* The worker in a child process: requests that arrive at any time, a      *)
(* child started lazily and replaced when its lease runs out or it dies, a *)
(* lease renewed over the same pipe, and answers that say whether a side   *)
(* effect may have happened (ProcessIsolatedWorker in isolated-worker.ts;  *)
(* the child is isolated-worker-host.ts with the worker of                 *)
(* local-worker.ts in it).                                                 *)
(*                                                                         *)
(* What a settled promise leads to runs before the next event of the loop  *)
(* ("Quiet"), but several lines of the child may be handled first, and a   *)
(* request may be made from such a continuation itself.  Requests are not  *)
(* repeated, so children are numbered up to the number of requests.  Not   *)
(* modelled: cancel lines, for how a request ends is arbitrary anyway;     *)
(* lines that are not of the protocol; EPIPE on a dead child's stdin.      *)
(***************************************************************************)
EXTENDS Naturals, Sequences, FiniteSets

CONSTANTS
  Requests,
  Effects,     \* the requests with side effects (sideEffecting)
  TTL,         \* leaseTtlMs
  MaxTime,     \* bound on the clock
  MaxCrashes   \* bound on children that die of themselves

ASSUME WorkerAssumption ==
  /\ IsFiniteSet(Requests) /\ Effects \subseteq Requests
  /\ TTL \in Nat \ {0} /\ MaxTime \in Nat /\ MaxCrashes \in Nat

Children == 1 .. Cardinality(Requests)
None == 0

VARIABLES
  now,
  starts,    \* #starts
  child,     \* #child, or None
  ready,     \* when the lease in #ready expires, or None
  starting,  \* #starting with its deferred: the child and its state
  closed,    \* #closed
  req,       \* of each request: how far execute is, its lease, its answer
  aborted,   \* the requests whose signal is aborted
  alive,     \* the children that run
  inbox,     \* of each child: lines it has not read
  outbox,    \* of each child: lines the parent has not handled
  expiry,    \* of each child: when the lease it issued expires, or None
  active,    \* of each child: the requests in its worker
  touched,   \* the requests whose side effect may have begun
  crashes

parentVars == <<starts, child, ready, starting, closed>>
childVars == <<alive, inbox, outbox, expiry, active, touched, crashes>>
vars == <<now, parentVars, req, aborted, childVars>>

Stages == {"idle", "starting", "renewing", "renewed", "unrenewed", "prepared", "waiting", "answered"}
Answers == {"none", "ok", "failed", "uncertain", "thrown"}

\* The lines on the pipes of a child.
ToChild == [type : {"initialize"}] \cup [type : {"renew", "execute"}, of : Requests]
ToParent ==
  [type : {"ready"}, expires : 0 .. MaxTime + TTL]
  \cup [type : {"renewed"}, of : Requests, expires : 0 .. MaxTime + TTL]
  \cup [type : {"protocol-error"}, of : Requests]
  \cup [type : {"result"}, of : Requests, answer : {"ok", "failed", "uncertain"}, expires : 0 .. MaxTime + TTL]

ParentTypes ==
  /\ starts \in 0 .. Cardinality(Requests) /\ child \in {None, starts}
  /\ ready \in 0 .. MaxTime + TTL /\ (ready # None => child # None)
  /\ starting \in [of : 0 .. starts, state : {"none", "pending", "ready", "failed"}]
  /\ closed \in BOOLEAN /\ aborted \subseteq Requests

RequestTypes ==
  /\ req \in [Requests -> [stage : Stages, lease : 0 .. starts, until : 0 .. MaxTime + TTL, answer : Answers]]
  /\ \A r \in Requests : req[r].answer # "none" <=> req[r].stage = "answered"

ChildTypes ==
  /\ now \in 0 .. MaxTime /\ crashes \in 0 .. MaxCrashes
  /\ alive \subseteq 1 .. starts
  /\ inbox \in [Children -> Seq(ToChild)] /\ outbox \in [Children -> Seq(ToParent)]
  /\ expiry \in [Children -> 0 .. MaxTime + TTL]
  /\ active \in [Children -> SUBSET Requests]
  /\ touched \subseteq Effects

TypeOK == ParentTypes /\ RequestTypes /\ ChildTypes

NoStart == [of |-> None, state |-> "none"]

Init ==
  /\ now = 0 /\ starts = 0 /\ child = None /\ ready = None
  /\ starting = NoStart /\ closed = FALSE
  /\ req = [r \in Requests |-> [stage |-> "idle", lease |-> None, until |-> 0, answer |-> "none"]]
  /\ aborted = {} /\ alive = {} /\ touched = {} /\ crashes = 0
  /\ inbox = [c \in Children |-> <<>>] /\ outbox = [c \in Children |-> <<>>]
  /\ expiry = [c \in Children |-> None] /\ active = [c \in Children |-> {}]

Quiet ==
  /\ starting.state \in {"none", "pending"}
  /\ \A r \in Requests : req[r].stage \notin {"renewed", "unrenewed", "prepared"}

-----------------------------------------------------------------------------
\* Answers, and what the end of the child does to the requests.

Answered(q, answer) == [q EXCEPT !.stage = "answered", !.answer = answer]

\* failed, cancelled: uncertain for a request with side effects.
Certain(r) == "failed"                          \* mutant: failures are final
Unknown(r) == IF r \in Effects THEN "uncertain" ELSE "failed"

\* handleExit, for the requests in S: the pending ones fail and so do renewals.
ForgetPending(qs) ==                            \* mutant: only renewals
  [r \in Requests |->
     IF qs[r].stage = "renewing" THEN [qs[r] EXCEPT !.stage = "unrenewed"] ELSE qs[r]]
Bereaved(qs) ==
  [r \in Requests |->
     IF qs[r].stage = "waiting" THEN Answered(qs[r], Unknown(r))
     ELSE IF qs[r].stage = "renewing" THEN [qs[r] EXCEPT !.stage = "unrenewed"] ELSE qs[r]]

StartLost == IF starting.state = "pending" THEN [starting EXCEPT !.state = "failed"] ELSE starting

\* #terminate, with handleExit, when the requests are qs: the child is told to
\* stop and forgotten, its lines are not handled any more.
TerminateWith(qs) ==
  IF child = None THEN req' = qs /\ UNCHANGED <<child, ready, starting>>
  ELSE /\ req' = Bereaved(qs)
       /\ child' = None /\ ready' = None
       /\ starting' = StartLost

-----------------------------------------------------------------------------
\* execute, up to its first await, with #ensureReady, #start and #renew.

Usable == ready # None /\ now < ready

MayStart == ~closed

Refuse(r, answer) ==
  /\ req' = [req EXCEPT ![r] = Answered(@, answer)]
  /\ UNCHANGED <<parentVars, inbox, alive>>

UseLease(r) ==
  /\ Usable /\ 2 * (ready - now) > TTL
  /\ req' = [req EXCEPT ![r].stage = "prepared", ![r].lease = child]
  /\ UNCHANGED <<parentVars, inbox, alive>>

AskRenewal(r) ==
  /\ Usable /\ 2 * (ready - now) <= TTL
  /\ req' = [req EXCEPT ![r].stage = "renewing", ![r].lease = child]
  /\ inbox' = [inbox EXCEPT ![child] = Append(@, [type |-> "renew", of |-> r])]
  /\ UNCHANGED <<parentVars, alive>>

\* A start that is under way is joined, even one that has just failed.
JoinStart(r) ==
  /\ ~Usable
  /\ StartLost.state # "none"
  /\ TerminateWith([req EXCEPT ![r].stage = "starting"])
  /\ UNCHANGED <<starts, closed, inbox, alive>>

StartChild(r) ==
  /\ ~Usable
  /\ StartLost.state = "none"
  /\ starts' = starts + 1 /\ child' = starts + 1 /\ ready' = None
  /\ starting' = [of |-> starts + 1, state |-> "pending"]
  /\ req' = Bereaved([req EXCEPT ![r].stage = "starting"])
  /\ inbox' = [inbox EXCEPT ![starts + 1] = <<[type |-> "initialize"]>>]
  /\ alive' = alive \cup {starts + 1}
  /\ UNCHANGED closed

Execute(r) ==
  /\ req[r].stage = "idle"
  /\ \/ r \in aborted /\ Refuse(r, Unknown(r))
     \/ r \notin aborted /\ ~MayStart /\ Refuse(r, Unknown(r))
     \/ r \notin aborted /\ MayStart
          /\ (UseLease(r) \/ AskRenewal(r) \/ JoinStart(r) \/ StartChild(r))
  /\ UNCHANGED <<now, aborted, outbox, expiry, active, touched, crashes>>

-----------------------------------------------------------------------------
\* The continuations.

StartSettles ==
  /\ \/ /\ starting.state = "ready"
        /\ req' = [r \in Requests |->
             IF req[r].stage # "starting" THEN req[r]
             ELSE [req[r] EXCEPT !.stage = "prepared", !.lease = starting.of]]
        /\ UNCHANGED <<child, ready>>
     \/ /\ starting.state = "failed"
        /\ req' = [r \in Requests |->
             IF req[r].stage = "starting" THEN Answered(req[r], Unknown(r))
             ELSE IF child = None THEN req[r] ELSE Bereaved(req)[r]]
        /\ child' = None /\ ready' = None
  /\ starting' = NoStart
  /\ UNCHANGED <<now, starts, closed, aborted, childVars>>

\* The renewed lease is taken over, unless its child is gone.  Without a child
\* there is no lease to go on with: execute throws.
RenewalSettles(r) ==
  /\ \/ /\ req[r].stage = "renewed" /\ now < req[r].until
        /\ ready' = IF req[r].lease = child /\ ready # None THEN req[r].until ELSE ready
        /\ req' = [req EXCEPT ![r] = IF ready = None THEN Answered(@, "thrown")
                                     ELSE [@ EXCEPT !.stage = "prepared", !.lease = child]]
        /\ UNCHANGED <<child, starting>>
     \/ /\ \/ req[r].stage = "unrenewed"
           \/ req[r].stage = "renewed" /\ now >= req[r].until
        /\ TerminateWith([req EXCEPT ![r] = Answered(@, Unknown(r))])
  /\ UNCHANGED <<now, starts, closed, aborted, childVars>>

\* The request is written to whatever child there is now.
Send(r) ==
  /\ req[r].stage = "prepared"
  /\ IF r \in aborted \/ child = None
     THEN req' = [req EXCEPT ![r] = Answered(@, Unknown(r))] /\ UNCHANGED inbox
     ELSE /\ req' = [req EXCEPT ![r].stage = "waiting"]
          /\ inbox' = [inbox EXCEPT ![child] = Append(@, [type |-> "execute", of |-> r])]
  /\ UNCHANGED <<now, parentVars, aborted, alive, outbox, expiry, active, touched, crashes>>

-----------------------------------------------------------------------------
\* Events of the parent's loop.

\* (mutant: the lease is reckoned from when the answer arrives)
Reckoned(m) == now + TTL
Granted(m) == m.expires

HandleReady(m) ==
  /\ m.type = "ready"
  /\ ready' = Granted(m)
  /\ starting' = IF starting.state = "pending" THEN [starting EXCEPT !.state = "ready"] ELSE starting
  /\ UNCHANGED <<child, req>>

HandleRenewed(m) ==
  /\ m.type \in {"renewed", "protocol-error"}
  /\ req' = IF req[m.of].stage # "renewing" THEN req
            ELSE IF m.type = "renewed"
                 THEN [req EXCEPT ![m.of].stage = "renewed", ![m.of].until = Granted(m)]
                 ELSE [req EXCEPT ![m.of].stage = "unrenewed"]
  /\ UNCHANGED <<child, ready, starting>>

\* A result under another lease is not believed, and ends the child.
Fits(q) == q.lease = child /\ ready # None

HandleResult(m) ==
  /\ m.type = "result"
  /\ IF req[m.of].stage # "waiting" THEN UNCHANGED <<req, child, ready, starting>>
     ELSE IF Fits(req[m.of])
     THEN /\ req' = [req EXCEPT ![m.of] = Answered(@, m.answer)]
          /\ ready' = IF m.expires > ready THEN m.expires ELSE ready
          /\ UNCHANGED <<child, starting>>
     ELSE TerminateWith([req EXCEPT ![m.of] = Answered(@, Unknown(m.of))])

HandleLine ==
  /\ child # None /\ outbox[child] # <<>>
  /\ LET m == Head(outbox[child]) IN HandleReady(m) \/ HandleRenewed(m) \/ HandleResult(m)
  /\ outbox' = [outbox EXCEPT ![child] = Tail(@)]
  /\ UNCHANGED <<now, starts, closed, aborted, alive, inbox, expiry, active, touched, crashes>>

\* The exit of the child is noticed; lines it left may not have been read.
HandleExit ==
  /\ Quiet /\ child # None /\ child \notin alive
  /\ TerminateWith(req)
  /\ UNCHANGED <<now, starts, closed, aborted, childVars>>

\* The child did not get ready in time, or reports that it cannot.
StartTimeout ==
  /\ Quiet /\ starting.state = "pending"
  /\ starting' = [starting EXCEPT !.state = "failed"]
  /\ UNCHANGED <<now, starts, child, ready, closed, req, aborted, childVars>>

RenewalTimeout(r) ==
  /\ Quiet /\ req[r].stage = "renewing"
  /\ req' = [req EXCEPT ![r].stage = "unrenewed"]
  /\ UNCHANGED <<now, parentVars, aborted, childVars>>

Abort(r) ==
  /\ req[r].stage # "answered" /\ r \notin aborted
  /\ aborted' = aborted \cup {r}
  /\ UNCHANGED <<now, parentVars, req, childVars>>

Reconcile ==
  /\ ready # None /\ ~Usable /\ \A r \in Requests : req[r].stage # "waiting"
  /\ TerminateWith(req)
  /\ UNCHANGED <<now, starts, closed, aborted, childVars>>

Close ==
  /\ ~closed /\ closed' = TRUE
  /\ TerminateWith(req)
  /\ UNCHANGED <<now, starts, aborted, childVars>>

Tick ==
  /\ now < MaxTime /\ now' = now + 1
  /\ UNCHANGED <<parentVars, req, aborted, childVars>>

-----------------------------------------------------------------------------
\* The child.

Live(c) == expiry[c] # None /\ now < expiry[c]

Result(r, answer, c) == [type |-> "result", of |-> r, answer |-> answer, expires |-> expiry[c]]

Initialize(c, m) ==
  /\ m.type = "initialize"
  /\ expiry' = [expiry EXCEPT ![c] = now + TTL]
  /\ outbox' = [outbox EXCEPT ![c] = Append(@, [type |-> "ready", expires |-> now + TTL])]
  /\ UNCHANGED active

Renew(c, m) ==
  /\ m.type = "renew"
  /\ IF req[m.of].lease = c /\ Live(c)
     THEN /\ expiry' = [expiry EXCEPT ![c] = now + TTL]
          /\ outbox' = [outbox EXCEPT ![c] =
               Append(@, [type |-> "renewed", of |-> m.of, expires |-> now + TTL])]
     ELSE /\ outbox' = [outbox EXCEPT ![c] = Append(@, [type |-> "protocol-error", of |-> m.of])]
          /\ UNCHANGED expiry
  /\ UNCHANGED active

\* A request under another lease or an expired one is not carried out.
Accept(c, m) ==
  /\ m.type = "execute"
  /\ IF req[m.of].lease = c /\ Live(c)
     THEN active' = [active EXCEPT ![c] = @ \cup {m.of}] /\ UNCHANGED outbox
     ELSE /\ outbox' = [outbox EXCEPT ![c] = Append(@, Result(m.of, "failed", c))]
          /\ UNCHANGED active
  /\ UNCHANGED expiry

ReadLine(c) ==
  /\ c \in alive /\ inbox[c] # <<>>
  /\ LET m == Head(inbox[c]) IN Initialize(c, m) \/ Renew(c, m) \/ Accept(c, m)
  /\ inbox' = [inbox EXCEPT ![c] = Tail(@)]
  /\ UNCHANGED <<now, parentVars, req, aborted, alive, touched, crashes>>

\* The worker in the child: a request fails before its side effect begins, or
\* with an uncertain outcome, or succeeds.  An execute that throws is reported by
\* a protocol-error line, which the parent answers as it does a failed process.
Touch(c, r) ==
  /\ c \in alive /\ r \in active[c] \cap Effects /\ r \notin touched
  /\ touched' = touched \cup {r}
  /\ UNCHANGED <<now, parentVars, req, aborted, alive, inbox, outbox, expiry, active, crashes>>

Outcomes(r) ==
  IF r \in touched THEN {"ok", "uncertain"}
  ELSE IF r \in Effects THEN {"failed", "uncertain"} ELSE {"ok", "failed"}

Finish(c, r) ==
  /\ c \in alive /\ r \in active[c]
  /\ active' = [active EXCEPT ![c] = @ \ {r}]
  /\ \E answer \in Outcomes(r) :
       outbox' = [outbox EXCEPT ![c] = Append(@, Result(r, answer, c))]
  /\ UNCHANGED <<now, parentVars, req, aborted, alive, inbox, expiry, touched, crashes>>

\* A child that was told to stop does; any other may die a few times.
Die(c) ==
  /\ c \in alive
  /\ c # child \/ crashes < MaxCrashes
  /\ crashes' = IF c # child THEN crashes ELSE crashes + 1
  /\ alive' = alive \ {c}
  /\ inbox' = [inbox EXCEPT ![c] = <<>>] /\ active' = [active EXCEPT ![c] = {}]
  /\ UNCHANGED <<now, parentVars, req, aborted, outbox, expiry, touched>>

-----------------------------------------------------------------------------
Continue == StartSettles \/ \E r \in Requests : RenewalSettles(r) \/ Send(r)

Work == \E c \in Children : ReadLine(c) \/ \E r \in Requests : Finish(c, r)

Next ==
  \/ Continue \/ Work \/ HandleLine \/ HandleExit \/ StartTimeout \/ Reconcile \/ Close \/ Tick
  \/ \E r \in Requests : Execute(r) \/ Abort(r) \/ RenewalTimeout(r)
  \/ \E c \in Children : Die(c) \/ \E r \in Requests : Touch(c, r)

Spec == Init /\ [][Next]_vars

\* Continuations and the exit event come for sure, lines are read and timers
\* fire, and a running child works on.
FairSpec ==
  /\ Spec
  /\ WF_vars(Continue) /\ WF_vars(Work) /\ WF_vars(HandleLine) /\ WF_vars(HandleExit)
  /\ WF_vars(StartTimeout) /\ \A r \in Requests : WF_vars(RenewalTimeout(r))

-----------------------------------------------------------------------------
\* An answer is true for good: one that says the request failed means that no
\* side effect began or ever will, one that says it succeeded that it did.
AnswersAreTrue ==
  \A r \in Requests :
    /\ req[r].answer \in {"failed", "thrown"} => r \notin touched
    /\ req[r].answer = "ok" /\ r \in Effects => r \in touched

\* The parent never counts on a lease longer than the child does: what it sends
\* under a lease is refused only for the time it spent in the pipe.
LeaseIsGranted == ready # None => ready <= expiry[child]

\* A request that waits is in the hands of the present child or of one that is
\* gone, so that somebody will answer it.
InHand(c, r) ==
  \/ r \in active[c]
  \/ \E i \in DOMAIN inbox[c] : inbox[c][i].type = "execute" /\ inbox[c][i].of = r
  \/ \E i \in DOMAIN outbox[c] : outbox[c][i].type = "result" /\ outbox[c][i].of = r

NothingLost ==
  \A r \in Requests :
    req[r].stage = "waiting" => child # None /\ (child \in alive => InHand(child, r))

\* Closed for good: no child is kept or started, and nobody waits for one.
ClosedIsQuiet ==
  closed => child = None /\ \A r \in Requests : req[r].stage \notin {"waiting", "renewing"}

\* Types, leases, and in whose hands requests are, also around a close.
WorkerInv == TypeOK /\ LeaseIsGranted /\ NothingLost /\ ClosedIsQuiet

\* Every request that is made is answered.
EveryoneIsAnswered ==
  \A r \in Requests : req[r].stage # "idle" ~> req[r].stage = "answered"

\* "terminates expired workers": a start fails because the child is gone or did
\* not get ready in time, or the worker is closed.
StartFailsForCause ==
  starting.state = "failed" /\ ~closed => starting.of \notin alive \/ starting.of = child
===============================================================================
