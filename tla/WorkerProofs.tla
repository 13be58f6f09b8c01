----------------------------- MODULE WorkerProofs -----------------------------
(***************************************************************************)
(* Proofs about IsolatedWorker, for any requests, leases and clock.  The   *)
(* parts follow each other: nobody waits without a child or after a close; *)
(* types, with what is in the pipes; leases the child really granted;      *)
(* requests that are out are held somewhere; each has one place, so that   *)
(* no answer denies a side effect.                                         *)
(***************************************************************************)
EXTENDS IsolatedWorker, FiniteSetTheorems, SequenceTheorems, TLAPS

Waits == {"waiting", "renewing"}

\* Every request has its fields.
Fields(qs) ==
  /\ DOMAIN qs = Requests /\ qs = [r \in Requests |-> qs[r]]
  /\ \A r \in Requests : DOMAIN qs[r] = {"stage", "lease", "until", "answer"}

\* Without a child there is no lease and nobody waits; a closed worker has none.
QuietInv ==
  /\ Fields(req)
  /\ child = None => ready = None /\ \A r \in Requests : req[r].stage \notin Waits
  /\ closed => child = None

\* Once the child is gone nobody waits for it.
LEMMA BereavedWait ==
  ASSUME NEW qs, Fields(qs)
  PROVE  Fields(Bereaved(qs)) /\ \A r \in Requests : Bereaved(qs)[r].stage \notin Waits
BY DEF Bereaved, Fields, Answered, Waits

\* #terminate leaves no child and nobody waiting, if without a child nobody waited.
LEMMA Terminated ==
  ASSUME QuietInv, NEW qs, Fields(qs), TerminateWith(qs), closed' => closed \/ child' = None,
         \A r \in Requests : qs[r].stage \in Waits => req[r].stage \in Waits
  PROVE  QuietInv'
<1>1. child' = None /\ ready' = None
  BY DEF TerminateWith, QuietInv
<1>2. Fields(req') /\ \A r \in Requests : req'[r].stage \notin Waits
  <2>1. CASE child = None
    BY <2>1 DEF TerminateWith, QuietInv
  <2>2. CASE child # None
    BY <2>2, BereavedWait DEF TerminateWith
  <2>3. QED BY <2>1, <2>2
<1>3. QED BY <1>1, <1>2 DEF QuietInv, Fields

\* A request moves to a stage in which it waits only for a child that is there.
LEMMA RequestMoves ==
  ASSUME QuietInv, NEW r \in Requests, NEW v, DOMAIN v = {"stage", "lease", "until", "answer"},
         req' = [req EXCEPT ![r] = v], v.stage \in Waits => child # None,
         child' = child, closed' = closed, child = None => ready' = None
  PROVE  QuietInv'
<1>0. Fields(req)
  BY DEF QuietInv
<1>1. /\ Fields(req') /\ req'[r] = v
      /\ \A q \in Requests \ {r} : req'[q] = req[q]
  BY <1>0 DEF Fields
<1>2. closed' => child' = None
  BY DEF QuietInv
<1>3. child' = None => ready' = None /\ \A q \in Requests : req'[q].stage \notin Waits
  <2> SUFFICES ASSUME child = None PROVE ready' = None /\ \A q \in Requests : req'[q].stage \notin Waits
    OBVIOUS
  <2>1. v.stage \notin Waits /\ \A q \in Requests : req[q].stage \notin Waits
    BY DEF QuietInv
  <2>2. ASSUME NEW q \in Requests PROVE req'[q].stage \notin Waits
    BY <1>1, <2>1
  <2>3. QED BY <2>2
<1>4. Fields(req)'
  BY <1>1 DEF Fields
<1>5. QED BY <1>2, <1>3, <1>4 DEF QuietInv

\* A request's record after an answer, or with another stage or lease.
LEMMA RecordKept ==
  ASSUME Fields(req), NEW r \in Requests
  PROVE  LET F == {"stage", "lease", "until", "answer"} IN
         /\ \A a : DOMAIN Answered(req[r], a) = F /\ Answered(req[r], a).stage \notin Waits
         /\ \A s : DOMAIN [req[r] EXCEPT !.stage = s] = F /\ [req[r] EXCEPT !.stage = s].stage = s
         /\ \A s, l : /\ DOMAIN [req[r] EXCEPT !.stage = s, !.lease = l] = F
                      /\ [req[r] EXCEPT !.stage = s, !.lease = l].stage = s
         /\ \A s, u : /\ DOMAIN [req[r] EXCEPT !.stage = s, !.until = u] = F
                      /\ [req[r] EXCEPT !.stage = s, !.until = u].stage = s
BY DEF Fields, Answered, Waits

\* An answered request changes nothing else's stage.
LEMMA AnswerKeeps ==
  ASSUME Fields(req), NEW r, NEW a, NEW qs, qs = [req EXCEPT ![r] = Answered(@, a)]
  PROVE  /\ Fields(qs)
         /\ \A q \in Requests : qs[q].stage \in Waits => req[q].stage \in Waits
BY DEF Fields, Answered, Waits

\* A request that joins a start does not wait for the child.
LEMMA StageKeeps ==
  ASSUME Fields(req), NEW r, NEW s, s \notin Waits, NEW qs, qs = [req EXCEPT ![r].stage = s]
  PROVE  /\ Fields(qs)
         /\ \A q \in Requests : qs[q].stage \in Waits => req[q].stage \in Waits
BY DEF Fields, Waits

-----------------------------------------------------------------------------
\* A closed worker has no child and nobody who waits for one: no continuation
\* of an execute that was under way starts or uses another (close, #terminate,
\* #ensureReady).
THEOREM ClosedForGood == Spec => []QuietInv
<1>1. Init => QuietInv
  BY DEF Init, QuietInv, Fields, Waits
<1>2. QuietInv /\ [Next]_vars => QuietInv'
  <2> SUFFICES ASSUME QuietInv, [Next]_vars PROVE QuietInv'
    OBVIOUS
  <2>0. Fields(req) /\ (child = None => ready = None)
    BY DEF QuietInv
  <2>1. ASSUME NEW r \in Requests, Execute(r) PROVE QuietInv'
    <3>1. ASSUME NEW a, Refuse(r, a) PROVE QuietInv'
      <4>1. req' = [req EXCEPT ![r] = Answered(req[r], a)]
        BY <3>1 DEF Refuse
      <4>2. QED BY <2>0, <3>1, <4>1, RecordKept, RequestMoves DEF Refuse, parentVars
    <3>2. CASE UseLease(r)
      <4>1. req' = [req EXCEPT ![r] = [req[r] EXCEPT !.stage = "prepared", !.lease = child]]
        BY <2>0, <3>2 DEF UseLease, Fields
      <4>2. "prepared" \notin Waits
        BY DEF Waits
      <4>3. QED BY <2>0, <3>2, <4>1, <4>2, RecordKept, RequestMoves DEF UseLease, parentVars
    <3>3. CASE AskRenewal(r)
      <4>1. req' = [req EXCEPT ![r] = [req[r] EXCEPT !.stage = "renewing", !.lease = child]]
        BY <2>0, <3>3 DEF AskRenewal, Fields
      <4>2. child # None
        BY <2>0, <3>3 DEF AskRenewal, Usable
      <4>3. QED BY <2>0, <3>3, <4>1, <4>2, RecordKept, RequestMoves DEF AskRenewal, parentVars
    <3>4. CASE JoinStart(r)
      <4>1. "starting" \notin Waits
        BY DEF Waits
      <4>2. PICK qs : TerminateWith(qs) /\ qs = [req EXCEPT ![r].stage = "starting"]
        BY <3>4 DEF JoinStart
      <4>3. QED BY <2>0, <3>4, <4>1, <4>2, StageKeeps, Terminated DEF JoinStart
    <3>5. CASE StartChild(r) /\ MayStart
      <4>1. PICK qs : req' = Bereaved(qs) /\ qs = [req EXCEPT ![r].stage = "starting"]
        BY <3>5 DEF StartChild
      <4>2. Fields(qs)
        BY <2>0, <4>1, StageKeeps DEF Waits
      <4>3. Fields(req') /\ \A q \in Requests : req'[q].stage \notin Waits
        BY <4>1, <4>2, BereavedWait
      <4>4. ready' = None /\ ~closed'
        BY <3>5 DEF StartChild, MayStart
      <4>5. QED BY <4>3, <4>4 DEF QuietInv, Fields
    <3>6. QED BY <2>1, <3>1, <3>2, <3>3, <3>4, <3>5 DEF Execute
  <2>2. CASE StartSettles
    <3>1. CASE starting.state = "ready"
      <4>1. /\ child' = child /\ ready' = ready /\ closed' = closed
            /\ req' = [r \in Requests |->
                 IF req[r].stage # "starting" THEN req[r]
                 ELSE [req[r] EXCEPT !.stage = "prepared", !.lease = starting.of]]
        BY <2>2, <3>1 DEF StartSettles
      <4>2. Fields(req')
        BY <2>0, <4>1 DEF Fields
      <4>3. \A r \in Requests : req'[r].stage \in Waits => req[r].stage \in Waits
        BY <2>0, <4>1 DEF Fields, Waits
      <4>4. QED BY <4>1, <4>2, <4>3 DEF QuietInv, Fields
    <3>2. CASE starting.state = "failed"
      <4>1. /\ child' = None /\ ready' = None
            /\ req' = [r \in Requests |->
                 IF req[r].stage = "starting" THEN Answered(req[r], Unknown(r))
                 ELSE IF child = None THEN req[r] ELSE Bereaved(req)[r]]
        BY <2>2, <3>2 DEF StartSettles
      <4>2. Fields(Bereaved(req)) /\ \A r \in Requests : Bereaved(req)[r].stage \notin Waits
        BY <2>0, BereavedWait
      <4>3. ASSUME NEW r \in Requests
            PROVE  /\ DOMAIN req'[r] = {"stage", "lease", "until", "answer"}
                   /\ req'[r].stage \notin Waits
        <5>1. CASE req[r].stage = "starting"
          BY <2>0, <4>1, <5>1, RecordKept
        <5>2. CASE req[r].stage # "starting" /\ child = None
          BY <2>0, <4>1, <5>2 DEF QuietInv, Fields
        <5>3. CASE req[r].stage # "starting" /\ child # None
          BY <4>1, <4>2, <5>3 DEF Fields
        <5>4. QED BY <5>1, <5>2, <5>3
      <4>4. DOMAIN req' = Requests
        BY <4>1
      <4>5. QED BY <4>1, <4>3, <4>4 DEF QuietInv, Fields
    <3>3. QED BY <2>2, <3>1, <3>2 DEF StartSettles
  <2>3. ASSUME NEW r \in Requests, RenewalSettles(r) PROVE QuietInv'
    <3>1. CASE /\ req[r].stage = "renewed" /\ now < req[r].until
               /\ ready' = IF req[r].lease = child /\ ready # None THEN req[r].until ELSE ready
               /\ req' = [req EXCEPT ![r] = IF ready = None THEN Answered(@, "thrown")
                                            ELSE [@ EXCEPT !.stage = "prepared", !.lease = child]]
               /\ UNCHANGED <<child, starting>>
      <4>1. closed' = closed /\ child' = child /\ (child = None => ready' = None)
        BY <2>0, <2>3, <3>1 DEF RenewalSettles
      <4>2. CASE ready = None
        <5>1. req' = [req EXCEPT ![r] = Answered(req[r], "thrown")]
          BY <3>1, <4>2
        <5>2. QED BY <2>0, <4>1, <5>1, RecordKept, RequestMoves
      <4>3. CASE ready # None
        <5>1. req' = [req EXCEPT ![r] = [req[r] EXCEPT !.stage = "prepared", !.lease = child]]
          BY <3>1, <4>3
        <5>2. "prepared" \notin Waits
          BY DEF Waits
        <5>3. QED BY <2>0, <4>1, <5>1, <5>2, RecordKept, RequestMoves
      <4>4. QED BY <4>2, <4>3
    <3>2. CASE TerminateWith([req EXCEPT ![r] = Answered(@, Unknown(r))])
      <4>1. closed' = closed
        BY <2>3 DEF RenewalSettles
      <4>2. PICK qs : TerminateWith(qs) /\ qs = [req EXCEPT ![r] = Answered(@, Unknown(r))]
        BY <3>2
      <4>3. QED BY <2>0, <4>1, <4>2, AnswerKeeps, Terminated
    <3>3. QED BY <2>3, <3>1, <3>2 DEF RenewalSettles
  <2>4. ASSUME NEW r \in Requests, Send(r) PROVE QuietInv'
    <3>1. child' = child /\ closed' = closed /\ ready' = ready
      BY <2>4 DEF Send, parentVars
    <3>2. CASE r \in aborted \/ child = None
      <4>1. req' = [req EXCEPT ![r] = Answered(req[r], Unknown(r))]
        BY <2>4, <3>2 DEF Send
      <4>2. QED BY <2>0, <3>1, <4>1, RecordKept, RequestMoves
    <3>3. CASE r \notin aborted /\ child # None
      <4>1. req' = [req EXCEPT ![r] = [req[r] EXCEPT !.stage = "waiting"]]
        BY <2>4, <3>3 DEF Send
      <4>2. QED BY <2>0, <3>1, <3>3, <4>1, RecordKept, RequestMoves
    <3>4. QED BY <3>2, <3>3
  <2>5. CASE HandleLine
    <3>1. PICK m : HandleReady(m) \/ HandleRenewed(m) \/ HandleResult(m)
      BY <2>5 DEF HandleLine
    <3>2. child # None /\ closed' = closed
      BY <2>5 DEF HandleLine
    <3>3. ASSUME child' = child, Fields(req') PROVE QuietInv'
      BY <3>2, <3>3 DEF QuietInv, Fields
    <3>4. CASE HandleReady(m)
      BY <2>0, <3>3, <3>4 DEF HandleReady
    <3>5. CASE HandleRenewed(m)
      <4>1. child' = child
        BY <3>5 DEF HandleRenewed
      <4>2. Fields(req')
        BY <2>0, <3>5 DEF HandleRenewed, Fields
      <4>3. QED BY <3>3, <4>1, <4>2
    <3>6. CASE HandleResult(m)
      <4>1. CASE child' = child /\ req' = req
        BY <2>0, <3>3, <4>1
      <4>2. CASE child' = child /\ req' = [req EXCEPT ![m.of] = Answered(@, m.answer)]
        BY <2>0, <3>3, <4>2, AnswerKeeps
      <4>3. CASE TerminateWith([req EXCEPT ![m.of] = Answered(@, Unknown(m.of))])
        <5>1. PICK qs : TerminateWith(qs) /\ qs = [req EXCEPT ![m.of] = Answered(@, Unknown(m.of))]
          BY <4>3
        <5>2. QED BY <2>0, <3>2, <5>1, AnswerKeeps, Terminated
      <4>4. QED BY <3>6, <4>1, <4>2, <4>3 DEF HandleResult
    <3>7. QED BY <3>1, <3>4, <3>5, <3>6
  <2>6. CASE HandleExit \/ Reconcile \/ Close
    BY <2>6, Terminated DEF HandleExit, Reconcile, Close, QuietInv, TerminateWith
  <2>7. ASSUME NEW r \in Requests, RenewalTimeout(r) PROVE QuietInv'
    <3>1. req' = [req EXCEPT ![r] = [req[r] EXCEPT !.stage = "unrenewed"]]
      BY <2>7 DEF RenewalTimeout
    <3>2. "unrenewed" \notin Waits
      BY DEF Waits
    <3>3. QED BY <2>0, <2>7, <3>1, <3>2, RecordKept, RequestMoves DEF RenewalTimeout, parentVars
  <2>8. ASSUME UNCHANGED <<child, ready, closed, req>> PROVE QuietInv'
    BY <2>8 DEF QuietInv, Fields
  <2>9. CASE StartTimeout \/ Tick \/ Work \/ UNCHANGED vars
    BY <2>8, <2>9 DEF StartTimeout, Tick, Work, ReadLine, Finish, vars, parentVars
  <2>10. ASSUME NEW r \in Requests, Abort(r) PROVE QuietInv'
    BY <2>8, <2>10 DEF Abort, parentVars
  <2>11. ASSUME NEW c \in Children, Die(c) PROVE QuietInv'
    BY <2>8, <2>11 DEF Die, parentVars
  <2>12. ASSUME NEW c \in Children, NEW r \in Requests, Touch(c, r) PROVE QuietInv'
    BY <2>8, <2>12 DEF Touch, parentVars
  <2>13. QED
    BY <2>1, <2>2, <2>3, <2>4, <2>5, <2>6, <2>7, <2>9, <2>10, <2>11, <2>12 DEF Next, Continue
<1>3. QED BY <1>1, <1>2, PTL DEF Spec

\* Closed for good: no child is kept or started, and nobody waits for one.
THEOREM CloseIsQuiet == Spec => []ClosedIsQuiet
<1>1. QuietInv => ClosedIsQuiet
  BY DEF QuietInv, ClosedIsQuiet, Waits
<1>2. QED BY <1>1, ClosedForGood, PTL

-----------------------------------------------------------------------------
\* What happens to a request.

Unsent == {"idle", "starting", "renewing", "renewed", "unrenewed", "prepared"}

\* m is the line of the child that the parent handles next.
Handled(m) == child # None /\ outbox[child] # <<>> /\ m = Head(outbox[child])

\* A step takes the request r from the record q to p.
Moved(r, q, p) ==
  \/ p = q
  \/ q.stage # "answered" /\ p = Answered(q, Unknown(r))
  \/ q.stage = "idle" /\ p = [q EXCEPT !.stage = "starting"]
  \/ /\ q.stage \in {"idle", "starting", "renewed"}
     /\ \E c \in 0 .. starts : p = [q EXCEPT !.stage = "prepared", !.lease = c]
  \/ q.stage = "idle" /\ child' = child /\ p = [q EXCEPT !.stage = "renewing", !.lease = child]
  \/ q.stage = "renewing" /\ p = [q EXCEPT !.stage = "unrenewed"]
  \/ /\ q.stage = "renewing" /\ child' = child
     /\ \E m : /\ Handled(m) /\ m.type = "renewed" /\ m.of = r
               /\ p = [q EXCEPT !.stage = "renewed", !.until = m.expires]
  \/ q.stage = "renewed" /\ p = Answered(q, "thrown")
  \/ q.stage = "prepared" /\ Send(r) /\ p = [q EXCEPT !.stage = "waiting"]
  \/ /\ q.stage = "waiting"
     /\ \E m : Handled(m) /\ m.type = "result" /\ m.of = r /\ p = Answered(q, m.answer)

\* Three of them.
LEMMA SomeMoves ==
  ASSUME NEW r, NEW q, NEW p,
         \/ p = q
         \/ q.stage # "answered" /\ p = Answered(q, Unknown(r))
         \/ q.stage = "renewing" /\ p = [q EXCEPT !.stage = "unrenewed"]
  PROVE  Moved(r, q, p)
BY DEF Moved

\* What lines and requests are made of.
LEMMA LineTypes ==
  /\ \A m \in ToChild :
       /\ m.type \in {"initialize", "renew", "execute"}
       /\ m.type # "initialize" => m.of \in Requests
  /\ \A m \in ToParent :
       /\ m.type \in {"ready", "renewed", "protocol-error", "result"}
       /\ m.type # "ready" => m.of \in Requests
       /\ m.type # "protocol-error" => m.expires \in 0 .. MaxTime + TTL
       /\ m.type = "result" => m.answer \in {"ok", "failed", "uncertain"}
BY DEF ToChild, ToParent

LEMMA HandledTypes ==
  ASSUME TypeOK, NEW m, Handled(m)
  PROVE  m \in ToParent /\ child \in Children
<1>1. child \in Children
  BY WorkerAssumption, FS_CardinalityType DEF TypeOK, ParentTypes, Handled, Children, None
<1>2. outbox[child] \in Seq(ToParent)
  BY <1>1 DEF TypeOK, ChildTypes
<1>3. QED BY <1>1, <1>2, HeadTailProperties DEF Handled

\* The end of the child, for one request.
LEMMA BereavedRequest ==
  ASSUME NEW qs, NEW r \in Requests
  PROVE  \/ qs[r].stage = "waiting" /\ Bereaved(qs)[r] = Answered(qs[r], Unknown(r))
         \/ qs[r].stage = "renewing" /\ Bereaved(qs)[r] = [qs[r] EXCEPT !.stage = "unrenewed"]
         \/ qs[r].stage \notin Waits /\ Bereaved(qs)[r] = qs[r]
BY DEF Bereaved, Waits

\* #terminate, after the request x has moved, if it did.
LEMMA TerminatedRequest ==
  ASSUME Fields(req), NEW x \in Requests, NEW v, v.stage \notin Waits, Moved(x, req[x], v),
         NEW qs, qs \in {[req EXCEPT ![x] = v], req}, req' \in {qs, Bereaved(qs)},
         NEW r \in Requests
  PROVE  Moved(r, req[r], req'[r])
<1>1. qs[r] = req[r] \/ (r = x /\ qs[r] = v)
  BY Zenon DEF Fields
<1>2. CASE req' = qs
  BY <1>1, <1>2, SomeMoves
<1>3. CASE req' = Bereaved(qs) /\ qs[r] = req[r]
  BY <1>3, BereavedRequest, SomeMoves
<1>4. CASE req' = Bereaved(qs) /\ r = x /\ qs[r] = v
  BY <1>4, BereavedRequest DEF Waits
<1>5. QED BY <1>1, <1>2, <1>3, <1>4

\* Every step moves every request in one of these ways.
LEMMA RequestsMove ==
  ASSUME TypeOK, [Next]_vars, NEW r \in Requests
  PROVE  Moved(r, req[r], req'[r])
<1>1. /\ Fields(req) /\ DOMAIN req = Requests
      /\ child \in 0 .. starts /\ starting.of \in 0 .. starts
  BY WorkerAssumption, FS_CardinalityType DEF Fields, TypeOK, ParentTypes, RequestTypes, None
<1>2. CASE req' = req
  BY <1>2, SomeMoves
<1>3. ASSUME NEW x \in Requests, NEW v, req' = [req EXCEPT ![x] = v], Moved(x, req[x], v)
      PROVE  Moved(r, req[r], req'[r])
  <2>1. req'[r] = IF r = x THEN v ELSE req[r]
    BY <1>1, <1>3
  <2>2. CASE r = x
    BY <1>3, <2>1, <2>2
  <2>3. CASE r # x
    BY <2>1, <2>3, SomeMoves
  <2>4. QED BY <2>2, <2>3
<1>4. ASSUME NEW x \in Requests, NEW v, v.stage \notin Waits, Moved(x, req[x], v),
             TerminateWith([req EXCEPT ![x] = v])
      PROVE  Moved(r, req[r], req'[r])
  <2>1. req' \in {[req EXCEPT ![x] = v], Bereaved([req EXCEPT ![x] = v])}
    BY <1>4 DEF TerminateWith
  <2>2. QED BY <1>1, <1>4, <2>1, TerminatedRequest
<1>5. CASE TerminateWith(req)
  <2>1. req' \in {req, Bereaved(req)}
    BY <1>5 DEF TerminateWith
  <2>2. QED BY <2>1, BereavedRequest, SomeMoves
<1>6. ASSUME NEW x \in Requests, Execute(x) PROVE Moved(r, req[r], req'[r])
  <2>1. req[x].stage = "idle"
    BY <1>6 DEF Execute
  <2>2. ASSUME Refuse(x, Unknown(x)) PROVE Moved(r, req[r], req'[r])
    <3>1. req' = [req EXCEPT ![x] = Answered(req[x], Unknown(x))]
      BY <2>2 DEF Refuse
    <3>2. Moved(x, req[x], Answered(req[x], Unknown(x)))
      BY <2>1 DEF Moved
    <3>3. QED BY <1>3, <3>1, <3>2
  <2>3. CASE UseLease(x)
    <3>1. req' = [req EXCEPT ![x] = [req[x] EXCEPT !.stage = "prepared", !.lease = child]]
      BY <1>1, <2>3 DEF UseLease
    <3>2. Moved(x, req[x], [req[x] EXCEPT !.stage = "prepared", !.lease = child])
      BY <1>1, <2>1 DEF Moved
    <3>3. QED BY <1>3, <3>1, <3>2
  <2>4. CASE AskRenewal(x)
    <3>1. req' = [req EXCEPT ![x] = [req[x] EXCEPT !.stage = "renewing", !.lease = child]]
      BY <1>1, <2>4 DEF AskRenewal
    <3>2. Moved(x, req[x], [req[x] EXCEPT !.stage = "renewing", !.lease = child])
      BY <2>1, <2>4 DEF Moved, AskRenewal, parentVars
    <3>3. QED BY <1>3, <3>1, <3>2
  <2>5. CASE JoinStart(x) \/ StartChild(x)
    <3>1. PICK v : v = [req[x] EXCEPT !.stage = "starting"]
      OBVIOUS
    <3>2. [req EXCEPT ![x].stage = "starting"] = [req EXCEPT ![x] = v]
      BY <3>1
    <3>3. v.stage \notin Waits /\ Moved(x, req[x], v)
      <4>1. v.stage = "starting"
        BY <1>1, <3>1 DEF Fields
      <4>2. QED BY <2>1, <3>1, <4>1 DEF Moved, Waits
    <3>4. PICK qs : qs = [req EXCEPT ![x] = v] /\ req' \in {qs, Bereaved(qs)}
      BY <2>5, <3>2 DEF JoinStart, StartChild, TerminateWith
    <3>5. QED BY <1>1, <3>3, <3>4, TerminatedRequest
  <2>6. QED BY <1>6, <2>2, <2>3, <2>4, <2>5 DEF Execute
<1>7. CASE StartSettles
  <2>1. CASE starting.state = "ready"
    <3>1. req'[r] = IF req[r].stage # "starting" THEN req[r]
                    ELSE [req[r] EXCEPT !.stage = "prepared", !.lease = starting.of]
      BY <1>7, <2>1 DEF StartSettles
    <3>2. QED BY <1>1, <3>1 DEF Moved
  <2>2. CASE starting.state = "failed"
    <3>1. req'[r] = IF req[r].stage = "starting" THEN Answered(req[r], Unknown(r))
                    ELSE IF child = None THEN req[r] ELSE Bereaved(req)[r]
      BY <1>7, <2>2 DEF StartSettles
    <3>2. QED BY <3>1, BereavedRequest, SomeMoves
  <2>3. QED BY <1>7, <2>1, <2>2 DEF StartSettles
<1>8. ASSUME NEW x \in Requests, RenewalSettles(x) PROVE Moved(r, req[r], req'[r])
  <2>1. CASE /\ req[x].stage = "renewed"
             /\ req' = [req EXCEPT ![x] = IF ready = None THEN Answered(@, "thrown")
                                          ELSE [@ EXCEPT !.stage = "prepared", !.lease = child]]
    <3>1. PICK v : /\ req' = [req EXCEPT ![x] = v]
                   /\ v \in {Answered(req[x], "thrown"),
                             [req[x] EXCEPT !.stage = "prepared", !.lease = child]}
      BY <2>1
    <3>2. Moved(x, req[x], v)
      BY <1>1, <2>1, <3>1 DEF Moved
    <3>3. QED BY <1>3, <3>1, <3>2
  <2>2. CASE /\ req[x].stage \in {"renewed", "unrenewed"}
             /\ TerminateWith([req EXCEPT ![x] = Answered(@, Unknown(x))])
    <3>1. PICK v : v = Answered(req[x], Unknown(x))
      OBVIOUS
    <3>2. v.stage \notin Waits /\ Moved(x, req[x], v)
      BY <1>1, <2>2, <3>1, RecordKept DEF Moved
    <3>3. QED BY <1>4, <2>2, <3>1, <3>2
  <2>3. QED BY <1>8, <2>1, <2>2 DEF RenewalSettles
<1>9. ASSUME NEW x \in Requests, Send(x) PROVE Moved(r, req[r], req'[r])
  <2>1. PICK v : /\ req' = [req EXCEPT ![x] = v]
                 /\ v \in {Answered(req[x], Unknown(x)), [req[x] EXCEPT !.stage = "waiting"]}
    BY <1>9 DEF Send
  <2>2. Moved(x, req[x], v)
    BY <1>9, <2>1 DEF Send, Moved
  <2>3. QED BY <1>3, <2>1, <2>2
<1>10. CASE HandleLine
  <2>1. PICK m : Handled(m) /\ (HandleReady(m) \/ HandleRenewed(m) \/ HandleResult(m))
    BY <1>10 DEF HandleLine, Handled
  <2>2. m.type # "ready" => m.of \in Requests
    BY <2>1, HandledTypes, LineTypes
  <2> PICK x : x = m.of
    OBVIOUS
  <2>3. CASE x \in Requests /\ HandleRenewed(m)
    <3>1. CASE req[x].stage = "renewing"
      <4>1. PICK v : /\ req' = [req EXCEPT ![x] = v]
                     /\ \/ v = [req[x] EXCEPT !.stage = "unrenewed"]
                        \/ m.type = "renewed" /\ v = [req[x] EXCEPT !.stage = "renewed", !.until = m.expires]
        BY <1>1, <2>3, <3>1 DEF HandleRenewed, Granted
      <4>2. Moved(x, req[x], v)
        BY <2>1, <2>3, <3>1, <4>1 DEF Moved, HandleRenewed
      <4>3. QED BY <1>3, <2>3, <4>1, <4>2
    <3>2. QED BY <1>2, <2>3, <3>1 DEF HandleRenewed
  <2>4. CASE x \in Requests /\ HandleResult(m)
    <3>1. CASE req[x].stage = "waiting" /\ Fits(req[x])
      <4>1. req' = [req EXCEPT ![x] = Answered(req[x], m.answer)]
        BY <2>4, <3>1 DEF HandleResult
      <4>2. Moved(x, req[x], Answered(req[x], m.answer))
        BY <2>1, <2>4, <3>1 DEF Moved, HandleResult
      <4>3. QED BY <1>3, <2>4, <4>1, <4>2
    <3>2. CASE req[x].stage = "waiting" /\ ~Fits(req[x])
      <4>1. PICK v : v = Answered(req[x], Unknown(x))
        OBVIOUS
      <4>2. v.stage \notin Waits /\ Moved(x, req[x], v)
        BY <1>1, <2>4, <3>2, <4>1, RecordKept DEF Moved
      <4>3. TerminateWith([req EXCEPT ![x] = v])
        BY <2>4, <3>2, <4>1 DEF HandleResult
      <4>4. QED BY <1>4, <2>4, <4>2, <4>3
    <3>3. QED BY <1>2, <2>4, <3>1, <3>2 DEF HandleResult
  <2>5. QED BY <1>2, <2>1, <2>2, <2>3, <2>4 DEF HandleReady, HandleRenewed, HandleResult
<1>11. CASE HandleExit \/ Reconcile \/ Close
  BY <1>5, <1>11 DEF HandleExit, Reconcile, Close
<1>12. ASSUME NEW x \in Requests, RenewalTimeout(x) PROVE Moved(r, req[r], req'[r])
  <2>1. PICK v : req' = [req EXCEPT ![x] = v] /\ v = [req[x] EXCEPT !.stage = "unrenewed"]
    BY <1>12 DEF RenewalTimeout
  <2>2. Moved(x, req[x], v)
    BY <1>12, <2>1 DEF RenewalTimeout, Moved
  <2>3. QED BY <1>3, <2>1, <2>2
<1>13. CASE StartTimeout \/ Tick \/ Work \/ UNCHANGED vars
  BY <1>2, <1>13 DEF StartTimeout, Tick, Work, ReadLine, Finish, vars
<1>14. ASSUME NEW x \in Requests, Abort(x) PROVE Moved(r, req[r], req'[r])
  BY <1>2, <1>14 DEF Abort
<1>15. ASSUME NEW c \in Children, Die(c) \/ \E x \in Requests : Touch(c, x)
       PROVE  Moved(r, req[r], req'[r])
  BY <1>2, <1>15 DEF Die, Touch
<1>16. QED
  BY <1>6, <1>7, <1>8, <1>9, <1>10, <1>11, <1>12, <1>13, <1>14, <1>15 DEF Next, Continue

-----------------------------------------------------------------------------
\* Types.

\* The requests that were made; each starts one child at most.
Begun(qs) == {r \in Requests : qs[r].stage # "idle"}

TypesInv == TypeOK /\ starts <= Cardinality(Begun(req))

LEMMA MayBegin ==
  ASSUME TypesInv, NEW r \in Requests, req[r].stage = "idle"
  PROVE  starts + 1 <= Cardinality(Begun(req)) + 1 /\ starts + 1 <= Cardinality(Requests)
<1>1. /\ IsFiniteSet(Begun(req)) /\ Cardinality(Begun(req)) \in Nat /\ Cardinality(Requests) \in Nat
  <2>1. Begun(req) \subseteq Requests
    BY DEF Begun
  <2>2. QED BY <2>1, WorkerAssumption, FS_Subset, FS_CardinalityType
<1>2. r \notin Begun(req) /\ Begun(req) \cup {r} \subseteq Requests
  BY DEF Begun
<1>3. Cardinality(Begun(req) \cup {r}) = Cardinality(Begun(req)) + 1
  BY <1>1, <1>2, FS_AddElement
<1>4. Cardinality(Begun(req) \cup {r}) <= Cardinality(Requests)
  BY <1>2, WorkerAssumption, FS_Subset
<1>5. QED BY <1>1, <1>3, <1>4 DEF TypesInv, TypeOK, ParentTypes

\* A request that was made stays so, and keeps its type.
LEMMA MoveTyped ==
  ASSUME TypeOK, [Next]_vars, NEW r \in Requests, starts' \in Nat, starts <= starts'
  PROVE  /\ req'[r] \in [stage : Stages, lease : 0 .. starts', until : 0 .. MaxTime + TTL, answer : Answers]
         /\ req'[r].answer # "none" <=> req'[r].stage = "answered"
         /\ req[r].stage # "idle" => req'[r].stage # "idle"
<1> DEFINE Req(n) == [stage : Stages, lease : 0 .. n, until : 0 .. MaxTime + TTL, answer : Answers]
<1>1. Moved(r, req[r], req'[r])
  BY RequestsMove
<1>2. /\ req[r] \in Req(starts) /\ (req[r].answer # "none" <=> req[r].stage = "answered")
      /\ starts \in Nat /\ child \in 0 .. starts
  BY WorkerAssumption, FS_CardinalityType DEF TypeOK, RequestTypes, ParentTypes, None
<1>3. \A m : Handled(m) =>
        /\ m.type = "renewed" => m.expires \in 0 .. MaxTime + TTL
        /\ m.type = "result" => m.answer \in {"ok", "failed", "uncertain"}
  BY HandledTypes, LineTypes
<1>4. Unknown(r) \in {"failed", "uncertain"}
  BY DEF Unknown
<1>5. PICK q, p : q = req[r] /\ p = req'[r]
  OBVIOUS
<1>6. ASSUME NEW a \in Answers \ {"none"}, p = Answered(q, a)
      PROVE  p \in Req(starts) /\ (p.answer # "none" <=> p.stage = "answered") /\ p.stage # "idle"
  BY <1>2, <1>5, <1>6 DEF Answered, Answers, Stages
<1>7. ASSUME NEW s \in Stages, NEW c \in 0 .. starts, NEW u \in 0 .. MaxTime + TTL,
             s \notin {"idle", "answered"}, q.stage # "answered",
             p \in {[q EXCEPT !.stage = s], [q EXCEPT !.stage = s, !.lease = c],
                    [q EXCEPT !.stage = s, !.until = u]}
      PROVE  p \in Req(starts) /\ (p.answer # "none" <=> p.stage = "answered") /\ p.stage # "idle"
  BY <1>2, <1>5, <1>7
<1>8. /\ p \in Req(starts) /\ (p.answer # "none" <=> p.stage = "answered")
      /\ q.stage # "idle" => p.stage # "idle"
  <2>0. 0 \in 0 .. starts /\ 0 \in 0 .. MaxTime + TTL
    BY <1>2, WorkerAssumption
  <2>1. CASE p = q
    BY <1>2, <1>5, <2>1
  <2>2. ASSUME NEW a \in {"ok", "failed", "uncertain", "thrown"}, p = Answered(q, a)
        PROVE  p \in Req(starts) /\ (p.answer # "none" <=> p.stage = "answered") /\ p.stage # "idle"
    BY <1>6, <2>2 DEF Answers
  <2>3. ASSUME NEW s \in {"starting", "unrenewed", "waiting"}, q.stage # "answered", p = [q EXCEPT !.stage = s]
        PROVE  p \in Req(starts) /\ (p.answer # "none" <=> p.stage = "answered") /\ p.stage # "idle"
    BY <1>7, <2>0, <2>3 DEF Stages
  <2>4. ASSUME NEW s \in {"prepared", "renewing"}, NEW c \in 0 .. starts, q.stage # "answered",
               p = [q EXCEPT !.stage = s, !.lease = c]
        PROVE  p \in Req(starts) /\ (p.answer # "none" <=> p.stage = "answered") /\ p.stage # "idle"
    BY <1>7, <2>0, <2>4 DEF Stages
  <2>5. ASSUME NEW u \in 0 .. MaxTime + TTL, q.stage # "answered",
               p = [q EXCEPT !.stage = "renewed", !.until = u]
        PROVE  p \in Req(starts) /\ (p.answer # "none" <=> p.stage = "answered") /\ p.stage # "idle"
    BY <1>7, <2>0, <2>5 DEF Stages
  <2>6. Moved(r, q, p)
    BY <1>1, <1>5
  <2> HIDE DEF Req
  <2>7. QED BY <1>2, <1>3, <1>4, <2>1, <2>2, <2>3, <2>4, <2>5, <2>6 DEF Moved
<1>9. Req(starts) \subseteq Req(starts')
  BY <1>2
<1>10. QED BY <1>5, <1>8, <1>9

\* What #terminate makes of the parent.
LEMMA TerminatedTypes ==
  ASSUME ParentTypes, NEW qs, TerminateWith(qs), UNCHANGED starts, closed' \in BOOLEAN,
         aborted' \subseteq Requests
  PROVE  ParentTypes'
BY WorkerAssumption DEF ParentTypes, TerminateWith, StartLost, None

\* The pipes after a line was added, or read.
LEMMA LineAdded ==
  ASSUME NEW S, NEW box \in [Children -> Seq(S)], NEW c, NEW m, c \in Children => m \in S
  PROVE  [box EXCEPT ![c] = Append(@, m)] \in [Children -> Seq(S)]
BY AppendProperties

LEMMA LineRead ==
  ASSUME NEW S, NEW box \in [Children -> Seq(S)], NEW c, c \in Children => box[c] # <<>>
  PROVE  [box EXCEPT ![c] = Tail(@)] \in [Children -> Seq(S)]
BY HeadTailProperties

\* The types of the child, when the clock and the parent do something.
LEMMA ChildKept ==
  ASSUME ChildTypes, UNCHANGED <<alive, inbox, outbox, expiry, active, touched, crashes, starts>>,
         now' \in 0 .. MaxTime
  PROVE  ChildTypes'
BY DEF ChildTypes

\* Everything is of its type.
THEOREM WorkerTypes == Spec => []TypesInv
<1>1. Init => TypesInv
  <2> SUFFICES ASSUME Init PROVE TypesInv
    OBVIOUS
  <2>1. Cardinality(Requests) \in Nat /\ MaxTime \in Nat /\ TTL \in Nat /\ MaxCrashes \in Nat
    BY WorkerAssumption, FS_CardinalityType
  <2>2. ParentTypes
    <3>1. /\ starts = 0 /\ child = 0 /\ ready = 0 /\ closed = FALSE /\ aborted = {}
          /\ starting = [of |-> 0, state |-> "none"]
      BY DEF Init, NoStart, None
    <3>2. 0 \in 0 .. 0 /\ 0 \in 0 .. Cardinality(Requests) /\ 0 \in 0 .. MaxTime + TTL
      BY <2>1
    <3>3. QED BY <3>1, <3>2 DEF ParentTypes, None
  <2>3. RequestTypes
    BY <2>1 DEF Init, RequestTypes, None, Stages, Answers
  <2>4. ChildTypes
    BY <2>1 DEF Init, ChildTypes, None
  <2>5. Begun(req) = {}
    BY DEF Init, Begun
  <2>6. starts = 0 /\ Cardinality(Begun(req)) = 0
    BY <2>5, FS_EmptySet DEF Init
  <2>7. QED BY <2>2, <2>3, <2>4, <2>6 DEF TypesInv, TypeOK
<1>2. TypesInv /\ QuietInv /\ QuietInv' /\ [Next]_vars => TypesInv'
  <2> SUFFICES ASSUME TypesInv, QuietInv, QuietInv', [Next]_vars PROVE TypesInv'
    OBVIOUS
  <2>0. /\ TypeOK /\ ParentTypes /\ RequestTypes /\ ChildTypes
        /\ Cardinality(Requests) \in Nat /\ MaxTime \in Nat /\ TTL \in Nat \ {0} /\ MaxCrashes \in Nat
        /\ starts \in Nat /\ child \in 0 .. starts /\ now \in Nat
        /\ ready # None => child # None
        /\ child # None => child \in Children
    BY WorkerAssumption, FS_CardinalityType
       DEF TypesInv, TypeOK, ParentTypes, RequestTypes, ChildTypes, Children, None
  <2>1. ASSUME starts' \in Nat, starts <= starts' PROVE RequestTypes' /\ Begun(req) \subseteq Begun(req')
    <3>1. req' = [r \in Requests |-> req'[r]]
      BY <2>0 DEF QuietInv, Fields
    <3>2. ASSUME NEW r \in Requests
          PROVE  /\ req'[r] \in [stage : Stages, lease : 0 .. starts', until : 0 .. MaxTime + TTL, answer : Answers]
                 /\ req'[r].answer # "none" <=> req'[r].stage = "answered"
                 /\ req[r].stage # "idle" => req'[r].stage # "idle"
      BY <2>0, <2>1, MoveTyped
    <3>3. RequestTypes'
      BY <3>1, <3>2 DEF RequestTypes
    <3>4. QED BY <3>2, <3>3 DEF Begun
  <2>2. IsFiniteSet(Begun(req')) /\ Cardinality(Begun(req')) \in Nat /\ Cardinality(Begun(req)) \in Nat
    <3>1. Begun(req) \subseteq Requests /\ Begun(req') \subseteq Requests
      BY DEF Begun
    <3>2. QED BY <3>1, WorkerAssumption, FS_Subset, FS_CardinalityType
  <2>3. ASSUME starts' = starts, ParentTypes', ChildTypes' PROVE TypesInv'
    <3>1. RequestTypes' /\ Begun(req) \subseteq Begun(req')
      BY <2>0, <2>1, <2>3
    <3>2. Cardinality(Begun(req)) <= Cardinality(Begun(req'))
      BY <2>2, <3>1, FS_Subset
    <3>3. starts' <= Cardinality(Begun(req'))
      BY <2>0, <2>2, <2>3, <3>2 DEF TypesInv
    <3>4. QED BY <2>3, <3>1, <3>3 DEF TypesInv, TypeOK
  <2>4. ASSUME NEW qs, TerminateWith(qs), closed' \in BOOLEAN,
               UNCHANGED <<now, starts, aborted, alive, inbox, outbox, expiry, active, touched, crashes>>
        PROVE  TypesInv'
    <3>1. ParentTypes'
      BY <2>0, <2>4, TerminatedTypes DEF ParentTypes
    <3>2. ChildTypes'
      BY <2>0, <2>4, ChildKept DEF ChildTypes
    <3>3. QED BY <2>3, <2>4, <3>1, <3>2
  <2>5. ASSUME NEW r \in Requests, Execute(r) PROVE TypesInv'
    <3>0. UNCHANGED <<now, aborted, outbox, expiry, active, touched, crashes>>
      BY <2>5 DEF Execute
    <3>1. CASE Refuse(r, Unknown(r)) \/ UseLease(r)
      <4>1. ParentTypes' /\ ChildTypes' /\ starts' = starts
        BY <2>0, <3>0, <3>1 DEF Refuse, UseLease, parentVars, ParentTypes, ChildTypes
      <4>2. QED BY <2>3, <4>1
    <3>2. CASE AskRenewal(r)
      <4>1. inbox' = [inbox EXCEPT ![child] = Append(@, [type |-> "renew", of |-> r])]
            /\ UNCHANGED <<starts, child, ready, starting, closed, alive>>
        BY <3>2 DEF AskRenewal, parentVars
      <4>2. [type |-> "renew", of |-> r] \in ToChild
        BY DEF ToChild
      <4>3. inbox' \in [Children -> Seq(ToChild)]
        BY <2>0, <4>1, <4>2, LineAdded DEF ChildTypes
      <4>4. ParentTypes' /\ ChildTypes'
        BY <2>0, <3>0, <4>1, <4>3 DEF ParentTypes, ChildTypes
      <4>5. QED BY <2>3, <4>1, <4>4
    <3>3. CASE JoinStart(r)
      <4>1. /\ UNCHANGED <<starts, closed, inbox, alive>>
            /\ \E qs : TerminateWith(qs)
        BY <3>3 DEF JoinStart
      <4>2. QED BY <2>0, <2>4, <3>0, <4>1 DEF ParentTypes
    <3>4. CASE StartChild(r)
      <4>1. /\ starts' = starts + 1 /\ child' = starts + 1 /\ ready' = None /\ closed' = closed
            /\ starting' = [of |-> starts + 1, state |-> "pending"]
            /\ inbox' = [inbox EXCEPT ![starts + 1] = <<[type |-> "initialize"]>>]
            /\ alive' = alive \cup {starts + 1}
        BY <3>4 DEF StartChild
      <4>2. req[r].stage = "idle"
        BY <2>5 DEF Execute
      <4>3. starts + 1 <= Cardinality(Requests)
        BY <4>2, MayBegin
      <4>4. ParentTypes'
        BY <2>0, <3>0, <4>1, <4>3 DEF ParentTypes, None
      <4>5. inbox' \in [Children -> Seq(ToChild)]
        <5>1. [type |-> "initialize"] \in ToChild
          BY DEF ToChild
        <5>2. <<[type |-> "initialize"]>> \in Seq(ToChild)
          BY <5>1
        <5>3. QED BY <2>0, <4>1, <5>2 DEF ChildTypes
      <4>6. ChildTypes'
        <5>1. alive' \subseteq 1 .. starts'
          BY <2>0, <4>1 DEF ChildTypes
        <5>2. QED BY <2>0, <3>0, <4>5, <5>1 DEF ChildTypes
      <4>7. RequestTypes' /\ Begun(req) \subseteq Begun(req')
        BY <2>0, <2>1, <4>1
      <4>8. r \in Begun(req') /\ r \notin Begun(req)
        <5>1. PICK qs : qs = [req EXCEPT ![r].stage = "starting"] /\ req' = Bereaved(qs)
          BY <3>4 DEF StartChild
        <5>2. qs[r].stage = "starting"
          BY <5>1 DEF QuietInv, Fields
        <5>3. req'[r].stage = "starting"
          BY <5>1, <5>2, BereavedRequest DEF Waits
        <5>4. QED BY <4>2, <5>3 DEF Begun
      <4>9. starts' <= Cardinality(Begun(req'))
        <5>1. Begun(req) \cup {r} \subseteq Begun(req')
          BY <4>7, <4>8
        <5>2. IsFiniteSet(Begun(req))
          BY <2>2, <5>1, FS_Subset
        <5>3. Cardinality(Begun(req) \cup {r}) = Cardinality(Begun(req)) + 1
          BY <4>8, <5>2, FS_AddElement
        <5>4. Cardinality(Begun(req) \cup {r}) <= Cardinality(Begun(req'))
          BY <2>2, <5>1, FS_Subset
        <5>5. QED BY <2>0, <2>2, <4>1, <5>3, <5>4 DEF TypesInv
      <4>10. QED BY <4>4, <4>6, <4>7, <4>9 DEF TypesInv, TypeOK
    <3>5. QED BY <2>5, <3>1, <3>2, <3>3, <3>4 DEF Execute
  <2>6. CASE StartSettles
    <3>1. ParentTypes' /\ starts' = starts
      <4>1. starting' \in [of : 0 .. starts, state : {"none", "pending", "ready", "failed"}]
        <5>1. starting' = NoStart
          BY <2>6 DEF StartSettles
        <5>2. 0 \in 0 .. starts
          BY <2>0
        <5>3. QED BY <5>1, <5>2 DEF NoStart, None
      <4>2. (UNCHANGED <<child, ready>> \/ (child' = None /\ ready' = None)) /\ UNCHANGED <<starts, closed, aborted>>
        BY <2>6 DEF StartSettles
      <4>3. QED BY <2>0, <4>1, <4>2 DEF ParentTypes, None
    <3>2. ChildTypes'
      BY <2>0, <2>6, ChildKept DEF StartSettles, childVars, ChildTypes
    <3>3. QED BY <2>3, <3>1, <3>2
  <2>7. ASSUME NEW r \in Requests, RenewalSettles(r) PROVE TypesInv'
    <3>0. UNCHANGED <<now, starts, closed, aborted, alive, inbox, outbox, expiry, active, touched, crashes>>
      BY <2>7 DEF RenewalSettles, childVars
    <3>1. CASE /\ ready' = IF req[r].lease = child /\ ready # None THEN req[r].until ELSE ready
               /\ UNCHANGED <<child, starting>>
      <4>1. req[r].until \in 0 .. MaxTime + TTL
        BY <2>0 DEF RequestTypes
      <4>2. ParentTypes'
        BY <2>0, <3>0, <3>1, <4>1 DEF ParentTypes
      <4>3. ChildTypes'
        BY <2>0, <3>0, ChildKept DEF ChildTypes
      <4>4. QED BY <2>3, <3>0, <4>2, <4>3
    <3>2. CASE \E qs : TerminateWith(qs)
      BY <2>0, <2>4, <3>0, <3>2 DEF ParentTypes
    <3>3. QED BY <2>7, <3>1, <3>2 DEF RenewalSettles
  <2>8. ASSUME NEW r \in Requests, Send(r) PROVE TypesInv'
    <3>0. UNCHANGED <<now, starts, child, ready, starting, closed, aborted, alive, outbox, expiry, active, touched, crashes>>
      BY <2>8 DEF Send, parentVars
    <3>1. [type |-> "execute", of |-> r] \in ToChild
      BY DEF ToChild
    <3>2. inbox' \in [Children -> Seq(ToChild)]
      <4>1. CASE inbox' = inbox
        BY <2>0, <4>1 DEF ChildTypes
      <4>2. CASE inbox' = [inbox EXCEPT ![child] = Append(@, [type |-> "execute", of |-> r])]
        <5>1. inbox \in [Children -> Seq(ToChild)]
          BY <2>0 DEF ChildTypes
        <5>2. QED BY <3>1, <4>2, <5>1, LineAdded
      <4>3. QED BY <2>8, <4>1, <4>2 DEF Send
    <3>3. ParentTypes' /\ ChildTypes'
      BY <2>0, <3>0, <3>2 DEF ParentTypes, ChildTypes
    <3>4. QED BY <2>3, <3>0, <3>3
  <2>9. CASE HandleLine
    <3>1. PICK m : Handled(m) /\ (HandleReady(m) \/ HandleRenewed(m) \/ HandleResult(m))
      BY <2>9 DEF HandleLine, Handled
    <3>2. m.type \in {"ready", "renewed", "result"} => m.expires \in 0 .. MaxTime + TTL
      BY <2>0, <3>1, HandledTypes, LineTypes
    <3>3. /\ UNCHANGED <<now, starts, closed, aborted, alive, inbox, expiry, active, touched, crashes>>
          /\ outbox' = [outbox EXCEPT ![child] = Tail(outbox[child])] /\ outbox[child] # <<>>
      BY <2>9 DEF HandleLine
    <3>4. outbox' \in [Children -> Seq(ToParent)]
      BY <2>0, <3>3, LineRead DEF ChildTypes
    <3>5. ChildTypes'
      BY <2>0, <3>3, <3>4 DEF ChildTypes
    <3>6. CASE \E qs : TerminateWith(qs)
      <4>1. ParentTypes'
        BY <2>0, <3>3, <3>6, TerminatedTypes DEF ParentTypes
      <4>2. QED BY <2>3, <3>3, <3>5, <4>1
    <3>7. CASE /\ child' = child /\ ready' \in {ready, m.expires} /\ (ready' = m.expires => m.type \in {"ready", "result"})
               /\ starting' \in {starting, [starting EXCEPT !.state = "ready"]}
      <4>1. child # None
        BY <3>1 DEF Handled
      <4>2. ready' \in 0 .. MaxTime + TTL
        BY <2>0, <3>2, <3>7 DEF ParentTypes
      <4>3. ParentTypes'
        BY <2>0, <3>3, <3>7, <4>1, <4>2 DEF ParentTypes
      <4>4. QED BY <2>3, <3>3, <3>5, <4>3
    <3>8. CASE HandleReady(m)
      BY <3>7, <3>8 DEF HandleReady, Granted
    <3>9. CASE HandleRenewed(m)
      <4>1. ParentTypes'
        BY <2>0, <3>3, <3>9 DEF HandleRenewed, ParentTypes
      <4>2. QED BY <2>3, <3>3, <3>5, <4>1
    <3>10. CASE HandleResult(m)
      <4>1. CASE UNCHANGED <<child, ready, starting>>
        <5>1. ParentTypes'
          BY <2>0, <3>3, <4>1 DEF ParentTypes
        <5>2. QED BY <2>3, <3>3, <3>5, <5>1
      <4>2. CASE ~UNCHANGED <<child, ready, starting>>
        BY <3>6, <3>7, <3>10, <4>2 DEF HandleResult
      <4>3. QED BY <4>1, <4>2
    <3>11. QED BY <3>1, <3>8, <3>9, <3>10
  <2>10. CASE HandleExit \/ Reconcile \/ Close
    BY <2>0, <2>4, <2>10 DEF HandleExit, Reconcile, Close, childVars, ParentTypes
  <2>11. ASSUME UNCHANGED <<starts, child, ready, closed>>, aborted' \subseteq Requests, ChildTypes',
                starting' \in {starting, [starting EXCEPT !.state = "failed"]}
         PROVE  TypesInv'
    <3>1. ParentTypes'
      BY <2>0, <2>11 DEF ParentTypes
    <3>2. QED BY <2>3, <2>11, <3>1
  <2>12. CASE StartTimeout \/ Tick \/ UNCHANGED vars
    <3>1. ChildTypes'
      BY <2>0, <2>12 DEF StartTimeout, Tick, vars, childVars, parentVars, ChildTypes
    <3>2. QED BY <2>0, <2>11, <2>12, <3>1 DEF StartTimeout, Tick, vars, parentVars, ParentTypes
  <2>13. ASSUME NEW r \in Requests, Abort(r) \/ RenewalTimeout(r) PROVE TypesInv'
    <3>1. ChildTypes'
      BY <2>0, <2>13 DEF Abort, RenewalTimeout, childVars, parentVars, ChildTypes
    <3>2. QED BY <2>0, <2>11, <2>13, <3>1 DEF Abort, RenewalTimeout, parentVars, ParentTypes
  <2>14. ASSUME NEW c \in Children, ReadLine(c) PROVE TypesInv'
    <3>0. /\ UNCHANGED <<now, starts, child, ready, starting, closed, aborted, alive, touched, crashes>>
          /\ inbox' = [inbox EXCEPT ![c] = Tail(inbox[c])] /\ inbox[c] # <<>>
      BY <2>14 DEF ReadLine, parentVars
    <3>1. inbox' \in [Children -> Seq(ToChild)]
      BY <2>0, <3>0, LineRead DEF ChildTypes
    <3>2. PICK m \in ToChild : Initialize(c, m) \/ Renew(c, m) \/ Accept(c, m)
      <4>1. Head(inbox[c]) \in ToChild
        BY <2>0, <3>0, HeadTailProperties DEF ChildTypes
      <4>2. QED BY <2>14, <4>1 DEF ReadLine
    <3>3. now + TTL \in 0 .. MaxTime + TTL /\ expiry[c] \in 0 .. MaxTime + TTL
      BY <2>0 DEF ChildTypes
    <3>4. m.type # "initialize" => m.of \in Requests
      BY LineTypes
    <3>5. /\ [type |-> "ready", expires |-> now + TTL] \in ToParent
          /\ m.type # "initialize" =>
               /\ [type |-> "renewed", of |-> m.of, expires |-> now + TTL] \in ToParent
               /\ [type |-> "protocol-error", of |-> m.of] \in ToParent
               /\ Result(m.of, "failed", c) \in ToParent
      BY <3>3, <3>4 DEF ToParent, Result
    <3>6. outbox' \in [Children -> Seq(ToParent)]
      <4>1. outbox' = outbox \/ \E l \in ToParent : outbox' = [outbox EXCEPT ![c] = Append(@, l)]
        BY <3>2, <3>5 DEF Initialize, Renew, Accept
      <4>2. outbox \in [Children -> Seq(ToParent)]
        BY <2>0 DEF ChildTypes
      <4>3. ASSUME NEW l \in ToParent PROVE [outbox EXCEPT ![c] = Append(@, l)] \in [Children -> Seq(ToParent)]
        BY <4>2, LineAdded
      <4>4. QED BY <4>1, <4>2, <4>3
    <3>7. expiry' \in [Children -> 0 .. MaxTime + TTL]
      BY <2>0, <3>2, <3>3 DEF Initialize, Renew, Accept, ChildTypes
    <3>8. active' \in [Children -> SUBSET Requests]
      <4>1. active \in [Children -> SUBSET Requests]
        BY <2>0 DEF ChildTypes
      <4>2. active' = active \/ (m.of \in Requests /\ active' = [active EXCEPT ![c] = @ \cup {m.of}])
        BY <3>2, <3>4 DEF Initialize, Renew, Accept
      <4>3. QED BY <4>1, <4>2
    <3>9. ChildTypes'
      BY <2>0, <3>0, <3>1, <3>6, <3>7, <3>8 DEF ChildTypes
    <3>10. QED BY <2>0, <2>11, <3>0, <3>9 DEF ParentTypes
  <2>15. ASSUME NEW c \in Children, NEW r \in Requests, Finish(c, r) PROVE TypesInv'
    <3>0. UNCHANGED <<now, starts, child, ready, starting, closed, aborted, alive, inbox, expiry, touched, crashes>>
      BY <2>15 DEF Finish, parentVars
    <3>1. PICK a \in Outcomes(r) : outbox' = [outbox EXCEPT ![c] = Append(@, Result(r, a, c))]
      BY <2>15 DEF Finish
    <3>2. Result(r, a, c) \in ToParent
      <4>1. a \in {"ok", "failed", "uncertain"} /\ expiry[c] \in 0 .. MaxTime + TTL
        BY <2>0 DEF Outcomes, ChildTypes
      <4>2. QED BY <4>1 DEF Result, ToParent
    <3>3. outbox' \in [Children -> Seq(ToParent)]
      BY <2>0, <3>1, <3>2, LineAdded DEF ChildTypes
    <3>4. active' \in [Children -> SUBSET Requests]
      BY <2>0, <2>15 DEF Finish, ChildTypes
    <3>5. ChildTypes'
      BY <2>0, <3>0, <3>3, <3>4 DEF ChildTypes
    <3>6. QED BY <2>0, <2>11, <3>0, <3>5 DEF ParentTypes
  <2>16. ASSUME NEW c \in Children, Die(c) PROVE TypesInv'
    <3>0. UNCHANGED <<now, starts, child, ready, starting, closed, aborted, outbox, expiry, touched>>
      BY <2>16 DEF Die, parentVars
    <3>1. inbox' \in [Children -> Seq(ToChild)] /\ active' \in [Children -> SUBSET Requests]
      BY <2>0, <2>16 DEF Die, ChildTypes
    <3>2. alive' \subseteq 1 .. starts /\ crashes' \in 0 .. MaxCrashes
      BY <2>0, <2>16 DEF Die, ChildTypes
    <3>3. ChildTypes'
      BY <2>0, <3>0, <3>1, <3>2 DEF ChildTypes
    <3>4. QED BY <2>0, <2>11, <3>0, <3>3 DEF ParentTypes
  <2>17. ASSUME NEW c \in Children, NEW r \in Requests, Touch(c, r) PROVE TypesInv'
    <3>1. ChildTypes'
      BY <2>0, <2>17 DEF Touch, parentVars, ChildTypes
    <3>2. QED BY <2>0, <2>11, <2>17, <3>1 DEF Touch, parentVars, ParentTypes
  <2>18. QED
    BY <2>5, <2>6, <2>7, <2>8, <2>9, <2>10, <2>12, <2>13, <2>14, <2>15, <2>16, <2>17 DEF Next, Continue, Work
<1>3. QED BY <1>1, <1>2, ClosedForGood, PTL DEF Spec

-----------------------------------------------------------------------------
\* The lines on a pipe.

Lines(q) == {q[i] : i \in DOMAIN q}
Has(q, t, r) == \E m \in Lines(q) : m.type = t /\ m.of = r

\* No request is on its way to the child twice.
Once(q) ==
  \A i, j \in DOMAIN q :
    i # j /\ q[i].type = "execute" /\ q[j].type = "execute" => q[i].of # q[j].of

LEMMA AppendedLines ==
  ASSUME NEW S, NEW q \in Seq(S), NEW m \in S
  PROVE  /\ Lines(Append(q, m)) = Lines(q) \cup {m}
         /\ Once(q) /\ (m.type = "execute" => ~Has(q, "execute", m.of)) => Once(Append(q, m))
<1>1. /\ Len(q) \in Nat /\ DOMAIN q = 1 .. Len(q)
      /\ DOMAIN Append(q, m) = 1 .. Len(q) + 1
      /\ \A i \in 1 .. Len(q) : Append(q, m)[i] = q[i]
      /\ Append(q, m)[Len(q) + 1] = m
  OBVIOUS
<1>2. Lines(Append(q, m)) \subseteq Lines(q) \cup {m}
  <2> SUFFICES ASSUME NEW i \in 1 .. Len(q) + 1 PROVE Append(q, m)[i] \in Lines(q) \cup {m}
    BY <1>1 DEF Lines
  <2>1. CASE i \in 1 .. Len(q)
    BY <1>1, <2>1 DEF Lines
  <2>2. CASE i = Len(q) + 1
    BY <1>1, <2>2
  <2>3. QED BY <1>1, <2>1, <2>2
<1>3. Lines(q) \subseteq Lines(Append(q, m)) /\ m \in Lines(Append(q, m))
  BY <1>1 DEF Lines
<1>4. ASSUME Once(q), m.type = "execute" => ~Has(q, "execute", m.of) PROVE Once(Append(q, m))
  <2> SUFFICES ASSUME NEW i \in 1 .. Len(q) + 1, NEW j \in 1 .. Len(q) + 1, i # j,
                      Append(q, m)[i].type = "execute", Append(q, m)[j].type = "execute",
                      Append(q, m)[i].of = Append(q, m)[j].of
               PROVE  FALSE
    BY <1>1 DEF Once
  <2>1. i \in 1 .. Len(q) \/ i = Len(q) + 1
    BY <1>1
  <2>2. j \in 1 .. Len(q) \/ j = Len(q) + 1
    BY <1>1
  <2>3. CASE i \in 1 .. Len(q) /\ j \in 1 .. Len(q)
    BY <1>1, <1>4, <2>3 DEF Once
  <2>4. CASE i \in 1 .. Len(q) /\ j = Len(q) + 1
    BY <1>1, <1>4, <2>4 DEF Has, Lines
  <2>5. CASE j \in 1 .. Len(q) /\ i = Len(q) + 1
    BY <1>1, <1>4, <2>5 DEF Has, Lines
  <2>6. QED BY <2>1, <2>2, <2>3, <2>4, <2>5
<1>5. QED BY <1>2, <1>3, <1>4

LEMMA RemainingLines ==
  ASSUME NEW S, NEW q \in Seq(S), q # <<>>
  PROVE  /\ Lines(q) = {Head(q)} \cup Lines(Tail(q))
         /\ Once(q) => /\ Once(Tail(q))
                       /\ Head(q).type = "execute" => ~Has(Tail(q), "execute", Head(q).of)
<1>1. /\ Len(q) \in Nat /\ Len(q) # 0 /\ DOMAIN q = 1 .. Len(q) /\ Head(q) = q[1]
      /\ Tail(q) \in Seq(S) /\ Len(Tail(q)) = Len(q) - 1 /\ DOMAIN Tail(q) = 1 .. Len(q) - 1
      /\ \A i \in 1 .. Len(q) - 1 : Tail(q)[i] = q[i + 1]
  BY HeadTailProperties
<1>2. \A i \in 1 .. Len(q) - 1 : i + 1 \in 1 .. Len(q) /\ i + 1 # 1
  BY <1>1
<1>3. Lines(Tail(q)) \subseteq Lines(q) /\ Head(q) \in Lines(q)
  BY <1>1, <1>2 DEF Lines
<1>4. Lines(q) \subseteq {Head(q)} \cup Lines(Tail(q))
  <2> SUFFICES ASSUME NEW i \in 1 .. Len(q), i # 1 PROVE q[i] \in Lines(Tail(q))
    BY <1>1 DEF Lines
  <2>1. i - 1 \in 1 .. Len(q) - 1 /\ (i - 1) + 1 = i
    BY <1>1
  <2>2. QED BY <1>1, <2>1 DEF Lines
<1>5. ASSUME Once(q) PROVE Once(Tail(q))
  <2>1. \A i, j \in 1 .. Len(q) - 1 : i # j => i + 1 # j + 1
    BY <1>1
  <2>2. QED BY <1>1, <1>2, <1>5, <2>1 DEF Once
<1>6. ASSUME Once(q), Head(q).type = "execute", Has(Tail(q), "execute", Head(q).of) PROVE FALSE
  <2>1. PICK i \in 1 .. Len(q) - 1 : Tail(q)[i].type = "execute" /\ Tail(q)[i].of = Head(q).of
    BY <1>1, <1>6 DEF Has, Lines
  <2>2. 1 \in 1 .. Len(q)
    BY <1>1
  <2>3. QED BY <1>1, <1>2, <1>6, <2>1, <2>2 DEF Once
<1>7. QED BY <1>3, <1>4, <1>5, <1>6

-----------------------------------------------------------------------------
\* Leases.

\* What the lines q of a child say of its lease, which ends at e.
Promised(q, e) == \A m \in Lines(q) : m.type # "protocol-error" => m.expires <= e

\* What the child says of its lease, and what the parent remembers, is never more than
\* the lease the child has, and a lease that is being renewed is that of the child.
GrantInv ==
  /\ \A c \in Children : expiry[c] <= now + TTL /\ Promised(outbox[c], expiry[c])
  /\ \A r \in Requests :
       /\ req[r].stage = "renewing" => req[r].lease = child
       /\ req[r].stage = "renewed" => req[r].lease # None /\ req[r].until <= expiry[req[r].lease]
  /\ LeaseIsGranted

\* Leases only get longer.
LEMMA PromisesKept ==
  ASSUME NEW q, NEW e \in Nat, NEW f \in Nat, e <= f, Promised(q, e),
         \A m \in Lines(q) : m.type # "protocol-error" => m.expires \in Nat
  PROVE  Promised(q, f)
BY DEF Promised

\* What the parent has in hand of a lease, after a step in which no child cuts a lease short.
LEMMA GrantsKept ==
  ASSUME TypesInv, GrantInv, TypeOK', [Next]_vars,
         \A c \in Children : expiry[c] <= expiry'[c],
         \A c \in Children : expiry'[c] <= now' + TTL /\ Promised(outbox'[c], expiry'[c]),
         child' # child => \A r \in Requests : req'[r].stage # "renewing",
         ready' # None => ready' <= expiry'[child']
  PROVE  GrantInv'
<1>0. /\ TypeOK /\ \A c \in Children : expiry[c] \in Nat /\ expiry'[c] \in Nat
      /\ starts <= Cardinality(Requests) /\ Cardinality(Requests) \in Nat /\ starts \in Nat
  <2>1. MaxTime + TTL \in Nat /\ Cardinality(Requests) \in Nat
    BY WorkerAssumption, FS_CardinalityType
  <2>2. QED BY <2>1 DEF TypesInv, TypeOK, ChildTypes, ParentTypes
<1>1. ASSUME NEW r \in Requests
      PROVE  /\ req'[r].stage = "renewing" => req'[r].lease = child'
             /\ req'[r].stage = "renewed" => req'[r].lease # None /\ req'[r].until <= expiry'[req'[r].lease]
  <2>1. PICK q, p : q = req[r] /\ p = req'[r] /\ Moved(r, q, p)
    BY <1>0, RequestsMove
  <2>2. DOMAIN q = {"stage", "lease", "until", "answer"} /\ q.lease \in 0 .. starts /\ q.until \in Nat
    <3>1. MaxTime + TTL \in Nat
      BY WorkerAssumption
    <3>2. QED BY <1>0, <2>1, <3>1 DEF TypeOK, RequestTypes
  <2>3. CASE p = q
    <3>1. q.stage = "renewing" => child' = child
      BY <2>1, <2>3
    <3>2. ASSUME q.stage = "renewed" PROVE q.lease # None /\ q.until <= expiry'[q.lease]
      <4>1. q.lease # None /\ q.until <= expiry[q.lease] /\ q.lease \in Children
        BY <1>0, <2>1, <2>2, <3>2 DEF GrantInv, Children, None
      <4>2. QED BY <1>0, <2>2, <4>1
    <3>3. QED BY <2>1, <2>3, <3>1, <3>2 DEF GrantInv
  <2>4. CASE q.stage = "idle" /\ child' = child /\ p = [q EXCEPT !.stage = "renewing", !.lease = child]
    BY <2>1, <2>2, <2>4
  <2>5. CASE /\ q.stage = "renewing" /\ child' = child
             /\ \E m : /\ Handled(m) /\ m.type = "renewed" /\ m.of = r
                       /\ p = [q EXCEPT !.stage = "renewed", !.until = m.expires]
    <3>1. PICK m : /\ Handled(m) /\ m.type = "renewed"
                   /\ p = [q EXCEPT !.stage = "renewed", !.until = m.expires]
      BY <2>5
    <3>2. child \in Children /\ m.expires \in Nat
      <4>1. MaxTime + TTL \in Nat
        BY WorkerAssumption
      <4>2. QED BY <1>0, <3>1, <4>1, HandledTypes, LineTypes
    <3>3. m \in Lines(outbox[child])
      <4>1. outbox[child] \in Seq(ToParent) /\ outbox[child] # <<>> /\ m = Head(outbox[child])
        BY <1>0, <3>1, <3>2 DEF Handled, TypeOK, ChildTypes
      <4>2. QED BY <4>1, RemainingLines
    <3>4. m.expires <= expiry[child]
      BY <3>1, <3>2, <3>3 DEF GrantInv, Promised
    <3>5. q.lease = child
      BY <2>1, <2>5 DEF GrantInv
    <3>6. p.lease = child /\ p.until = m.expires /\ p.stage = "renewed"
      BY <2>2, <3>1, <3>5
    <3>7. p.until <= expiry'[child] /\ child # None
      BY <1>0, <3>1, <3>2, <3>4, <3>6 DEF Handled
    <3>8. QED BY <2>1, <3>6, <3>7
  <2>6. CASE p.stage \notin {"renewing", "renewed"}
    BY <2>1, <2>6
  <2>7. p.stage \in {"renewing", "renewed"} =>
          \/ p = q
          \/ q.stage = "idle" /\ child' = child /\ p = [q EXCEPT !.stage = "renewing", !.lease = child]
          \/ /\ q.stage = "renewing" /\ child' = child
             /\ \E m : /\ Handled(m) /\ m.type = "renewed" /\ m.of = r
                       /\ p = [q EXCEPT !.stage = "renewed", !.until = m.expires]
    <3>1. \A a : Answered(q, a).stage = "answered"
      BY <2>2 DEF Answered
    <3>2. /\ [q EXCEPT !.stage = "starting"].stage = "starting"
          /\ [q EXCEPT !.stage = "unrenewed"].stage = "unrenewed"
          /\ [q EXCEPT !.stage = "waiting"].stage = "waiting"
          /\ \A c : [q EXCEPT !.stage = "prepared", !.lease = c].stage = "prepared"
      BY <2>2
    <3> SUFFICES ASSUME p.stage \in {"renewing", "renewed"}, p # q
                 PROVE  \/ q.stage = "idle" /\ child' = child /\ p = [q EXCEPT !.stage = "renewing", !.lease = child]
                        \/ /\ q.stage = "renewing" /\ child' = child
                           /\ \E m : /\ Handled(m) /\ m.type = "renewed" /\ m.of = r
                                     /\ p = [q EXCEPT !.stage = "renewed", !.until = m.expires]
      OBVIOUS
    <3>3. /\ \A a : p # Answered(q, a)
          /\ p # [q EXCEPT !.stage = "starting"] /\ p # [q EXCEPT !.stage = "unrenewed"]
          /\ p # [q EXCEPT !.stage = "waiting"]
          /\ \A c : p # [q EXCEPT !.stage = "prepared", !.lease = c]
      BY <3>1, <3>2
    <3>4. QED BY <2>1, <3>3, Zenon DEF Moved
  <2>8. QED BY <2>3, <2>4, <2>5, <2>6, <2>7
<1>2. QED BY <1>1 DEF GrantInv, LeaseIsGranted

\* Nobody goes on renewing the lease of a child that was replaced.
LEMMA ChildChanges ==
  ASSUME Fields(req), QuietInv', [Next]_vars, child' # child, NEW r \in Requests
  PROVE  req'[r].stage \notin Waits
<1>1. CASE child' = None
  BY <1>1 DEF QuietInv
<1>2. ASSUME NEW x \in Requests, StartChild(x) PROVE req'[r].stage \notin Waits
  <2>1. PICK qs : qs = [req EXCEPT ![x].stage = "starting"] /\ req' = Bereaved(qs)
    BY <1>2 DEF StartChild
  <2>2. Fields(qs)
    BY <2>1, StageKeeps DEF Waits
  <2>3. QED BY <2>1, <2>2, BereavedWait
<1>3. child' = None \/ \E x \in Requests : StartChild(x)
  <2>1. ASSUME NEW x \in Requests, Execute(x) PROVE child' \in {child, None} \/ StartChild(x)
    BY <2>1 DEF Execute, Refuse, UseLease, AskRenewal, JoinStart, TerminateWith, parentVars
  <2>2. ASSUME NEW x \in Requests, RenewalSettles(x) \/ Send(x) \/ Abort(x) \/ RenewalTimeout(x)
        PROVE  child' \in {child, None}
    BY <2>2 DEF RenewalSettles, Send, Abort, RenewalTimeout, TerminateWith, parentVars
  <2>3. CASE StartSettles \/ HandleExit \/ StartTimeout \/ Reconcile \/ Close \/ Tick \/ UNCHANGED vars
    BY <2>3 DEF StartSettles, HandleExit, StartTimeout, Reconcile, Close, Tick, TerminateWith, parentVars, vars
  <2>4. CASE HandleLine
    BY <2>4 DEF HandleLine, HandleReady, HandleRenewed, HandleResult, TerminateWith
  <2>5. ASSUME NEW c \in Children, ReadLine(c) \/ Die(c) \/ \E x \in Requests : Finish(c, x) \/ Touch(c, x)
        PROVE  child' = child
    BY <2>5 DEF ReadLine, Die, Finish, Touch, parentVars
  <2>6. QED BY <2>1, <2>2, <2>3, <2>4, <2>5 DEF Next, Continue, Work
<1>4. QED BY <1>1, <1>2, <1>3

\* The parent never counts on a lease longer than the child does, whatever answers are on
\* their way and whichever child they come from.
THEOREM LeasesAreGranted == Spec => []GrantInv
<1>1. Init => GrantInv
  <2> SUFFICES ASSUME Init PROVE GrantInv
    OBVIOUS
  <2>1. TTL \in Nat /\ \A c \in Children : Lines(outbox[c]) = {} /\ expiry[c] = 0
    BY WorkerAssumption DEF Init, Lines, None
  <2>2. QED BY <2>1 DEF Init, GrantInv, Promised, LeaseIsGranted, None
<1>2. TypesInv /\ TypesInv' /\ QuietInv /\ QuietInv' /\ GrantInv /\ [Next]_vars => GrantInv'
  <2> SUFFICES ASSUME TypesInv, TypesInv', QuietInv, QuietInv', GrantInv, [Next]_vars PROVE GrantInv'
    OBVIOUS
  <2>0. /\ TypeOK /\ TypeOK' /\ Fields(req) /\ TTL \in Nat \ {0} /\ now \in Nat
        /\ now + TTL \in Nat
        /\ \A c \in Children : expiry[c] \in Nat /\ outbox[c] \in Seq(ToParent)
        /\ DOMAIN outbox = Children /\ DOMAIN expiry = Children
        /\ ready \in Nat /\ ready' \in Nat
        /\ ready # None => child \in Children
        /\ \A m \in ToParent : m.type # "protocol-error" => m.expires \in Nat
    <3>1. MaxTime + TTL \in Nat /\ Cardinality(Requests) \in Nat /\ TTL \in Nat \ {0} /\ MaxTime \in Nat
      BY WorkerAssumption, FS_CardinalityType
    <3>2. \A n \in 0 .. MaxTime + TTL : n \in Nat
      BY <3>1
    <3>3. ParentTypes /\ ParentTypes' /\ ChildTypes /\ Fields(req) /\ TypeOK /\ TypeOK'
      BY DEF TypesInv, TypeOK, QuietInv
    <3>4. ready # None => child \in Children
      BY <3>1, <3>3 DEF ParentTypes, Children, None
    <3>5. now \in Nat /\ now + TTL \in Nat
      BY <3>1, <3>3 DEF ChildTypes
    <3>6. QED BY <3>1, <3>2, <3>3, <3>4, <3>5, LineTypes DEF ParentTypes, ChildTypes
  <2>1. ASSUME \A c \in Children : expiry[c] <= expiry'[c],
               \A c \in Children : expiry'[c] <= now' + TTL /\ Promised(outbox'[c], expiry'[c]),
               ready' # None => ready' <= expiry'[child']
        PROVE  GrantInv'
    <3>1. child' # child => \A r \in Requests : req'[r].stage # "renewing"
      BY <2>0, ChildChanges DEF Waits
    <3>2. QED BY <2>0, <2>1, <3>1, GrantsKept
  <2>2. ASSUME expiry' = expiry, now' \in {now, now + 1}, \A c \in Children : Lines(outbox'[c]) \subseteq Lines(outbox[c]),
               ready' # None => ready' <= expiry[child']
        PROVE  GrantInv'
    <3>1. ASSUME NEW c \in Children
          PROVE  expiry'[c] <= now' + TTL /\ Promised(outbox'[c], expiry'[c]) /\ expiry[c] <= expiry'[c]
      BY <2>0, <2>2 DEF GrantInv, Promised
    <3>2. QED BY <2>1, <2>2, <3>1
  <2>3. ASSUME UNCHANGED <<expiry, outbox>>, now' \in {now, now + 1},
               ready' = None \/ UNCHANGED <<child, ready>>
        PROVE  GrantInv'
    BY <2>0, <2>2, <2>3 DEF GrantInv, LeaseIsGranted
  <2>4. ASSUME NEW qs, TerminateWith(qs) PROVE ready' = None
    BY <2>4 DEF TerminateWith, QuietInv
  <2>5. ASSUME NEW r \in Requests, Execute(r) PROVE GrantInv'
    <3>1. UNCHANGED <<now, expiry, outbox>>
      BY <2>5 DEF Execute
    <3>2. ready' = None \/ UNCHANGED <<child, ready>>
      <4>1. CASE JoinStart(r)
        BY <2>4, <4>1 DEF JoinStart
      <4>2. QED
        BY <2>5, <4>1 DEF Execute, Refuse, UseLease, AskRenewal, StartChild, parentVars
    <3>3. QED BY <2>3, <3>1, <3>2
  <2>6. CASE StartSettles
    <3>1. UNCHANGED <<now, expiry, outbox>> /\ (ready' = None \/ UNCHANGED <<child, ready>>)
      BY <2>6 DEF StartSettles, childVars
    <3>2. QED BY <2>3, <3>1
  <2>7. ASSUME NEW r \in Requests, RenewalSettles(r) PROVE GrantInv'
    <3>1. UNCHANGED <<now, expiry, outbox>>
      BY <2>7 DEF RenewalSettles, childVars
    <3>2. CASE /\ req[r].stage = "renewed" /\ UNCHANGED child
               /\ ready' = IF req[r].lease = child /\ ready # None THEN req[r].until ELSE ready
      <4>1. req[r].until <= expiry[req[r].lease]
        BY <3>2 DEF GrantInv
      <4>2. ready' # None => ready' <= expiry[child']
        BY <3>2, <4>1 DEF GrantInv, LeaseIsGranted
      <4>3. QED BY <2>2, <3>1, <4>2
    <3>3. CASE \E qs : TerminateWith(qs)
      BY <2>3, <2>4, <3>1, <3>3
    <3>4. QED BY <2>7, <3>2, <3>3 DEF RenewalSettles
  <2>8. ASSUME NEW r \in Requests, Send(r) \/ Abort(r) \/ RenewalTimeout(r) PROVE GrantInv'
    <3>1. UNCHANGED <<now, expiry, outbox, child, ready>>
      BY <2>8 DEF Send, Abort, RenewalTimeout, parentVars, childVars
    <3>2. QED BY <2>3, <3>1
  <2>9. CASE HandleLine
    <3>1. PICK m : Handled(m) /\ (HandleReady(m) \/ HandleRenewed(m) \/ HandleResult(m))
      BY <2>9 DEF HandleLine, Handled
    <3>2. child \in Children /\ m \in ToParent /\ outbox[child] # <<>> /\ m = Head(outbox[child])
      BY <2>0, <3>1, HandledTypes DEF Handled
    <3>3. UNCHANGED <<now, expiry>> /\ outbox' = [outbox EXCEPT ![child] = Tail(outbox[child])]
      BY <2>9 DEF HandleLine
    <3>4. Lines(outbox[child]) = {m} \cup Lines(Tail(outbox[child]))
      BY <2>0, <3>2, RemainingLines
    <3>5. \A c \in Children : Lines(outbox'[c]) \subseteq Lines(outbox[c])
      <4>1. ASSUME NEW c \in Children PROVE outbox'[c] = IF c = child THEN Tail(outbox[child]) ELSE outbox[c]
        BY <2>0, <3>3
      <4>2. QED BY <3>4, <4>1
    <3>6. m.type # "protocol-error" => m.expires <= expiry[child]
      BY <3>2, <3>4 DEF GrantInv, Promised
    <3>7. ready' # None => ready' <= expiry[child']
      <4>1. CASE HandleReady(m)
        BY <3>6, <4>1 DEF HandleReady, Granted
      <4>2. CASE HandleRenewed(m)
        BY <4>2 DEF HandleRenewed, GrantInv, LeaseIsGranted
      <4>3. CASE HandleResult(m) /\ UNCHANGED child /\ ready' \in {ready, m.expires}
        BY <3>6, <4>3 DEF HandleResult, GrantInv, LeaseIsGranted
      <4>4. CASE \E qs : TerminateWith(qs)
        BY <2>4, <4>4
      <4>5. QED BY <3>1, <4>1, <4>2, <4>3, <4>4 DEF HandleResult
    <3>8. QED BY <2>2, <3>3, <3>5, <3>7
  <2>10. CASE HandleExit \/ Reconcile \/ Close
    <3>1. UNCHANGED <<now, expiry, outbox>> /\ \E qs : TerminateWith(qs)
      BY <2>10 DEF HandleExit, Reconcile, Close, childVars
    <3>2. QED BY <2>3, <2>4, <3>1
  <2>11. CASE StartTimeout \/ Tick \/ UNCHANGED vars
    <3>1. UNCHANGED <<expiry, outbox, child, ready>> /\ now' \in {now, now + 1}
      BY <2>11 DEF StartTimeout, Tick, childVars, parentVars, vars
    <3>2. QED BY <2>3, <3>1
  <2>12. ASSUME NEW c \in Children, NEW l \in ToParent, NEW e \in {expiry[c], now + TTL},
                expiry' = [expiry EXCEPT ![c] = e], l.type # "protocol-error" => l.expires = e,
                outbox' = [outbox EXCEPT ![c] = Append(outbox[c], l)], UNCHANGED <<now, child, ready>>
         PROVE  GrantInv'
    <3>1. expiry[c] <= e /\ e \in Nat /\ e <= now + TTL
      BY <2>0, <2>12 DEF GrantInv
    <3>2. \A d \in Children \ {c} : expiry'[d] = expiry[d] /\ outbox'[d] = outbox[d]
      BY <2>0, <2>12
    <3>3. expiry'[c] = e /\ outbox'[c] = Append(outbox[c], l)
      BY <2>0, <2>12
    <3>4. Promised(outbox[c], e)
      BY <2>0, <3>1 DEF GrantInv, Promised, Lines
    <3>5. Promised(outbox'[c], e)
      <4>1. Lines(outbox'[c]) = Lines(outbox[c]) \cup {l}
        BY <2>0, <3>3, AppendedLines
      <4>2. QED BY <2>12, <3>1, <3>4, <4>1 DEF Promised
    <3>6. \A d \in Children : expiry[d] <= expiry'[d]
      BY <2>0, <3>1, <3>2, <3>3
    <3>7. \A d \in Children : expiry'[d] <= now' + TTL /\ Promised(outbox'[d], expiry'[d])
      BY <2>12, <3>1, <3>2, <3>3, <3>5 DEF GrantInv
    <3>8. ready' # None => ready' <= expiry'[child']
      BY <2>0, <2>12, <3>6 DEF GrantInv, LeaseIsGranted
    <3>9. QED BY <2>1, <3>6, <3>7, <3>8
  <2>13. ASSUME NEW c \in Children PROVE [expiry EXCEPT ![c] = expiry[c]] = expiry
    BY DEF TypesInv, TypeOK, ChildTypes
  <2>14. ASSUME NEW c \in Children, ReadLine(c) PROVE GrantInv'
    <3>0. now + TTL \in 0 .. MaxTime + TTL /\ expiry[c] \in 0 .. MaxTime + TTL
      BY <2>0, WorkerAssumption DEF TypeOK, ChildTypes
    <3>1. UNCHANGED <<now, child, ready>>
      BY <2>14 DEF ReadLine, parentVars
    <3>2. PICK m \in ToChild : Initialize(c, m) \/ Renew(c, m) \/ Accept(c, m)
      <4>1. inbox[c] \in Seq(ToChild) /\ inbox[c] # <<>>
        BY <2>0, <2>14 DEF ReadLine, TypeOK, ChildTypes
      <4>2. QED BY <2>14, <4>1, HeadTailProperties DEF ReadLine
    <3>3. m.type # "initialize" => m.of \in Requests
      BY LineTypes
    <3>4. [type |-> "ready", expires |-> now + TTL] \in ToParent
      BY <2>0, <3>0 DEF ToParent
    <3>5. m.type # "initialize" =>
            /\ [type |-> "renewed", of |-> m.of, expires |-> now + TTL] \in ToParent
            /\ [type |-> "protocol-error", of |-> m.of] \in ToParent
            /\ Result(m.of, "failed", c) \in ToParent
      BY <3>0, <3>3 DEF ToParent, Result
    <3>6. CASE Initialize(c, m)
      BY <2>12, <3>1, <3>4, <3>6 DEF Initialize
    <3>7. CASE /\ m.type = "renew" /\ expiry' = [expiry EXCEPT ![c] = now + TTL]
               /\ outbox' = [outbox EXCEPT ![c] =
                    Append(@, [type |-> "renewed", of |-> m.of, expires |-> now + TTL])]
      BY <2>12, <3>1, <3>5, <3>7
    <3>8. CASE /\ m.type = "renew" /\ expiry' = expiry
               /\ outbox' = [outbox EXCEPT ![c] = Append(@, [type |-> "protocol-error", of |-> m.of])]
      BY <2>12, <2>13, <3>1, <3>5, <3>8
    <3>9. CASE /\ m.type = "execute" /\ expiry' = expiry
               /\ outbox' = [outbox EXCEPT ![c] = Append(@, Result(m.of, "failed", c))]
      <4>1. Result(m.of, "failed", c).expires = expiry[c]
        BY DEF Result
      <4>2. QED BY <2>12, <2>13, <3>1, <3>5, <3>9, <4>1
    <3>10. CASE UNCHANGED <<expiry, outbox>>
      BY <2>3, <3>1, <3>10
    <3>11. QED BY <3>2, <3>6, <3>7, <3>8, <3>9, <3>10 DEF Renew, Accept
  <2>15. ASSUME NEW c \in Children, NEW r \in Requests, Finish(c, r) PROVE GrantInv'
    <3>1. UNCHANGED <<now, child, ready, expiry>>
      BY <2>15 DEF Finish, parentVars
    <3>2. PICK a \in Outcomes(r) : outbox' = [outbox EXCEPT ![c] = Append(@, Result(r, a, c))]
      BY <2>15 DEF Finish
    <3>3. PICK l : l = Result(r, a, c)
      OBVIOUS
    <3>4. a \in {"ok", "failed", "uncertain"} /\ expiry[c] \in 0 .. MaxTime + TTL
      BY <2>0 DEF Outcomes, TypeOK, ChildTypes
    <3>5. l \in ToParent /\ l.expires = expiry[c]
      BY <3>3, <3>4 DEF Result, ToParent
    <3>6. QED BY <2>12, <2>13, <3>1, <3>2, <3>3, <3>5
  <2>16. ASSUME NEW c \in Children, Die(c) \/ \E r \in Requests : Touch(c, r) PROVE GrantInv'
    <3>1. UNCHANGED <<now, expiry, outbox, child, ready>>
      BY <2>16 DEF Die, Touch, parentVars
    <3>2. QED BY <2>3, <3>1
  <2>17. QED
    BY <2>5, <2>6, <2>7, <2>8, <2>9, <2>10, <2>11, <2>14, <2>15, <2>16 DEF Next, Continue, Work
<1>3. QED BY <1>1, <1>2, WorkerTypes, ClosedForGood, PTL DEF Spec

-----------------------------------------------------------------------------
\* Requests and their answers.

Final == {"ok", "failed", "thrown"}

\* What a move says of the stage and the answer.
LEMMA MoveTells ==
  ASSUME TypeOK, [Next]_vars, NEW r \in Requests
  PROVE  /\ req'[r].stage \in Unsent => req[r].stage \in Unsent
         /\ req'[r].stage = "waiting" => req[r].stage = "waiting" \/ Send(r)
         /\ req'[r].answer \in Final =>
              \/ req'[r].answer = req[r].answer
              \/ r \notin Effects /\ req'[r].answer = "failed"
              \/ req[r].stage = "renewed" /\ req'[r].answer = "thrown"
              \/ \E m : Handled(m) /\ m.type = "result" /\ m.of = r /\ req'[r].answer = m.answer
<1>1. PICK q, p : q = req[r] /\ p = req'[r] /\ Moved(r, q, p)
  BY RequestsMove
<1>2. DOMAIN q = {"stage", "lease", "until", "answer"} /\ q.stage \in Stages
      /\ (q.answer # "none" <=> q.stage = "answered")
  BY <1>1 DEF TypeOK, RequestTypes
<1>3. /\ \A a : Answered(q, a).stage = "answered" /\ Answered(q, a).answer = a
      /\ \A s \in Stages : [q EXCEPT !.stage = s].stage = s /\ [q EXCEPT !.stage = s].answer = q.answer
      /\ \A s \in Stages : \A c : /\ [q EXCEPT !.stage = s, !.lease = c].stage = s
                                  /\ [q EXCEPT !.stage = s, !.lease = c].answer = q.answer
      /\ \A s \in Stages : \A u : /\ [q EXCEPT !.stage = s, !.until = u].stage = s
                                  /\ [q EXCEPT !.stage = s, !.until = u].answer = q.answer
  BY <1>2 DEF Answered
<1>4. Stages = Unsent \cup {"waiting", "answered"}
      /\ Unsent = {"idle", "starting", "renewing", "renewed", "unrenewed", "prepared"}
  BY DEF Stages, Unsent
<1>5. CASE p = q
  BY <1>1, <1>5
<1>6. ASSUME NEW a, p = Answered(q, a),
             \/ a = Unknown(r)
             \/ q.stage = "renewed" /\ a = "thrown"
             \/ \E m : Handled(m) /\ m.type = "result" /\ m.of = r /\ a = m.answer
      PROVE  /\ p.stage = "answered"
             /\ p.answer \in Final =>
                  \/ r \notin Effects /\ p.answer = "failed"
                  \/ q.stage = "renewed" /\ p.answer = "thrown"
                  \/ \E m : Handled(m) /\ m.type = "result" /\ m.of = r /\ p.answer = m.answer
  <2>1. p.stage = "answered" /\ p.answer = a
    BY <1>3, <1>6
  <2>2. CASE a = Unknown(r)
    BY <2>1, <2>2 DEF Unknown, Final
  <2>3. QED BY <1>6, <2>1, <2>2
<1>7. ASSUME NEW s \in Stages, p.stage = s, p.answer = q.answer, q.stage \in Unsent,
             s = "waiting" => Send(r)
      PROVE  /\ p.stage \in Unsent => q.stage \in Unsent
             /\ p.stage = "waiting" => Send(r)
             /\ p.answer = q.answer
  BY <1>7
<1>8. \/ p = q
      \/ \E a : /\ p = Answered(q, a)
                /\ \/ a = Unknown(r)
                   \/ q.stage = "renewed" /\ a = "thrown"
                   \/ \E m : Handled(m) /\ m.type = "result" /\ m.of = r /\ a = m.answer
      \/ /\ q.stage \in Unsent /\ p.answer = q.answer
         /\ p.stage = "waiting" => Send(r)
  <2>1. {"starting", "prepared", "renewing", "unrenewed", "renewed", "waiting"} \subseteq Stages
    BY DEF Stages
  <2>2. ASSUME NEW s \in {"starting", "unrenewed", "waiting"}, p = [q EXCEPT !.stage = s]
        PROVE  p.stage = s /\ p.answer = q.answer
    BY <1>3, <2>1, <2>2
  <2>3. ASSUME NEW s \in {"prepared", "renewing"}, NEW c, p = [q EXCEPT !.stage = s, !.lease = c]
        PROVE  p.stage = s /\ p.answer = q.answer
    BY <1>3, <2>1, <2>3
  <2>4. ASSUME NEW u, p = [q EXCEPT !.stage = "renewed", !.until = u]
        PROVE  p.stage = "renewed" /\ p.answer = q.answer
    BY <1>3, <2>1, <2>4
  <2>5. QED BY <1>1, <1>4, <2>2, <2>3, <2>4 DEF Moved
<1>9. QED BY <1>1, <1>4, <1>5, <1>6, <1>8

-----------------------------------------------------------------------------
\* Who waits is in somebody's hands.

Held(c, r) == r \in active[c] \/ Has(inbox[c], "execute", r) \/ Has(outbox[c], "result", r)

HeldInv ==
  \A r \in Requests :
    req[r].stage = "waiting" => child # None /\ (child \in alive => Held(child, r))

\* The child c reads the line m and answers with ls, if at all.
Reads(c, m, ls) ==
  /\ Lines(inbox[c]) = {m} \cup Lines(inbox'[c])
  /\ Once(inbox[c]) =>
       Once(inbox'[c]) /\ (m.type = "execute" => ~Has(inbox'[c], "execute", m.of))
  /\ Lines(outbox'[c]) = Lines(outbox[c]) \cup ls
  /\ \A d \in Children \ {c} :
       inbox'[d] = inbox[d] /\ outbox'[d] = outbox[d] /\ active'[d] = active[d]
  /\ \/ m.type # "execute" /\ active'[c] = active[c] /\ \A l \in ls : l.type # "result"
     \/ m.type = "execute" /\ active'[c] = active[c] /\ ls = {Result(m.of, "failed", c)}
     \/ m.type = "execute" /\ active'[c] = active[c] \cup {m.of} /\ ls = {}

LEMMA ChildReads ==
  ASSUME TypeOK, NEW c \in Children, ReadLine(c)
  PROVE  \E m \in ToChild, ls \in SUBSET ToParent : Reads(c, m, ls)
<1>1. /\ inbox \in [Children -> Seq(ToChild)] /\ outbox \in [Children -> Seq(ToParent)]
      /\ active \in [Children -> SUBSET Requests]
      /\ inbox' = [inbox EXCEPT ![c] = Tail(inbox[c])] /\ inbox[c] # <<>>
  BY DEF TypeOK, ChildTypes, ReadLine
<1>2. PICK m : m = Head(inbox[c])
  OBVIOUS
<1>3. m \in ToChild /\ inbox[c] \in Seq(ToChild) /\ outbox[c] \in Seq(ToParent) /\ inbox'[c] = Tail(inbox[c])
      /\ \A d \in Children \ {c} : inbox'[d] = inbox[d]
  BY <1>1, <1>2, HeadTailProperties
<1>4. /\ Lines(inbox[c]) = {m} \cup Lines(inbox'[c])
      /\ Once(inbox[c]) =>
           Once(inbox'[c]) /\ (m.type = "execute" => ~Has(inbox'[c], "execute", m.of))
  BY <1>1, <1>2, <1>3, RemainingLines
<1>5. now + TTL \in 0 .. MaxTime + TTL /\ expiry[c] \in 0 .. MaxTime + TTL
  BY WorkerAssumption DEF TypeOK, ChildTypes
<1>6. /\ [type |-> "ready", expires |-> now + TTL] \in ToParent
      /\ m.type # "initialize" =>
           /\ [type |-> "renewed", of |-> m.of, expires |-> now + TTL] \in ToParent
           /\ [type |-> "protocol-error", of |-> m.of] \in ToParent
           /\ Result(m.of, "failed", c) \in ToParent
  BY <1>3, <1>5, LineTypes DEF ToParent, Result
<1>7. Initialize(c, m) \/ Renew(c, m) \/ Accept(c, m)
  BY <1>2 DEF ReadLine
<1>8. ASSUME NEW l \in ToParent, outbox' = [outbox EXCEPT ![c] = Append(@, l)], active' = active,
             \/ m.type # "execute" /\ l.type # "result"
             \/ m.type = "execute" /\ l = Result(m.of, "failed", c)
      PROVE  Reads(c, m, {l})
  <2>1. outbox'[c] = Append(outbox[c], l) /\ \A d \in Children \ {c} : outbox'[d] = outbox[d]
    BY <1>1, <1>8
  <2>2. Lines(outbox'[c]) = Lines(outbox[c]) \cup {l}
    BY <1>3, <2>1, AppendedLines
  <2>3. QED BY <1>3, <1>4, <1>8, <2>1, <2>2 DEF Reads
<1>9. CASE Initialize(c, m)
  BY <1>3, <1>6, <1>8, <1>9 DEF Initialize
<1>10. CASE Renew(c, m)
  <2>1. \E l \in ToParent : /\ outbox' = [outbox EXCEPT ![c] = Append(@, l)] /\ active' = active
                            /\ l.type # "result"
    <3>1. m.type # "initialize"
      BY <1>10 DEF Renew
    <3>2. QED BY <1>6, <1>10, <3>1 DEF Renew
  <2>2. m.type # "execute"
    BY <1>10 DEF Renew
  <2>3. QED BY <1>3, <1>8, <2>1, <2>2
<1>11. CASE Accept(c, m)
  <2>1. m.type = "execute" /\ Result(m.of, "failed", c) \in ToParent
    BY <1>6, <1>11 DEF Accept
  <2>2. CASE active' = active /\ outbox' = [outbox EXCEPT ![c] = Append(@, Result(m.of, "failed", c))]
    BY <1>3, <1>8, <2>1, <2>2
  <2>3. CASE outbox' = outbox /\ active' = [active EXCEPT ![c] = @ \cup {m.of}]
    <3>1. active'[c] = active[c] \cup {m.of} /\ \A d \in Children \ {c} : active'[d] = active[d]
      BY <1>1, <2>3
    <3>2. Reads(c, m, {})
      BY <1>3, <1>4, <2>1, <2>3, <3>1 DEF Reads
    <3>3. QED BY <1>3, <3>2
  <2>4. QED BY <1>11, <2>2, <2>3 DEF Accept
<1>12. QED BY <1>7, <1>9, <1>10, <1>11

\* The worker of the child c finishes the request r with the answer a.
Finishes(c, r, a) ==
  /\ r \in active[c] /\ a \in Outcomes(r) /\ inbox' = inbox
  /\ Lines(outbox'[c]) = Lines(outbox[c]) \cup {Result(r, a, c)}
  /\ active'[c] = active[c] \ {r}
  /\ \A d \in Children \ {c} : outbox'[d] = outbox[d] /\ active'[d] = active[d] /\ inbox'[d] = inbox[d]

LEMMA ChildFinishes ==
  ASSUME TypeOK, NEW c \in Children, NEW r \in Requests, Finish(c, r)
  PROVE  \E a \in {"ok", "failed", "uncertain"} : Finishes(c, r, a)
<1>1. /\ outbox \in [Children -> Seq(ToParent)] /\ active \in [Children -> SUBSET Requests]
      /\ expiry[c] \in 0 .. MaxTime + TTL
      /\ r \in active[c] /\ inbox' = inbox /\ active' = [active EXCEPT ![c] = active[c] \ {r}]
  BY DEF TypeOK, ChildTypes, Finish
<1>2. PICK a \in Outcomes(r) : outbox' = [outbox EXCEPT ![c] = Append(@, Result(r, a, c))]
  BY DEF Finish
<1>3. PICK l : l = Result(r, a, c)
  OBVIOUS
<1>4. a \in {"ok", "failed", "uncertain"}
  BY DEF Outcomes
<1>5. l \in ToParent
  BY <1>1, <1>3, <1>4 DEF ToParent, Result
<1>6. outbox'[c] = Append(outbox[c], l) /\ \A d \in Children \ {c} : outbox'[d] = outbox[d]
  BY <1>1, <1>2, <1>3
<1>7. Lines(outbox'[c]) = Lines(outbox[c]) \cup {l}
  BY <1>1, <1>5, <1>6, AppendedLines
<1>8. active'[c] = active[c] \ {r} /\ \A d \in Children \ {c} : active'[d] = active[d]
  BY <1>1
<1>9. QED BY <1>1, <1>3, <1>4, <1>6, <1>7, <1>8 DEF Finishes

\* Once sent, a request stays in the hands of its child: on the way to it, with its
\* worker, or answered on the way back (execute, the reading loops of both processes).
THEOREM RequestsAreHeld == Spec => []HeldInv
<1>1. Init => HeldInv
  BY DEF Init, HeldInv
<1>2. TypesInv /\ QuietInv /\ QuietInv' /\ HeldInv /\ [Next]_vars => HeldInv'
  <2> SUFFICES ASSUME TypesInv, QuietInv, QuietInv', HeldInv, [Next]_vars,
                      NEW r \in Requests, req'[r].stage = "waiting"
               PROVE  /\ child' # None
                      /\ child' \in alive' =>
                           \/ r \in active'[child'] \/ Has(inbox'[child'], "execute", r)
                           \/ Has(outbox'[child'], "result", r)
    BY DEF HeldInv, Held
  <2>0. /\ TypeOK /\ Fields(req) /\ child \in 0 .. starts /\ starts \in Nat
        /\ child # None => child \in Children
        /\ alive \subseteq 1 .. starts
        /\ inbox \in [Children -> Seq(ToChild)] /\ outbox \in [Children -> Seq(ToParent)]
        /\ active \in [Children -> SUBSET Requests]
    BY WorkerAssumption, FS_CardinalityType
       DEF TypesInv, TypeOK, ParentTypes, ChildTypes, QuietInv, Children, None
  <2>1. child' = child /\ child # None /\ child \in Children
    <3>1. child' = child
      BY <2>0, ChildChanges DEF Waits
    <3>2. child' # None
      BY DEF QuietInv, Waits
    <3>3. QED BY <2>0, <3>1, <3>2
  <2> DEFINE Good == child \in alive' =>
               \/ r \in active'[child] \/ Has(inbox'[child], "execute", r)
               \/ Has(outbox'[child], "result", r)
  <2> SUFFICES Good
    BY <2>1
  <2>2. CASE Send(r)
    <3>1. inbox' = [inbox EXCEPT ![child] = Append(inbox[child], [type |-> "execute", of |-> r])]
      <4>1. req' # [req EXCEPT ![r] = Answered(@, Unknown(r))]
        <5>1. Answered(req[r], Unknown(r)).stage = "answered"
          BY <2>0, RecordKept DEF Fields, Answered
        <5>2. [req EXCEPT ![r] = Answered(@, Unknown(r))][r] = Answered(req[r], Unknown(r))
          BY <2>0 DEF Fields
        <5>3. QED BY <5>1, <5>2
      <4>2. QED BY <2>2, <4>1 DEF Send
    <3>2. [type |-> "execute", of |-> r] \in ToChild
      BY DEF ToChild
    <3>3. inbox[child] \in Seq(ToChild)
      BY <2>0, <2>1
    <3>4. Lines(Append(inbox[child], [type |-> "execute", of |-> r]))
            = Lines(inbox[child]) \cup {[type |-> "execute", of |-> r]}
      BY <3>2, <3>3, AppendedLines
    <3>5. [type |-> "execute", of |-> r] \in Lines(inbox'[child])
      BY <2>0, <2>1, <3>1, <3>4
    <3>6. QED BY <3>5 DEF Has
  <2>3. CASE ~Send(r)
    <3>1. req[r].stage = "waiting"
      BY <2>0, <2>3, MoveTells
    <3>2. child \in alive => Held(child, r)
      BY <3>1 DEF HeldInv
    <3>3. ASSUME UNCHANGED <<inbox, outbox, active>>, alive' \subseteq alive PROVE Good
      BY <3>2, <3>3 DEF Held
    <3>4. ASSUME NEW l \in ToChild, inbox' = [inbox EXCEPT ![child] = Append(inbox[child], l)],
                 UNCHANGED <<outbox, active>>, alive' \subseteq alive
          PROVE  Good
      <4>1. inbox[child] \in Seq(ToChild) /\ inbox'[child] = Append(inbox[child], l)
        BY <2>0, <2>1, <3>4
      <4>2. Lines(inbox'[child]) = Lines(inbox[child]) \cup {l}
        BY <4>1, AppendedLines
      <4>3. QED BY <3>2, <3>4, <4>2 DEF Held, Has
    <3>5. ASSUME NEW x \in Requests, Execute(x) PROVE Good
      <4>1. UNCHANGED <<outbox, active>>
        BY <3>5 DEF Execute
      <4>2. CASE AskRenewal(x)
        <5>1. [type |-> "renew", of |-> x] \in ToChild
          BY DEF ToChild
        <5>2. QED BY <3>4, <4>1, <4>2, <5>1 DEF AskRenewal
      <4>3. CASE StartChild(x)
        BY <2>0, <2>1, <4>3 DEF StartChild
      <4>4. QED
        BY <3>3, <3>5, <4>1, <4>2, <4>3 DEF Execute, Refuse, UseLease, JoinStart
    <3>6. ASSUME NEW x \in Requests, Send(x) PROVE Good
      <4>1. [type |-> "execute", of |-> x] \in ToChild
        BY DEF ToChild
      <4>2. QED BY <3>3, <3>4, <3>6, <4>1 DEF Send
    <3>7. CASE \/ StartSettles \/ HandleExit \/ StartTimeout \/ Reconcile \/ Close \/ Tick \/ UNCHANGED vars
               \/ \E x \in Requests : RenewalSettles(x) \/ Abort(x) \/ RenewalTimeout(x)
      BY <3>3, <3>7 DEF StartSettles, HandleExit, StartTimeout, Reconcile, Close, Tick, RenewalSettles,
                        Abort, RenewalTimeout, childVars, vars
    <3>8. CASE HandleLine
      <4>1. PICK m : Handled(m) /\ (HandleReady(m) \/ HandleRenewed(m) \/ HandleResult(m))
        BY <3>8 DEF HandleLine, Handled
      <4>2. /\ outbox' = [outbox EXCEPT ![child] = Tail(outbox[child])]
            /\ outbox[child] # <<>> /\ m = Head(outbox[child]) /\ UNCHANGED <<alive, inbox, active>>
        BY <3>8, <4>1 DEF HandleLine, Handled
      <4>3. outbox[child] \in Seq(ToParent) /\ outbox'[child] = Tail(outbox[child])
        BY <2>0, <2>1, <4>2
      <4>4. Lines(outbox[child]) = {m} \cup Lines(outbox'[child])
        BY <4>2, <4>3, RemainingLines
      <4>5. ~(m.type = "result" /\ m.of = r)
        <5>1. SUFFICES ASSUME HandleResult(m), m.of = r PROVE FALSE
          BY <4>1 DEF HandleReady, HandleRenewed
        <5>2. CASE Fits(req[r])
          <6>1. req' = [req EXCEPT ![r] = Answered(@, m.answer)]
            BY <3>1, <5>1, <5>2 DEF HandleResult
          <6>2. QED BY <2>0, <6>1 DEF Fields, Answered
        <5>3. CASE ~Fits(req[r])
          BY <2>1, <3>1, <5>1, <5>3 DEF HandleResult, TerminateWith
        <5>4. QED BY <5>2, <5>3
      <4>6. QED BY <3>2, <4>2, <4>4, <4>5 DEF Held, Has
    <3>9. ASSUME NEW c \in Children, c # child,
                 \A d \in Children \ {c} : inbox'[d] = inbox[d] /\ outbox'[d] = outbox[d] /\ active'[d] = active[d],
                 alive' \subseteq alive
          PROVE  Good
      BY <2>1, <3>2, <3>9 DEF Held
    <3>10. ASSUME NEW c \in Children, ReadLine(c) PROVE Good
      <4>1. alive' = alive
        BY <3>10 DEF ReadLine
      <4>2. PICK m \in ToChild, ls \in SUBSET ToParent : Reads(c, m, ls)
        BY <2>0, <3>10, ChildReads
      <4>3. CASE c = child
        <5>1. \/ m.type = "execute" /\ m.of = r /\ active'[c] = active[c] /\ ls = {Result(r, "failed", c)}
              \/ r \in active'[c]
              \/ active[c] \subseteq active'[c] /\ ~(m.type = "execute" /\ m.of = r)
          BY <2>0, <4>2 DEF Reads
        <5>2. Result(r, "failed", c).type = "result" /\ Result(r, "failed", c).of = r
          BY DEF Result
        <5>3. Lines(inbox[c]) = {m} \cup Lines(inbox'[c]) /\ Lines(outbox'[c]) = Lines(outbox[c]) \cup ls
          BY <4>2 DEF Reads
        <5>4. QED BY <3>2, <4>1, <4>3, <5>1, <5>2, <5>3 DEF Held, Has
      <4>4. CASE c # child
        BY <3>9, <4>1, <4>2, <4>4 DEF Reads
      <4>5. QED BY <4>3, <4>4
    <3>11. ASSUME NEW c \in Children, NEW x \in Requests, Finish(c, x) PROVE Good
      <4>1. alive' = alive
        BY <3>11 DEF Finish
      <4>2. PICK a \in {"ok", "failed", "uncertain"} : Finishes(c, x, a)
        BY <2>0, <3>11, ChildFinishes
      <4>3. CASE c = child
        <5>1. /\ Lines(outbox'[c]) = Lines(outbox[c]) \cup {Result(x, a, c)}
              /\ active'[c] = active[c] \ {x} /\ inbox'[c] = inbox[c]
              /\ Result(x, a, c).type = "result" /\ Result(x, a, c).of = x
          BY <4>2 DEF Finishes, Result
        <5>2. QED BY <3>2, <4>1, <4>3, <5>1 DEF Held, Has
      <4>4. CASE c # child
        BY <3>9, <4>1, <4>2, <4>4 DEF Finishes
      <4>5. QED BY <4>3, <4>4
    <3>12. ASSUME NEW c \in Children, Die(c) PROVE Good
      <4>1. CASE c = child
        BY <3>12, <4>1 DEF Die
      <4>2. CASE c # child
        <5>1. /\ inbox' = [inbox EXCEPT ![c] = <<>>] /\ active' = [active EXCEPT ![c] = {}]
              /\ outbox' = outbox /\ alive' = alive \ {c}
          BY <3>12 DEF Die
        <5>2. \A d \in Children \ {c} : inbox'[d] = inbox[d] /\ active'[d] = active[d]
          BY <2>0, <5>1
        <5>3. QED BY <3>9, <4>2, <5>1, <5>2
      <4>3. QED BY <4>1, <4>2
    <3>13. ASSUME NEW c \in Children, NEW x \in Requests, Touch(c, x) PROVE Good
      BY <3>3, <3>13 DEF Touch
    <3>14. QED
      BY <3>5, <3>6, <3>7, <3>8, <3>10, <3>11, <3>12, <3>13 DEF Next, Continue, Work
  <2>4. QED BY <2>2, <2>3
<1>3. QED BY <1>1, <1>2, WorkerTypes, ClosedForGood, PTL DEF Spec

\* The types, the lease, in whose hands a request is and that a close is for good, in
\* every reachable state.
THEOREM WorkerIsSound == Spec => []WorkerInv
<1>1. TypesInv /\ GrantInv /\ HeldInv /\ QuietInv => WorkerInv
  <2>1. HeldInv => NothingLost
    BY DEF HeldInv, Held, NothingLost, InHand, Has, Lines
  <2>2. QuietInv => ClosedIsQuiet
    BY DEF QuietInv, ClosedIsQuiet, Waits
  <2>3. QED BY <2>1, <2>2 DEF TypesInv, GrantInv, WorkerInv
<1>2. QED BY <1>1, WorkerTypes, LeasesAreGranted, RequestsAreHeld, ClosedForGood, PTL

-----------------------------------------------------------------------------
\* Answers are true.

\* The child c has the request r before it, or at work.
Doing(c, r) == Has(inbox[c], "execute", r) \/ r \in active[c]

\* What the results q of a child say of the side effects t.
Truthful(q, t) ==
  \A m \in Lines(q) : m.type = "result" =>
    /\ m.answer = "failed" => m.of \notin t
    /\ m.answer = "ok" /\ m.of \in Effects => m.of \in t

\* A request is sent once, to one child; once there is a result, or an answer that is
\* final, nobody works on it any more.
OnceInv ==
  /\ AnswersAreTrue
  /\ \A c \in Children : Once(inbox[c]) /\ Truthful(outbox[c], touched)
  /\ \A r \in Requests : req[r].stage \in Unsent => r \notin touched
  /\ \A r \in Requests : \A c \in Children :
       /\ req[r].stage \in Unsent => ~Doing(c, r) /\ ~Has(outbox[c], "result", r)
       /\ r \in Effects /\ req[r].answer \in Final => ~Doing(c, r)
       /\ Has(inbox[c], "execute", r) => r \notin touched /\ r \notin active[c]
       /\ \A d \in Children :
            /\ Doing(c, r) /\ Doing(d, r) => c = d
            /\ Has(outbox[c], "result", r) => ~Doing(d, r)

\* The answers are true after a step that starts no side effect.
LEMMA AnswersKept ==
  ASSUME TypeOK, OnceInv, [Next]_vars, UNCHANGED touched, NEW r \in Requests
  PROVE  /\ req'[r].answer \in {"failed", "thrown"} => r \notin touched'
         /\ req'[r].answer = "ok" /\ r \in Effects => r \in touched'
         /\ \A c \in Children : r \in Effects /\ req'[r].answer \in Final => ~Doing(c, r)
<1>1. touched \subseteq Effects
  BY DEF TypeOK, ChildTypes
<1>2. CASE req'[r].answer = req[r].answer
  BY <1>2 DEF OnceInv, AnswersAreTrue, Final
<1>3. CASE r \notin Effects /\ req'[r].answer = "failed"
  BY <1>1, <1>3
<1>4. CASE req[r].stage = "renewed" /\ req'[r].answer = "thrown"
  BY <1>4 DEF OnceInv, Unsent
<1>5. ASSUME NEW m, Handled(m), m.type = "result", m.of = r, req'[r].answer = m.answer
      PROVE  /\ req'[r].answer \in {"failed", "thrown"} => r \notin touched'
             /\ req'[r].answer = "ok" /\ r \in Effects => r \in touched'
             /\ \A c \in Children : ~Doing(c, r)
  <2>1. m \in ToParent /\ child \in Children
    BY <1>5, HandledTypes
  <2>2. m \in Lines(outbox[child])
    <3>1. outbox[child] \in Seq(ToParent) /\ outbox[child] # <<>> /\ m = Head(outbox[child])
      BY <1>5, <2>1 DEF Handled, TypeOK, ChildTypes
    <3>2. QED BY <3>1, RemainingLines
  <2>3. m.answer # "thrown"
    BY <1>5, <2>1, LineTypes
  <2>4. QED BY <1>5, <2>1, <2>2, <2>3 DEF OnceInv, Truthful, Has
<1>6. QED BY <1>2, <1>3, <1>4, <1>5, MoveTells DEF Final

\* A step in which nothing new is sent to a child, begun by one or reported.
LEMMA OnceKept ==
  ASSUME TypeOK, OnceInv, [Next]_vars, UNCHANGED touched,
         \A c \in Children :
           /\ Once(inbox'[c]) /\ active'[c] \subseteq active[c]
           /\ \A m \in Lines(inbox'[c]) : m.type = "execute" => m \in Lines(inbox[c])
           /\ \A m \in Lines(outbox'[c]) : m.type = "result" => m \in Lines(outbox[c])
  PROVE  OnceInv'
<1>1. ASSUME NEW c \in Children, NEW r
      PROVE  /\ Has(inbox'[c], "execute", r) => Has(inbox[c], "execute", r)
             /\ Has(outbox'[c], "result", r) => Has(outbox[c], "result", r)
             /\ r \in active'[c] => r \in active[c]
  BY DEF Has
<1>2. AnswersAreTrue'
  BY AnswersKept DEF AnswersAreTrue
<1>3. ASSUME NEW c \in Children PROVE Once(inbox'[c]) /\ Truthful(outbox'[c], touched')
  BY DEF OnceInv, Truthful
<1>4. ASSUME NEW r \in Requests, NEW c \in Children
      PROVE  /\ req'[r].stage \in Unsent => ~Doing(c, r)' /\ ~Has(outbox'[c], "result", r)
             /\ r \in Effects /\ req'[r].answer \in Final => ~Doing(c, r)'
             /\ Has(inbox'[c], "execute", r) => r \notin touched' /\ r \notin active'[c]
             /\ \A d \in Children :
                  /\ Doing(c, r)' /\ Doing(d, r)' => c = d
                  /\ Has(outbox'[c], "result", r) => ~Doing(d, r)'
  <2>1. req'[r].stage \in Unsent => req[r].stage \in Unsent
    BY MoveTells
  <2>2. r \in Effects /\ req'[r].answer \in Final => ~Doing(c, r)
    BY AnswersKept
  <2>3. \A d \in Children : Doing(d, r)' => Doing(d, r)
    BY <1>1 DEF Doing
  <2>4. QED BY <1>1, <2>1, <2>2, <2>3 DEF OnceInv
<1>5. \A r \in Requests : req'[r].stage \in Unsent => r \notin touched'
  BY MoveTells DEF OnceInv
<1>6. QED BY <1>2, <1>3, <1>4, <1>5 DEF OnceInv, Doing

\* An answer is true for good: who is told that a request failed may rely on it that no
\* side effect began or ever will, and who is told that it succeeded that it did
\* (execute, #handleLine, handleExit; the execute loop of the host).
THEOREM OnceIsEnough == Spec => []OnceInv
<1>1. Init => OnceInv
  <2> SUFFICES ASSUME Init PROVE OnceInv
    OBVIOUS
  <2>1. \A c \in Children : Lines(inbox[c]) = {} /\ Lines(outbox[c]) = {} /\ Once(inbox[c]) /\ active[c] = {}
    BY DEF Init, Lines, Once
  <2>2. touched = {} /\ \A r \in Requests : req[r].answer = "none"
    BY DEF Init
  <2>3. QED BY <2>1, <2>2 DEF OnceInv, AnswersAreTrue, Truthful, Doing, Has, Final
<1>2. TypesInv /\ OnceInv /\ [Next]_vars => OnceInv'
  <2> SUFFICES ASSUME TypesInv, OnceInv, [Next]_vars PROVE OnceInv'
    OBVIOUS
  <2>0. /\ TypeOK /\ inbox \in [Children -> Seq(ToChild)] /\ outbox \in [Children -> Seq(ToParent)]
        /\ active \in [Children -> SUBSET Requests] /\ touched \subseteq Effects
        /\ \A c \in Children : Once(inbox[c])
        /\ child # None => child \in Children
    BY WorkerAssumption, FS_CardinalityType
       DEF TypesInv, TypeOK, ParentTypes, ChildTypes, OnceInv, Children, None
  <2>1. ASSUME UNCHANGED <<inbox, outbox, active, touched>> PROVE OnceInv'
    BY <2>0, <2>1, OnceKept
  <2>2. ASSUME NEW l \in ToChild, inbox' = [inbox EXCEPT ![child] = Append(inbox[child], l)],
               child \in Children
        PROVE  /\ inbox'[child] = Append(inbox[child], l) /\ Lines(inbox'[child]) = Lines(inbox[child]) \cup {l}
               /\ (l.type = "execute" => ~Has(inbox[child], "execute", l.of)) => Once(inbox'[child])
               /\ \A d \in Children \ {child} : inbox'[d] = inbox[d]
    <3>1. inbox[child] \in Seq(ToChild) /\ inbox'[child] = Append(inbox[child], l)
          /\ \A d \in Children \ {child} : inbox'[d] = inbox[d]
      BY <2>0, <2>2
    <3>2. QED BY <2>0, <2>2, <3>1, AppendedLines
  <2>3. ASSUME NEW x \in Requests, Execute(x) PROVE OnceInv'
    <3>1. UNCHANGED <<outbox, active, touched>>
      BY <2>3 DEF Execute
    <3>2. CASE AskRenewal(x)
      <4>1. child \in Children
        BY <2>0, <3>2 DEF AskRenewal, Usable, TypeOK, ParentTypes
      <4>2. PICK l \in ToChild : l.type = "renew" /\ inbox' = [inbox EXCEPT ![child] = Append(inbox[child], l)]
        <5>1. [type |-> "renew", of |-> x] \in ToChild
          BY DEF ToChild
        <5>2. QED BY <3>2, <5>1 DEF AskRenewal
      <4>3. QED BY <2>0, <2>2, <3>1, <4>1, <4>2, OnceKept
    <3>3. CASE StartChild(x)
      <4>1. PICK k : k = starts + 1 /\ inbox' = [inbox EXCEPT ![k] = <<[type |-> "initialize"]>>]
        BY <3>3 DEF StartChild
      <4>2. Once(<<[type |-> "initialize"]>>) /\ Lines(<<[type |-> "initialize"]>>) = {[type |-> "initialize"]}
        BY DEF Once, Lines
      <4>3. \A d \in Children : inbox'[d] = IF d = k THEN <<[type |-> "initialize"]>> ELSE inbox[d]
        BY <2>0, <4>1
      <4>4. QED BY <2>0, <3>1, <4>2, <4>3, OnceKept
    <3>4. QED BY <2>1, <2>3, <3>1, <3>2, <3>3 DEF Execute, Refuse, UseLease, JoinStart
  <2>4. CASE \/ StartSettles \/ HandleExit \/ StartTimeout \/ Reconcile \/ Close \/ Tick \/ UNCHANGED vars
             \/ \E x \in Requests : RenewalSettles(x) \/ Abort(x) \/ RenewalTimeout(x)
    BY <2>1, <2>4 DEF StartSettles, HandleExit, StartTimeout, Reconcile, Close, Tick, RenewalSettles,
                      Abort, RenewalTimeout, childVars, vars
  <2>5. ASSUME NEW r \in Requests, Send(r) PROVE OnceInv'
    <3>1. req[r].stage \in Unsent /\ UNCHANGED <<outbox, active, touched>>
      BY <2>5 DEF Send, Unsent
    <3>2. CASE inbox' = inbox
      BY <2>1, <3>1, <3>2
    <3>3. CASE /\ child # None /\ req' = [req EXCEPT ![r].stage = "waiting"]
               /\ inbox' = [inbox EXCEPT ![child] = Append(@, [type |-> "execute", of |-> r])]
      <4>1. PICK l \in ToChild : /\ l.type = "execute" /\ l.of = r
                                 /\ inbox' = [inbox EXCEPT ![child] = Append(inbox[child], l)]
        <5>1. [type |-> "execute", of |-> r] \in ToChild
          BY DEF ToChild
        <5>2. QED BY <3>3, <5>1
      <4>2. \A c \in Children : ~Doing(c, r) /\ ~Has(outbox[c], "result", r) /\ r \notin touched
        BY <3>1 DEF OnceInv
      <4>3. /\ Lines(inbox'[child]) = Lines(inbox[child]) \cup {l} /\ Once(inbox'[child])
            /\ \A d \in Children \ {child} : inbox'[d] = inbox[d]
        BY <2>0, <2>2, <3>3, <4>1, <4>2 DEF Doing
      <4>4. ASSUME NEW c \in Children, NEW q \in Requests
            PROVE  /\ Has(inbox'[c], "execute", q) <=> Has(inbox[c], "execute", q) \/ (c = child /\ q = r)
                   /\ Doing(c, q)' <=> Doing(c, q) \/ (c = child /\ q = r)
        BY <3>1, <4>1, <4>3 DEF Has, Doing
      <4>5. /\ req'[r].stage = "waiting" /\ req'[r].answer = "none"
            /\ \A q \in Requests \ {r} : req'[q] = req[q]
        <5>1. req \in [Requests -> [stage : Stages, lease : 0 .. starts, until : 0 .. MaxTime + TTL, answer : Answers]]
              /\ (req[r].answer # "none" <=> req[r].stage = "answered")
          BY <2>0 DEF TypeOK, RequestTypes
        <5>2. QED BY <3>1, <3>3, <5>1 DEF Unsent
      <4>6. AnswersAreTrue'
        BY <2>0, <3>1, AnswersKept DEF AnswersAreTrue
      <4>7. \A c \in Children : Once(inbox'[c]) /\ Truthful(outbox'[c], touched')
        BY <3>1, <4>3 DEF OnceInv
      <4>8. ASSUME NEW q \in Requests, NEW c \in Children
            PROVE  /\ req'[q].stage \in Unsent => ~Doing(c, q)' /\ ~Has(outbox'[c], "result", q)
                   /\ q \in Effects /\ req'[q].answer \in Final => ~Doing(c, q)'
                   /\ Has(inbox'[c], "execute", q) => q \notin touched' /\ q \notin active'[c]
                   /\ \A d \in Children :
                        /\ Doing(c, q)' /\ Doing(d, q)' => c = d
                        /\ Has(outbox'[c], "result", q) => ~Doing(d, q)'
        <5>1. CASE q = r
          BY <3>1, <4>2, <4>4, <4>5, <5>1 DEF Unsent, Final, Doing
        <5>2. CASE q # r
          BY <3>1, <4>4, <4>5, <5>2 DEF OnceInv
        <5>3. QED BY <5>1, <5>2
      <4>9. \A q \in Requests : req'[q].stage \in Unsent => q \notin touched'
        BY <3>1, <4>5 DEF OnceInv, Unsent
      <4>10. QED BY <4>6, <4>7, <4>8, <4>9 DEF OnceInv
    <3>4. QED BY <2>5, <3>2, <3>3 DEF Send
  <2>6. CASE HandleLine
    <3>1. UNCHANGED <<inbox, active, touched>> /\ child # None /\ outbox[child] # <<>>
          /\ outbox' = [outbox EXCEPT ![child] = Tail(outbox[child])]
      BY <2>6 DEF HandleLine
    <3>2. outbox[child] \in Seq(ToParent)
          /\ \A c \in Children : outbox'[c] = IF c = child THEN Tail(outbox[child]) ELSE outbox[c]
      BY <2>0, <3>1
    <3>3. Lines(Tail(outbox[child])) \subseteq Lines(outbox[child])
      BY <3>1, <3>2, RemainingLines
    <3>4. \A c \in Children : Lines(outbox'[c]) \subseteq Lines(outbox[c])
      BY <3>2, <3>3
    <3>5. QED BY <2>0, <3>1, <3>4, OnceKept
  <2>7. ASSUME NEW c \in Children, Die(c) PROVE OnceInv'
    <3>1. UNCHANGED <<outbox, touched>>
          /\ \A d \in Children : /\ inbox'[d] = IF d = c THEN <<>> ELSE inbox[d]
                                 /\ active'[d] = IF d = c THEN {} ELSE active[d]
      BY <2>0, <2>7 DEF Die
    <3>2. Once(<<>>) /\ Lines(<<>>) = {}
      BY DEF Once, Lines
    <3>3. QED BY <2>0, <3>1, <3>2, OnceKept
  <2>8. ASSUME UNCHANGED <<req, touched>>, NEW r \in Requests, NEW e \in Children, Doing(e, r),
               \A c \in Children : Once(inbox'[c]) /\ Truthful(outbox'[c], touched),
               \A c \in Children : \A q \in Requests \ {r} :
                 /\ Has(inbox'[c], "execute", q) => Has(inbox[c], "execute", q)
                 /\ q \in active'[c] => q \in active[c]
                 /\ Has(outbox'[c], "result", q) => Has(outbox[c], "result", q),
               \A c \in Children :
                 /\ Has(inbox'[c], "execute", r) => Has(inbox[c], "execute", r) /\ r \notin active'[c]
                 /\ Doing(c, r)' => Doing(c, r)
                 /\ Has(outbox'[c], "result", r) => Has(outbox[c], "result", r) \/ \A d \in Children : ~Doing(d, r)'
        PROVE  OnceInv'
    <3>1. AnswersAreTrue' /\ \A q \in Requests : req'[q].stage \in Unsent => q \notin touched'
      BY <2>8 DEF OnceInv, AnswersAreTrue
    <3>2. ASSUME NEW q \in Requests, NEW c \in Children
          PROVE  /\ req'[q].stage \in Unsent => ~Doing(c, q)' /\ ~Has(outbox'[c], "result", q)
                 /\ q \in Effects /\ req'[q].answer \in Final => ~Doing(c, q)'
                 /\ Has(inbox'[c], "execute", q) => q \notin touched' /\ q \notin active'[c]
                 /\ \A d \in Children :
                      /\ Doing(c, q)' /\ Doing(d, q)' => c = d
                      /\ Has(outbox'[c], "result", q) => ~Doing(d, q)'
      <4>1. CASE q = r
        BY <2>8, <4>1 DEF OnceInv
      <4>2. CASE q # r
        <5>1. \A d \in Children : Doing(d, q)' => Doing(d, q)
          BY <2>8, <4>2 DEF Doing
        <5>2. QED BY <2>8, <4>2, <5>1 DEF OnceInv
      <4>3. QED BY <4>1, <4>2
    <3>3. QED BY <2>8, <3>1, <3>2 DEF OnceInv
  <2>9. ASSUME NEW e \in Children, ReadLine(e) PROVE OnceInv'
    <3>1. UNCHANGED <<req, touched>>
      BY <2>9 DEF ReadLine
    <3>2. PICK m \in ToChild, ls \in SUBSET ToParent : Reads(e, m, ls)
      BY <2>0, <2>9, ChildReads
    <3>3. /\ Lines(inbox[e]) = {m} \cup Lines(inbox'[e]) /\ Lines(outbox'[e]) = Lines(outbox[e]) \cup ls
          /\ \A c \in Children : Once(inbox'[c])
          /\ m.type = "execute" => ~Has(inbox'[e], "execute", m.of)
          /\ \A d \in Children \ {e} : inbox'[d] = inbox[d] /\ outbox'[d] = outbox[d] /\ active'[d] = active[d]
      BY <2>0, <3>2 DEF Reads
    <3>4. CASE m.type # "execute" /\ active'[e] = active[e] /\ \A l \in ls : l.type # "result"
      BY <2>0, <3>1, <3>3, <3>4, OnceKept
    <3>5. CASE m.type = "execute"
      <4>1. PICK r \in Requests : r = m.of
        BY <3>2, <3>5, LineTypes
      <4>2. /\ Has(inbox[e], "execute", r) /\ ~Has(inbox'[e], "execute", r)
            /\ Doing(e, r) /\ r \notin touched /\ r \notin active[e]
        BY <3>3, <3>5, <4>1 DEF OnceInv, Has, Doing
      <4>3. \A c \in Children : \A q \in Requests : Has(inbox'[c], "execute", q) => Has(inbox[c], "execute", q)
        BY <3>3 DEF Has
      <4>4. \A d \in Children \ {e} : ~Doing(d, r)
        BY <4>2 DEF OnceInv
      <4>5. \A d \in Children \ {e} : Doing(d, r)' <=> Doing(d, r)
        BY <3>3 DEF Doing
      <4>6. CASE active'[e] = active[e] /\ ls = {Result(r, "failed", e)}
        <5>1. /\ Result(r, "failed", e).type = "result" /\ Result(r, "failed", e).of = r
              /\ Result(r, "failed", e).answer = "failed"
          BY DEF Result
        <5>2. \A c \in Children : Truthful(outbox'[c], touched)
          BY <3>3, <4>2, <4>6, <5>1 DEF OnceInv, Truthful
        <5>3. \A c \in Children : \A q \in Requests \ {r} : Has(outbox'[c], "result", q) => Has(outbox[c], "result", q)
          BY <3>3, <4>6, <5>1 DEF Has
        <5>4. \A d \in Children : ~Doing(d, r)'
          BY <4>2, <4>4, <4>5, <4>6 DEF Doing
        <5>5. \A c \in Children : active'[c] = active[c]
          BY <3>3, <4>6
        <5>6. \A c \in Children : ~Has(inbox'[c], "execute", r)
          BY <5>4 DEF Doing
        <5>7. QED BY <2>8, <3>1, <3>3, <4>2, <4>3, <5>2, <5>3, <5>4, <5>5, <5>6
      <4>7. CASE active'[e] = active[e] \cup {r} /\ ls = {}
        <5>1. \A c \in Children : Lines(outbox'[c]) = Lines(outbox[c])
          BY <3>3, <4>7
        <5>2. \A c \in Children : Truthful(outbox'[c], touched)
          BY <5>1 DEF OnceInv, Truthful
        <5>3. \A c \in Children : \A q \in Requests : Has(outbox'[c], "result", q) => Has(outbox[c], "result", q)
          BY <5>1 DEF Has
        <5>4. \A c \in Children : \A q \in Requests \ {r} : q \in active'[c] => q \in active[c]
          BY <3>3, <4>7
        <5>5. \A c \in Children : ~Has(inbox'[c], "execute", r)
          BY <3>3, <4>2, <4>4 DEF Doing
        <5>6. \A c \in Children : Doing(c, r)' => Doing(c, r)
          BY <4>2, <4>5
        <5>7. QED BY <2>8, <3>1, <3>3, <4>2, <4>3, <5>2, <5>3, <5>4, <5>5, <5>6
      <4>8. QED BY <3>2, <3>5, <4>1, <4>6, <4>7 DEF Reads
    <3>6. QED BY <3>2, <3>4, <3>5 DEF Reads
  <2>10. ASSUME NEW e \in Children, NEW r \in Requests, Finish(e, r) PROVE OnceInv'
    <3>1. UNCHANGED <<req, touched, inbox>>
      BY <2>10 DEF Finish
    <3>2. PICK a \in {"ok", "failed", "uncertain"} : Finishes(e, r, a)
      BY <2>0, <2>10, ChildFinishes
    <3>3. PICK l : /\ l = Result(r, a, e) /\ l.type = "result" /\ l.of = r /\ l.answer = a
                   /\ Lines(outbox'[e]) = Lines(outbox[e]) \cup {l}
      BY <3>2 DEF Finishes, Result
    <3>4. /\ r \in active[e] /\ a \in Outcomes(r) /\ active'[e] = active[e] \ {r}
          /\ \A d \in Children \ {e} : outbox'[d] = outbox[d] /\ active'[d] = active[d]
      BY <3>2 DEF Finishes
    <3>5. Doing(e, r) /\ ~Has(inbox[e], "execute", r) /\ \A d \in Children \ {e} : ~Doing(d, r)
      BY <3>4 DEF OnceInv, Doing
    <3>6. \A d \in Children : ~Doing(d, r)'
      BY <3>1, <3>4, <3>5 DEF Doing
    <3>7. \A c \in Children : Truthful(outbox'[c], touched)
      <4>1. a = "failed" => r \notin touched
        BY <3>4 DEF Outcomes
      <4>2. a = "ok" /\ r \in Effects => r \in touched
        BY <3>4 DEF Outcomes
      <4>3. QED BY <3>3, <3>4, <4>1, <4>2 DEF OnceInv, Truthful
    <3>8. \A c \in Children : \A q \in Requests \ {r} : Has(outbox'[c], "result", q) => Has(outbox[c], "result", q)
      BY <3>3, <3>4 DEF Has
    <3>9. \A c \in Children : \A q \in Requests : q \in active'[c] => q \in active[c]
      BY <3>4
    <3>10. \A c \in Children : ~Has(inbox'[c], "execute", r)
      BY <3>6 DEF Doing
    <3>11. QED BY <2>0, <2>8, <3>1, <3>5, <3>6, <3>7, <3>8, <3>9, <3>10
  <2>11. ASSUME NEW e \in Children, NEW r \in Requests, Touch(e, r) PROVE OnceInv'
    <3>1. /\ UNCHANGED <<req, inbox, outbox, active>> /\ touched' = touched \cup {r}
          /\ r \in active[e] /\ r \in Effects
      BY <2>11 DEF Touch
    <3>2. /\ Doing(e, r) /\ req[r].stage \notin Unsent /\ req[r].answer \notin Final
          /\ \A c \in Children : ~Has(inbox[c], "execute", r) /\ ~Has(outbox[c], "result", r)
      <4>1. Doing(e, r)
        BY <3>1 DEF Doing
      <4>2. ASSUME NEW c \in Children, Has(inbox[c], "execute", r) PROVE FALSE
        <5>1. c = e
          BY <4>1, <4>2 DEF OnceInv, Doing
        <5>2. QED BY <3>1, <4>2, <5>1 DEF OnceInv
      <4>3. QED BY <3>1, <4>1, <4>2 DEF OnceInv
    <3>3. AnswersAreTrue'
      BY <3>1, <3>2 DEF OnceInv, AnswersAreTrue, Final
    <3>4. \A q \in Requests : req'[q].stage \in Unsent => q \notin touched'
      BY <3>1, <3>2 DEF OnceInv
    <3>5. \A c \in Children : Once(inbox'[c]) /\ Truthful(outbox'[c], touched')
      BY <3>1, <3>2 DEF OnceInv, Truthful, Has
    <3>6. ASSUME NEW q \in Requests, NEW c \in Children
          PROVE  /\ req'[q].stage \in Unsent => ~Doing(c, q)' /\ ~Has(outbox'[c], "result", q)
                 /\ q \in Effects /\ req'[q].answer \in Final => ~Doing(c, q)'
                 /\ Has(inbox'[c], "execute", q) => q \notin touched' /\ q \notin active'[c]
                 /\ \A d \in Children :
                      /\ Doing(c, q)' /\ Doing(d, q)' => c = d
                      /\ Has(outbox'[c], "result", q) => ~Doing(d, q)'
      BY <3>1, <3>2 DEF OnceInv, Doing
    <3>7. QED BY <3>3, <3>4, <3>5, <3>6 DEF OnceInv
  <2>12. QED
    BY <2>3, <2>4, <2>5, <2>6, <2>7, <2>9, <2>10, <2>11 DEF Next, Continue, Work
<1>3. QED BY <1>1, <1>2, WorkerTypes, PTL DEF Spec

\* An answer is true for good.
THEOREM AnswersTrue == Spec => []AnswersAreTrue
<1>1. OnceInv => AnswersAreTrue
  BY DEF OnceInv
<1>2. QED BY <1>1, OnceIsEnough, PTL
=============================================================================
