-------------------------------- MODULE Outbox --------------------------------
(***************************************************************************)
(* The outbox: events are committed with the state they announce and are   *)
(* delivered to the subscribers later, in order, until they are marked     *)
(* published (Runtime.subscribe and #publishPending in runtime.ts,         *)
(* pendingEvents and markPublished in persistence.ts).                     *)
(*                                                                         *)
(* #publishPending runs without an await.  Here it is one step for each    *)
(* call of a listener and each UPDATE, so that a listener, a storage fault *)
(* or the end of the process may cut it short; nothing else happens in     *)
(* between.  A listener that subscribes another from within its callback   *)
(* nests one publication in the other.                                     *)
(***************************************************************************)
EXTENDS Naturals, Sequences, FiniteSets

CONSTANTS
  Listeners,
  MaxEvents,   \* bound on the events
  MaxBatch,    \* the most events one command commits
  MaxFaults,   \* bound on listeners that throw and UPDATEs that fail
  MaxCrashes,  \* bound on process crashes
  MaxNested    \* bound on subscriptions made in a callback

ASSUME OutboxAssumption == {MaxEvents, MaxBatch, MaxFaults, MaxCrashes, MaxNested} \subseteq Nat

VARIABLES
  count,      \* the outbox rows are 1 .. count, by sequence
  published,  \* those with a published_at
  listeners,  \* #listeners
  stream,     \* what each listener got since it subscribed
  since,      \* the events that were published before it subscribed
  due,        \* commands that are committed and will call #publishPending
  queue,      \* the rows #publishPending has read and not marked
  left,       \* the listeners that have not been called with the first of them
  strict,     \* publication asked for by subscribe: the new listener, if any
  outer,      \* the publication in which this one was started, if any, and in whose callback
  nested,     \* how often that happened
  reached,    \* history: events that some listener ever got
  deserted,   \* history: whether a callback left nobody to listen, and publication went on
  faults, crashes

publication == <<queue, left, strict, outer, nested>>
vars == <<count, published, listeners, stream, since, due, publication, reached, deserted, faults, crashes>>

\* A publication that waits for one inside it, and the listener whose callback it is in.
Waiting == [queue : Seq(1 .. MaxEvents), left : SUBSET Listeners,
            strict : SUBSET Listeners, caller : Listeners]

OutboxTypes ==
  /\ count \in 0 .. MaxEvents /\ published \subseteq 1 .. count /\ reached \subseteq 1 .. count
  /\ listeners \subseteq Listeners
  /\ stream \in [Listeners -> Seq(1 .. MaxEvents)]
  /\ since \in [Listeners -> SUBSET (1 .. MaxEvents)]
  /\ due \in Nat
  /\ faults \in 0 .. MaxFaults /\ crashes \in 0 .. MaxCrashes /\ deserted \in BOOLEAN

PublicationTypes ==
  /\ queue \in Seq(1 .. MaxEvents)
  /\ left \subseteq listeners /\ strict \subseteq Listeners
  /\ outer \in Seq(Waiting) /\ Len(outer) <= 1
  /\ nested \in 0 .. MaxNested

TypeOK == OutboxTypes /\ PublicationTypes

Init ==
  /\ count = 0 /\ published = {} /\ reached = {}
  /\ listeners = {} /\ due = 0 /\ faults = 0 /\ crashes = 0
  /\ stream = [l \in Listeners |-> <<>>]
  /\ since = [l \in Listeners |-> {}]
  /\ queue = <<>> /\ left = {} /\ strict = {} /\ outer = <<>> /\ nested = 0 /\ deserted = FALSE

Idle == queue = <<>> /\ outer = <<>>

\* pendingEvents: the unpublished rows by sequence.
\* (mutants: the published ones too; without the ORDER BY)
AllEvents(p, n) == [i \in 1 .. n |-> i]
NewestFirst(p, n) == SelectSeq([i \in 1 .. n |-> n + 1 - i], LAMBDA e : e \notin p)
Pending(p, n) ==
  LET S == (1 .. n) \ p IN
  CHOOSE q \in [1 .. Cardinality(S) -> S] :
    /\ \A e \in S : \E i \in DOMAIN q : q[i] = e
    /\ \A i, j \in DOMAIN q : i < j => q[i] < q[j]

-----------------------------------------------------------------------------
\* A command commits its events; a repeated idempotency key commits none.
Commit(n) ==
  /\ Idle /\ count + n <= MaxEvents /\ due < 2
  /\ count' = count + n
  /\ due' = due + 1
  /\ UNCHANGED <<published, listeners, stream, since, publication, reached, deserted, faults, crashes>>

\* (mutant: nobody asks whether there are any)
PublishAnyway == TRUE
SomebodyListens == listeners # {}

StartPublication(ls) ==
  /\ queue' = Pending(published, count)
  /\ left' = IF queue' = <<>> THEN {} ELSE ls

Publish ==
  /\ Idle /\ due > 0
  /\ due' = due - 1
  /\ IF SomebodyListens THEN StartPublication(listeners) ELSE UNCHANGED <<queue, left>>
  /\ strict' = {}
  /\ UNCHANGED <<count, published, listeners, stream, since, reached, deserted, outer, nested, faults, crashes>>

Subscribe(l) ==
  /\ Idle /\ l \notin listeners
  /\ listeners' = listeners \cup {l}
  /\ stream' = [stream EXCEPT ![l] = <<>>]
  /\ since' = [since EXCEPT ![l] = published]
  /\ StartPublication(listeners')
  /\ strict' = {l}
  /\ UNCHANGED <<count, published, due, reached, deserted, outer, nested, faults, crashes>>

Unsubscribe(l) ==
  /\ Idle /\ l \in listeners
  /\ listeners' = listeners \ {l}
  /\ UNCHANGED <<count, published, stream, since, due, publication, reached, deserted, faults, crashes>>

-----------------------------------------------------------------------------
\* The loops of #publishPending.

Receive(l) ==
  /\ ~Idle /\ l \in left
  /\ stream' = [stream EXCEPT ![l] = Append(@, Head(queue))]
  /\ reached' = reached \cup {Head(queue)}
  /\ UNCHANGED <<count, published, since, due, crashes>>

Accept(l) ==
  /\ Receive(l)
  /\ left' = left \ {l}
  /\ UNCHANGED <<listeners, queue, strict, outer, nested, deserted, faults>>

\* The publication ends early, what is left stays unpublished, and who are deleted are
\* no listeners any more.  If it was asked for in a callback, this callback may see to
\* the exception, and return, or throw it.
Stop(deleted) ==
  IF outer = <<>>
    THEN /\ queue' = <<>> /\ left' = {} /\ strict' = {} /\ outer' = outer
         /\ listeners' = listeners \ deleted /\ UNCHANGED deserted
    ELSE LET o == Head(outer) IN
         /\ outer' = <<>>
         /\ \/ /\ listeners' = listeners \ deleted
               /\ deserted' = (deserted \/ listeners' = {})
               /\ queue' = o.queue /\ left' = o.left \cap listeners' /\ strict' = o.strict
            \/ /\ listeners' = listeners \ (deleted \cup {o.caller} \cup o.strict)
               /\ queue' = <<>> /\ left' = {} /\ strict' = {} /\ UNCHANGED deserted

\* (mutant: the others are called)
KeepGoing(l) ==
  /\ queue' = queue /\ left' = left \ {l} /\ strict' = strict /\ outer' = outer
  /\ listeners' = listeners \ {l} /\ UNCHANGED deserted

\* The listener is forgotten, and so is one that is just subscribing, whose subscribe
\* call throws.
AfterThrow(l) == Stop({l} \cup strict)

Reject(l) ==
  /\ faults < MaxFaults /\ faults' = faults + 1
  /\ Receive(l)
  /\ AfterThrow(l)
  /\ UNCHANGED nested

\* In its callback the listener subscribes another: the rows that are not marked, if
\* there are any, are published before the callback goes on.  The loop that called it
\* will get to the new listener as well.
SubscribeWithin(l, new) ==
  /\ outer = <<>> /\ nested < MaxNested /\ nested' = nested + 1
  /\ ~Idle /\ l \in left /\ new \notin listeners
  /\ reached' = reached \cup {Head(queue)}
  /\ stream' = [stream EXCEPT ![l] = Append(@, Head(queue)), ![new] = <<>>]
  /\ since' = [since EXCEPT ![new] = published]
  /\ listeners' = listeners \cup {new}
  /\ IF Pending(published, count) = <<>>
       THEN left' = (left \ {l}) \cup {new} /\ UNCHANGED <<queue, strict, outer>>
       ELSE /\ outer' = <<[queue |-> queue, left |-> (left \ {l}) \cup {new},
                          strict |-> strict, caller |-> l]>>
            /\ StartPublication(listeners')
            /\ strict' = {new}
  /\ UNCHANGED <<count, published, due, deserted, faults, crashes>>

\* The listener calls its own unsubscribe function and returns.
Leave(l) ==
  /\ Receive(l)
  /\ left' = left \ {l}
  /\ listeners' = listeners \ {l}
  /\ deserted' = (deserted \/ listeners' = {})
  /\ UNCHANGED <<queue, strict, outer, nested, faults>>

EveryoneCalled == left = {}

\* markPublished, after the last listener; then the next row, or the callback that
\* asked for the publication goes on.
Mark ==
  /\ ~Idle /\ EveryoneCalled
  /\ published' = published \cup {Head(queue)}
  /\ IF Len(queue) > 1 \/ outer = <<>>
       THEN /\ queue' = Tail(queue)
            /\ left' = IF queue' = <<>> THEN {} ELSE listeners
            /\ UNCHANGED <<strict, outer>>
       ELSE /\ queue' = Head(outer).queue
            /\ left' = Head(outer).left \cap listeners
            /\ strict' = Head(outer).strict
            /\ outer' = <<>>
  /\ UNCHANGED <<count, listeners, stream, since, due, nested, reached, deserted, faults, crashes>>

\* The UPDATE throws.
MarkFails ==
  /\ ~Idle /\ EveryoneCalled
  /\ faults < MaxFaults /\ faults' = faults + 1
  /\ Stop(strict)
  /\ UNCHANGED <<count, published, stream, since, due, nested, reached, crashes>>

\* The process ends, perhaps inside a publication, and starts again; recovery
\* commits events of its own and publishes nothing.
Restart(n) ==
  /\ crashes < MaxCrashes /\ count + n <= MaxEvents
  /\ count' = count + n
  /\ listeners' = {} /\ due' = 0
  /\ queue' = <<>> /\ left' = {} /\ strict' = {} /\ outer' = <<>>
  /\ crashes' = crashes + 1
  /\ UNCHANGED <<published, stream, since, nested, reached, deserted, faults>>

Next ==
  \/ \E n \in 0 .. MaxBatch : Commit(n) \/ Restart(n)
  \/ Publish \/ Mark \/ MarkFails
  \/ \E l \in Listeners :
       \/ Subscribe(l) \/ Unsubscribe(l) \/ Accept(l) \/ Reject(l) \/ Leave(l)
       \/ \E new \in Listeners : SubscribeWithin(l, new)

Spec == Init /\ [][Next]_vars

-----------------------------------------------------------------------------
\* What ADR 0002 promises, and the code does not keep: delivery at least once, an event
\* is marked only after somebody got it.
PublishedWasReached == published \subseteq reached

\* It is kept until a callback unsubscribes the last listener and the batch goes on.
ReachedUnlessDeserted == deserted \/ PublishedWasReached

\* Events are marked from the first on: a failed listener, a storage fault or a
\* crash never leaves an event behind that is older than a published one.
PublishedIsPrefix == \A e \in published : \A d \in 1 .. e : d \in published
\* No subscriber misses an event that is marked while it is subscribed.
NobodyMisses ==
  \A l \in listeners : \A e \in published \ since[l] : \E i \in DOMAIN stream[l] : stream[l][i] = e

\* What a batch that is cut short anywhere must leave behind: no event is skipped,
\* neither by the marks nor for a subscriber (runtime.ts:570-582).
OutboxInv == TypeOK /\ PublishedIsPrefix /\ ReachedUnlessDeserted /\ NobodyMisses

\* A subscriber sees the events without a gap: it gets none before it got all that were
\* not published when it subscribed.  And it sees them in order: the next is the last it
\* saw, sent again after somebody failed, or the one after it.  Only a publication inside
\* another may take it back to events it saw (runtime.ts:219-223, 570-582).
StreamInOrder ==
  \A l \in Listeners : \A i \in DOMAIN stream[l] :
    /\ \A d \in 1 .. stream[l][i] - 1 : d \in since[l] \/ \E j \in 1 .. i - 1 : stream[l][j] = d
    /\ i > 1 /\ nested = 0 => stream[l][i] \in {stream[l][i - 1], stream[l][i - 1] + 1}

\* What is marked published is sent again only by a publication in which another one
\* marked it.
PublishedIsOver ==
  [][\A l \in Listeners :
       Len(stream'[l]) > Len(stream[l]) /\ nested = 0 => Head(queue) \notin published]_vars

-----------------------------------------------------------------------------
\* Seen from outside, events are delivered and marked as Delivery promises: publication
\* begins when somebody subscribes, and an event is marked when all before it are and every
\* subscriber has it (runtime.ts:219-223, 570-582).
Promise == INSTANCE Delivery WITH
  total <- count, marked <- published, subscribers <- listeners, publishing <- ~Idle,
  had <- [l \in Listeners |-> since[l] \cup {stream[l][i] : i \in DOMAIN stream[l]}]
ImplementsDelivery == Promise!Spec
===============================================================================
