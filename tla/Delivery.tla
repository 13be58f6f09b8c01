------------------------------- MODULE Delivery -------------------------------
(***************************************************************************)
(* What the outbox promises its subscribers, whatever publications,        *)
(* callbacks, faults and crashes lie behind it: publication begins when    *)
(* there are subscribers; an event is delivered when all before it are     *)
(* marked, perhaps more than once, and marked when all who subscribe have  *)
(* it, be it that the last of them has just left.  Outbox implements it.   *)
(***************************************************************************)
EXTENDS Naturals

CONSTANT Listeners

VARIABLES
  total,        \* the events are 1 .. total
  marked,       \* those that are published for good
  subscribers,
  publishing,   \* events are being delivered and marked
  had           \* what each subscriber has got, or was marked before it came

vars == <<total, marked, subscribers, publishing, had>>

Init ==
  /\ total = 0 /\ marked = {} /\ subscribers = {} /\ had = [l \in Listeners |-> {}]
  /\ publishing = FALSE

\* An event whose turn it is, or was.
Turn(e) == e \in 1 .. total /\ 1 .. e - 1 \subseteq marked

Commit ==
  /\ ~publishing
  /\ total' >= total
  /\ UNCHANGED <<marked, subscribers, publishing, had>>

\* Those who come will get what is not marked yet, and miss what is.
Had(come, h) == [m \in Listeners |-> IF m \in come THEN marked ELSE h[m]]

Begin ==
  /\ ~publishing /\ subscribers # {}
  /\ publishing' = TRUE
  /\ UNCHANGED <<total, marked, subscribers, had>>

\* A new subscriber gets what is pending, if anything is.
Subscribe(come) ==
  /\ ~publishing /\ come # {} /\ come \cap subscribers = {}
  /\ subscribers' = subscribers \cup come
  /\ had' = Had(come, had)
  /\ publishing' \in BOOLEAN
  /\ UNCHANGED <<total, marked>>

\* In its callback a subscriber may bring others in; it, or one that is just coming, may
\* go, or fail and end the publication.
Deliver(l, e, come, gone) ==
  /\ publishing /\ publishing' \in BOOLEAN
  /\ l \in subscribers /\ Turn(e) /\ come \cap subscribers = {}
  /\ had' = Had(come, [had EXCEPT ![l] = @ \cup {e}])
  /\ subscribers' = (subscribers \cup come) \ gone
  /\ UNCHANGED <<total, marked>>

Mark(e) ==
  /\ publishing /\ publishing' \in BOOLEAN
  /\ Turn(e) /\ \A l \in subscribers : e \in had[l]
  /\ marked' = marked \cup {e}
  /\ UNCHANGED <<total, subscribers, had>>

\* Subscribers go, of themselves or because a publication failed.
Leave ==
  /\ subscribers' \subseteq subscribers
  /\ publishing' \in {publishing, FALSE}
  /\ UNCHANGED <<total, marked, had>>

Restart ==
  /\ subscribers' = {} /\ total' >= total
  /\ publishing' = FALSE
  /\ UNCHANGED <<marked, had>>

Next ==
  \/ Commit \/ Begin \/ Leave \/ Restart
  \/ \E come \in SUBSET Listeners :
       \/ Subscribe(come)
       \/ \E l \in Listeners, e \in 1 .. total, gone \in SUBSET Listeners : Deliver(l, e, come, gone)
  \/ \E e \in 1 .. total : Mark(e)

Spec == Init /\ [][Next]_vars
===============================================================================
