------------------------------ MODULE StoreProofs ------------------------------
(***************************************************************************)
(* Proofs about who may write the database, and about what becomes of the  *)
(* events that are committed to it.                                        *)
(*                                                                         *)
(* WriterLock, for every set of processes and pids: there is one writer    *)
(* unless somebody unlinked a living writer's lock unread, and whoever is  *)
(* turned away met a living writer, a pid given again, or a crowd.         *)
(*                                                                         *)
(* Outbox, for any subscribers and bounds: what is published is a prefix,  *)
(* and reached somebody unless a callback left nobody to listen; nobody    *)
(* misses an event, everybody gets them in order; and the outbox           *)
(* implements Delivery.                                                    *)
(***************************************************************************)
EXTENDS WriterLock, Outbox, FiniteSetTheorems, SequenceTheorems, TLAPS

-----------------------------------------------------------------------------
(* The writer lock.                                                        *)

\* What every order of system calls keeps: a file is written by its living or dead
\* creator, a lock that was read and found dead stays so, a process that acquires alone
\* meets one lock, living processes have different pids, and until a living writer's
\* lock is unlinked unread the lock on disk names whoever holds (storage.ts:373-417).
THEOREM LockInvariant == LockSpec => []LockInv
<1>1. LockInit => LockInv
  <2> SUFFICES ASSUME LockInit PROVE LockInv
    OBVIOUS
  <2> USE LockAssumption DEF LockInit, Acquiring, Releasing, Alive
  <2>0. raced \in BOOLEAN
    OBVIOUS
  <2>1. LockTypes
    BY <2>0 DEF LockTypes
  <2>2. OwnFile /\ MetFile /\ AloneMeetsOne
    BY DEF OwnFile, MetFile, AloneMeetsOne
  <2>3. PidInv /\ HolderHasLock
    BY DEF PidInv, HolderHasLock
  <2>4. QED BY <2>1, <2>2, <2>3 DEF LockInv
<1>2. LockInv /\ [LockNext]_lockVars => LockInv'
  <2> SUFFICES ASSUME LockInv, [LockNext]_lockVars PROVE LockInv'
    OBVIOUS
  <2> USE LockAssumption
      DEF LockInv, LockTypes, HolderHasLock, OwnFile, MetFile, AloneMeetsOne, PidInv, Goto,
          Acquiring, Releasing, Alive
  <2>1. ASSUME NEW p \in Processes, Start(p) PROVE LockInv'
    BY <2>1 DEF Start
  <2>2. ASSUME NEW p \in Processes, Create(p) PROVE LockInv'
    BY <2>2 DEF Create
  <2>3. ASSUME NEW p \in Processes, Write(p) PROVE LockInv'
    BY <2>3 DEF Write
  <2>4. ASSUME NEW p \in Processes, WriteFails(p) PROVE LockInv'
    BY <2>4 DEF WriteFails
  <2>5. ASSUME NEW p \in Processes, Read(p) PROVE LockInv'
    BY <2>5 DEF Read, Taken, Readable, PidAnswers
  <2>6. ASSUME NEW p \in Processes, Unlink(p) PROVE LockInv'
    <3> USE <2>6 DEF Unlink, Races
    <3>1. LockTypes' /\ OwnFile' /\ PidInv'
      OBVIOUS
    <3>2. MetFile'
      OBVIOUS
    <3>3. AloneMeetsOne'
      OBVIOUS
    <3>4. ASSUME ~raced', NEW q \in Processes, pc'[q] \in {"writing", "holding"} \cup Releasing
          PROVE  file' = q
      <4>1. ~raced /\ ~Races(p)
        BY <3>4
      <4>2. q # p /\ pc[q] = pc'[q] /\ file = q
        BY <3>4, <4>1
      <4>3. met[p] = q
        BY <3>4, <4>1, <4>2
      <4>4. QED BY <3>4, <4>2, <4>3
    <3>5. QED BY <3>1, <3>2, <3>3, <3>4
  <2>7. ASSUME NEW p \in Processes, Close(p) \/ CheckOwner(p) \/ Remove(p) PROVE LockInv'
    BY <2>7 DEF Close, CheckOwner, OwnLock, Readable, Remove
  <2>8. ASSUME NEW p \in Processes, Die(p) PROVE LockInv'
    BY <2>8 DEF Die
  <2>9. CASE UNCHANGED lockVars
    BY <2>9 DEF lockVars
  <2>10. QED
    BY <2>1, <2>2, <2>3, <2>4, <2>5, <2>6, <2>7, <2>8, <2>9 DEF LockNext
<1>3. QED BY <1>1, <1>2, PTL DEF LockSpec

\* Two writers need a race: without one each would be whom the lock on disk names,
\* whatever starts overlap and whichever pids come back (storage.ts:373-393).
THEOREM OneWriter == LockSpec => []OneWriterUnlessRaced
<1>1. LockInv => OneWriterUnlessRaced
  BY DEF LockInv, HolderHasLock, OneWriterUnlessRaced, MutualExclusion
<1>2. QED BY <1>1, LockInvariant, PTL

\* An orderly close leaves no lock behind, races or not (storage.ts:395-404).
THEOREM CleanClose == LockSpec => []ClosedLeavesNoLock
<1>1. LockInv => ClosedLeavesNoLock
  BY DEF LockInv, OwnFile, ClosedLeavesNoLock
<1>2. QED BY <1>1, LockInvariant, PTL

\* Whoever is turned away met the lock of a living writer, or a dead one's whose pid
\* somebody has now, or two locks while others acquired too (storage.ts:373-393).
THEOREM RefusalIsJustified == LockSpec => RefusedForCause
<1> DEFINE Cause(p) ==
      pc'[p] = "refused" =>
        /\ pc[p] = "reading" => LiveWriter \/ (file # NoFile /\ PidReused(file))
        /\ pc[p] = "unlinking" => p \in crowded
<1>1. LockInv /\ [LockNext]_lockVars => UNCHANGED lockVars \/ \A p \in Processes : Cause(p)
  <2> SUFFICES ASSUME LockInv, LockNext, NEW p \in Processes,
                      pc[p] \in {"reading", "unlinking"}, pc'[p] = "refused"
               PROVE  Cause(p)
    BY DEF lockVars
  <2>1. CASE Read(p)
    <3>1. Readable /\ PidAnswers(file) /\ pc[p] = "reading"
      BY <2>1 DEF Read, Goto, Taken, LockInv, LockTypes
    <3>2. PICK x \in Processes : pc[x] \in Alive /\ pid[x] = pid[file]
      BY <3>1 DEF PidAnswers
    <3>3. file \in Processes /\ file # NoFile /\ file \in written
      BY <3>1, LockAssumption DEF Readable, LockInv, LockTypes
    <3>4. CASE pc[file] = "dead"
      BY <3>1, <3>2, <3>3, <3>4 DEF PidReused, Alive, Acquiring, Releasing
    <3>5. CASE pc[file] # "dead"
      BY <3>1, <3>3, <3>5
      DEF LiveWriter, LockInv, LockTypes, OwnFile, Alive, Acquiring, Releasing
    <3>6. QED BY <3>4, <3>5
  <2>2. CASE Unlink(p)
    BY <2>2 DEF Unlink, Goto, LockInv, LockTypes, AloneMeetsOne
  <2>3. Read(p) \/ Unlink(p)
    BY DEF LockNext, LockInv, LockTypes, Goto, Start, Create, Write, WriteFails, Read, Unlink,
           Close, CheckOwner, Remove, Die
  <2>4. QED BY <2>1, <2>2, <2>3
<1>2. QED
  BY <1>1, LockInvariant, PTL DEF LockSpec, RefusedForCause

-----------------------------------------------------------------------------
(* The outbox.                                                             *)

\* p is 1 .. k for some k.
Prefix(p) == \A e \in p : \A d \in 1 .. e : d \in p

\* q lists some of the rows 1 .. n one after the other, and all before them are in p.
Listing(q, n, p) ==
  /\ q \in Seq(1 .. n)
  /\ \A i \in 1 .. Len(q) - 1 : q[i + 1] = q[i] + 1
  /\ q # <<>> => \A d \in 1 .. Head(q) - 1 : d \in p

\* The rows that are being published, here and in the publication around this one.
RowsInv ==
  /\ TypeOK /\ Prefix(published)
  /\ Listing(queue, count, published)
  /\ queue = <<>> => left = {}
  /\ outer # <<>> =>
       queue # <<>> /\ Head(outer).queue # <<>> /\ Listing(Head(outer).queue, count, published)

-----------------------------------------------------------------------------
\* What #publishPending reads.

\* A prefix of the rows is an interval.
LEMMA PrefixIsInterval ==
  ASSUME NEW n \in Nat, NEW p \in SUBSET (1 .. n), Prefix(p)
  PROVE  Cardinality(p) \in 0 .. n /\ p = 1 .. Cardinality(p)
<1> DEFINE c == Cardinality(p)
<1>1. IsFiniteSet(p) /\ c <= n
  <2>1. IsFiniteSet(1 .. n) /\ Cardinality(1 .. n) = n
    BY FS_Interval
  <2>2. QED BY <2>1, FS_Subset
<1>2. c \in Nat
  BY <1>1, FS_CardinalityType
<1>3. ASSUME NEW e \in p PROVE e <= c
  <2>1. 1 .. e \in SUBSET p /\ e \in Nat
    BY DEF Prefix
  <2>2. Cardinality(1 .. e) <= c
    BY <1>1, <2>1, FS_Subset
  <2>3. Cardinality(1 .. e) = IF 1 > e THEN 0 ELSE e - 1 + 1
    BY <2>1, FS_Interval
  <2>4. QED BY <1>2, <2>1, <2>2, <2>3
<1>4. p \in SUBSET (1 .. c)
  BY <1>2, <1>3
<1>5. IsFiniteSet(1 .. c) /\ Cardinality(1 .. c) = c
  BY <1>2, FS_Interval
<1>6. p = 1 .. c
  BY <1>4, <1>5, FS_Subset
<1>7. QED BY <1>1, <1>2, <1>6

\* A listing of an interval in order has no gap.
LEMMA AscendingLists ==
  ASSUME NEW c \in Nat, NEW m \in Nat, NEW q \in [1 .. m -> c + 1 .. c + m],
         \A e \in c + 1 .. c + m : \E i \in 1 .. m : q[i] = e,
         \A i, j \in 1 .. m : i < j => q[i] < q[j]
  PROVE  /\ q \in Seq(1 .. c + m)
         /\ \A i \in 1 .. Len(q) - 1 : q[i + 1] = q[i] + 1
         /\ q # <<>> => Head(q) = c + 1
<1>0. \A i \in 1 .. m : q[i] \in c + 1 .. c + m /\ q[i] \in Nat
  OBVIOUS
<1>1. q \in Seq(1 .. c + m) /\ Len(q) = m
  <2>1. q \in [1 .. m -> 1 .. c + m]
    BY <1>0
  <2>2. QED BY <2>1
<1>2. ASSUME NEW i \in 1 .. m - 1 PROVE q[i + 1] = q[i] + 1
  <2>1. i \in 1 .. m /\ i + 1 \in 1 .. m
    OBVIOUS
  <2>2. q[i] < q[i + 1]
    BY <2>1
  <2>3. q[i] + 1 \in c + 1 .. c + m
    BY <1>0, <2>1, <2>2
  <2>4. PICK j \in 1 .. m : q[j] = q[i] + 1
    BY <2>3
  <2>5. q[j] \in Nat /\ q[i] \in Nat /\ q[i + 1] \in Nat /\ i \in Int /\ j \in Int
    BY <1>0, <2>1
  <2>6. (j < i => q[j] < q[i]) /\ (i + 1 < j => q[i + 1] < q[j])
    BY <2>1
  <2>7. ~(j < i) /\ j # i /\ ~(i + 1 < j)
    <3> DEFINE x == q[i] y == q[i + 1] z == q[j]
    <3>1. /\ x \in Nat /\ y \in Nat /\ z \in Nat /\ x < y /\ z = x + 1
          /\ (j < i => z < x) /\ (j = i => z = x) /\ (i + 1 < j => y < z)
      BY <2>2, <2>4, <2>5, <2>6
    <3> HIDE DEF x, y, z
    <3>2. QED BY <3>1
  <2>8. j = i + 1
    BY <2>5, <2>7
  <2>9. QED BY <2>4, <2>8
<1>3. ASSUME q # <<>> PROVE Head(q) = c + 1
  <2>1. m # 0 /\ Head(q) = q[1]
    BY <1>1, <1>3
  <2>2. PICK j \in 1 .. m : q[j] = c + 1
    BY <2>1
  <2>3. ~(1 < j)
    BY <1>0, <2>1, <2>2
  <2>4. QED BY <2>1, <2>2, <2>3
<1>4. QED BY <1>1, <1>2, <1>3

\* pendingEvents lists the unpublished rows, one after the other.
LEMMA PendingLists ==
  ASSUME NEW n \in Nat, NEW p \in SUBSET (1 .. n), Prefix(p)
  PROVE  /\ Listing(Pending(p, n), n, p)
         /\ Pending(p, n) # <<>> => Head(Pending(p, n)) \notin p
<1> DEFINE S == (1 .. n) \ p
           Lists(q) == /\ \A e \in S : \E i \in DOMAIN q : q[i] = e
                       /\ \A i, j \in DOMAIN q : i < j => q[i] < q[j]
<1>1. PICK c \in 0 .. n : p = 1 .. c
  BY PrefixIsInterval
<1>2. PICK m \in Nat : n = c + m
  <2>1. n - c \in Nat /\ n = c + (n - c)
    OBVIOUS
  <2>2. QED BY <2>1
<1> c \in Nat
  BY <1>1
<1>3. S = c + 1 .. c + m
  BY <1>1, <1>2
<1>4. Cardinality(S) = m
  <2>1. Cardinality(c + 1 .. c + m) = IF c + 1 > c + m THEN 0 ELSE c + m - (c + 1) + 1
    BY FS_Interval
  <2>2. Cardinality(c + 1 .. c + m) = m
    BY <2>1
  <2> HIDE DEF S
  <2>3. QED BY <1>3, <2>2
<1>5. \E f \in [1 .. Cardinality(S) -> S] : Lists(f)
  <2> DEFINE f == [i \in 1 .. m |-> c + i]
  <2>1. f \in [1 .. m -> c + 1 .. c + m]
    OBVIOUS
  <2>2. ASSUME NEW e \in c + 1 .. c + m PROVE \E i \in 1 .. m : f[i] = e
    <3>1. PICK i \in 1 .. m : e = c + i
      <4>1. e - c \in 1 .. m /\ e = c + (e - c)
        OBVIOUS
      <4>2. QED BY <4>1
    <3>2. f[i] = c + i
      OBVIOUS
    <3>3. QED BY <3>1, <3>2
  <2>3. \A i, j \in 1 .. m : i < j => f[i] < f[j]
    OBVIOUS
  <2>4. DOMAIN f = 1 .. m
    OBVIOUS
  <2> HIDE DEF f
  <2>5. QED BY <1>3, <1>4, <2>1, <2>2, <2>3, <2>4
<1>6. Pending(p, n) \in [1 .. Cardinality(S) -> S] /\ Lists(Pending(p, n))
  BY <1>5, Zenon DEF Pending
<1> HIDE DEF S
<1>7. PICK q : q = Pending(p, n)
  OBVIOUS
<1>8. q \in [1 .. m -> c + 1 .. c + m] /\ DOMAIN q = 1 .. m
  BY <1>3, <1>4, <1>6, <1>7
<1>0. /\ \A e \in c + 1 .. c + m : \E i \in 1 .. m : q[i] = e
      /\ \A i, j \in 1 .. m : i < j => q[i] < q[j]
  BY <1>3, <1>6, <1>7, <1>8
<1>9. /\ q \in Seq(1 .. c + m)
      /\ \A i \in 1 .. Len(q) - 1 : q[i + 1] = q[i] + 1
      /\ q # <<>> => Head(q) = c + 1
  BY <1>0, <1>8, AscendingLists
<1>10. q # <<>> => Head(q) \notin p /\ \A d \in 1 .. Head(q) - 1 : d \in p
  BY <1>1, <1>9
<1>11. QED BY <1>2, <1>7, <1>9, <1>10 DEF Listing

-----------------------------------------------------------------------------
\* Rows and types.

\* Of rows that are listed, the first and the rest, once the first is published.
LEMMA ListingEnds ==
  ASSUME NEW n \in Nat, NEW p, NEW q, Listing(q, n, p), q # <<>>
  PROVE  /\ Head(q) \in 1 .. n /\ Tail(q) \in Seq(1 .. n)
         /\ Tail(q) # <<>> => Head(Tail(q)) = Head(q) + 1
         /\ Listing(Tail(q), n, p \cup {Head(q)})
<1>1. /\ q \in Seq(1 .. n) /\ Head(q) = q[1] /\ Len(q) \in Nat /\ Len(q) # 0
      /\ Head(q) \in 1 .. n /\ Tail(q) \in Seq(1 .. n) /\ Len(Tail(q)) = Len(q) - 1
      /\ \A i \in 1 .. Len(Tail(q)) : Tail(q)[i] = q[i + 1]
  BY HeadTailProperties DEF Listing
<1>2. ASSUME Tail(q) # <<>> PROVE Head(Tail(q)) = Head(q) + 1
  <2>1. Head(Tail(q)) = Tail(q)[1] /\ 1 \in 1 .. Len(Tail(q))
    BY <1>1, <1>2
  <2>2. Tail(q)[1] = q[2] /\ q[2] = q[1] + 1
    BY <1>1, <2>1 DEF Listing
  <2>3. QED BY <1>1, <2>1, <2>2
<1>3. ASSUME NEW i \in 1 .. Len(Tail(q)) - 1 PROVE Tail(q)[i + 1] = Tail(q)[i] + 1
  <2>1. Tail(q)[i] = q[i + 1] /\ Tail(q)[i + 1] = q[i + 2] /\ i + 1 \in 1 .. Len(q) - 1
    BY <1>1
  <2>2. QED BY <2>1 DEF Listing
<1>4. ASSUME Tail(q) # <<>>, NEW d \in 1 .. Head(Tail(q)) - 1 PROVE d \in p \cup {Head(q)}
  <2>1. d \in 1 .. Head(q) - 1 \/ d = Head(q)
    BY <1>1, <1>2, <1>4
  <2>2. QED BY <2>1 DEF Listing
<1>5. QED BY <1>1, <1>2, <1>3, <1>4 DEF Listing

\* Rows stay listed when more are committed or published.
LEMMA ListingKept ==
  ASSUME NEW n \in Nat, NEW m \in Nat, n <= m, NEW p, NEW r, p \subseteq r,
         NEW q, Listing(q, n, p)
  PROVE  Listing(q, m, r)
BY SeqMonotonic DEF Listing

LEMMA NothingListed == \A n, p : Listing(<<>>, n, p)
BY DEF Listing

-----------------------------------------------------------------------------
\* Every row that is queued is in the outbox, and all before it are published, also in the
\* publication a nested one goes back to; what is published is a prefix (#publishPending,
\* pendingEvents, markPublished).

\* The publication that waits, if one does.
LEMMA Outer ==
  ASSUME RowsInv, outer # <<>>
  PROVE  /\ Head(outer) \in Waiting /\ Len(outer) = 1
         /\ Head(outer).queue # <<>> /\ Listing(Head(outer).queue, count, published)
<1>1. outer \in Seq(Waiting)
  BY DEF RowsInv, TypeOK, PublicationTypes
<1>2. Head(outer) \in Waiting
  BY <1>1, HeadTailProperties
<1>3. Len(outer) \in Nat \ {0}
  BY <1>1, EmptySeq
<1>4. Len(outer) = 1
  <2> DEFINE n == Len(outer)
  <2>1. n \in Nat \ {0} /\ n <= 1
    BY <1>3 DEF RowsInv, TypeOK, PublicationTypes
  <2> HIDE DEF n
  <2>2. n = 1
    BY <2>1
  <2>3. QED BY <2>2 DEF n
<1>5. Head(outer).queue # <<>> /\ Listing(Head(outer).queue, count, published)
  BY Zenon DEF RowsInv
<1>6. QED BY <1>2, <1>4, <1>5, Zenon

\* The row that is being sent.
LEMMA FirstRow ==
  ASSUME RowsInv, ~Idle
  PROVE  queue # <<>> /\ Head(queue) \in 1 .. count /\ Head(queue) \in 1 .. MaxEvents
<1>1. queue # <<>> /\ Listing(queue, count, published) /\ count \in 0 .. MaxEvents /\ count \in Nat
  BY DEF RowsInv, Idle, TypeOK, OutboxTypes
<1>2. Head(queue) \in 1 .. count
  BY <1>1, ListingEnds
<1>3. ASSUME NEW h \in 1 .. count PROVE h \in 1 .. MaxEvents
  <2>1. MaxEvents \in Nat /\ count <= MaxEvents
    BY <1>1, OutboxAssumption
  <2>2. QED BY <1>1, <2>1
<1>4. QED BY <1>1, <1>2, <1>3

\* The publication ends, or goes back to the one around it.
LEMMA StopKeepsRows ==
  ASSUME RowsInv, NEW ls \in SUBSET Listeners, Stop(ls), UNCHANGED <<count, published>>
  PROVE  /\ outer' = <<>> /\ Listing(queue', count', published')
         /\ queue' \in Seq(1 .. MaxEvents)
         /\ listeners' \subseteq listeners /\ left' \subseteq listeners' /\ strict' \subseteq Listeners
         /\ queue' = <<>> => left' = {}
<1>1. CASE outer = <<>>
  BY <1>1, NothingListed DEF Stop
<1>2. CASE outer # <<>>
  <2>1. PICK o : /\ o = Head(outer) /\ o \in Waiting
                 /\ o.queue # <<>> /\ Listing(o.queue, count, published)
    BY <1>2, Outer
  <2>2. outer' = <<>> /\ count' = count /\ published' = published
    BY <1>2 DEF Stop
  <2>3. CASE /\ listeners' = listeners \ ls
             /\ queue' = o.queue /\ left' = o.left \cap listeners' /\ strict' = o.strict
    <3>1. o.queue \in Seq(1 .. MaxEvents) /\ o.strict \subseteq Listeners
      BY <2>1 DEF Waiting
    <3>2. QED BY <2>1, <2>2, <2>3, <3>1
  <2>4. CASE /\ listeners' = listeners \ (ls \cup {o.caller} \cup o.strict)
             /\ queue' = <<>> /\ left' = {} /\ strict' = {}
    BY <2>2, <2>4, NothingListed
  <2>5. QED BY <1>2, <2>1, <2>3, <2>4 DEF Stop
<1>3. QED BY <1>1, <1>2

\* A step that leaves count and published alone keeps the rows if it keeps the queues.
LEMMA RowsKept ==
  ASSUME RowsInv, UNCHANGED <<count, published, queue, outer>>, TypeOK',
         queue = <<>> => left' = {}
  PROVE  RowsInv'
BY DEF RowsInv

\* The rows that are being published are those not yet marked, in order, and what is marked
\* is a prefix of the rows, types included (pendingEvents, markPublished).
THEOREM RowsAreListed == Spec => []RowsInv
<1>0. Init => deserted \in BOOLEAN
  BY DEF Init
<1>1. Init => RowsInv
  BY <1>0, NothingListed, OutboxAssumption DEF Init, RowsInv, TypeOK, OutboxTypes, PublicationTypes, Prefix
<1>2. RowsInv /\ [Next]_vars => RowsInv'
  <2> SUFFICES ASSUME RowsInv, [Next]_vars PROVE RowsInv'
    OBVIOUS
  <2> USE OutboxAssumption DEF publication, TypeOK
  <2>0. /\ count \in 0 .. MaxEvents /\ count \in Nat /\ published \in SUBSET (1 .. count) /\ Prefix(published)
        /\ Listing(queue, count, published)
        /\ OutboxTypes /\ PublicationTypes /\ (queue = <<>> => left = {})
    BY DEF RowsInv, OutboxTypes
  <2>1. ASSUME NEW n \in 0 .. MaxBatch, Commit(n) PROVE RowsInv'
    <3>1. OutboxTypes'
      BY <2>0, <2>1 DEF Commit, OutboxTypes
    <3>2. PublicationTypes'
      BY <2>0, <2>1 DEF Commit, PublicationTypes
    <3>3. queue' = <<>> /\ outer' = <<>> /\ left' = {} /\ published' = published
      BY <2>0, <2>1 DEF Commit, Idle
    <3>4. QED BY <2>0, <3>1, <3>2, <3>3, NothingListed DEF RowsInv
  <2>2. ASSUME NEW n \in 0 .. MaxBatch, Restart(n) PROVE RowsInv'
    <3>1. OutboxTypes'
      BY <2>0, <2>2 DEF Restart, OutboxTypes
    <3>2. PublicationTypes'
      BY <2>0, <2>2 DEF Restart, PublicationTypes
    <3>3. queue' = <<>> /\ outer' = <<>> /\ left' = {} /\ published' = published
      BY <2>2 DEF Restart
    <3>4. QED BY <2>0, <3>1, <3>2, <3>3, NothingListed DEF RowsInv
  <2>3. /\ Pending(published, count) \in Seq(1 .. MaxEvents)
        /\ Listing(Pending(published, count), count, published)
    <3>1. Listing(Pending(published, count), count, published)
      BY <2>0, PendingLists
    <3>2. Pending(published, count) \in Seq(1 .. count)
      BY <3>1 DEF Listing
    <3>3. 1 .. count \subseteq 1 .. MaxEvents
      BY <2>0
    <3>4. QED BY <3>1, <3>2, <3>3, SeqMonotonic
  <2>4. CASE Publish
    <3>1. OutboxTypes'
      BY <2>0, <2>4 DEF Publish, OutboxTypes
    <3>2. CASE UNCHANGED <<queue, left>>
      <4>1. PublicationTypes'
        BY <2>0, <2>4, <3>2 DEF Publish, PublicationTypes
      <4>2. QED BY <2>0, <2>4, <3>1, <3>2, <4>1, RowsKept DEF Publish
    <3>3. CASE StartPublication(listeners)
      <4>1. /\ queue' = Pending(published, count) /\ left' \subseteq listeners
            /\ queue' = <<>> => left' = {}
        BY <3>3 DEF StartPublication
      <4>2. PublicationTypes'
        BY <2>0, <2>3, <2>4, <4>1 DEF Publish, PublicationTypes
      <4>3. QED BY <2>0, <2>3, <2>4, <3>1, <4>1, <4>2 DEF Publish, Idle, RowsInv
    <3>4. QED BY <2>4, <3>2, <3>3 DEF Publish
  <2>5. ASSUME NEW l \in Listeners, Subscribe(l) PROVE RowsInv'
    <3>1. /\ queue' = Pending(published, count) /\ left' \subseteq listeners'
          /\ queue' = <<>> => left' = {}
      BY <2>5 DEF Subscribe, StartPublication
    <3>2. OutboxTypes'
      <4>1. published \subseteq 1 .. MaxEvents
        BY <2>0
      <4>2. stream' \in [Listeners -> Seq(1 .. MaxEvents)]
        BY <2>0, <2>5 DEF Subscribe, OutboxTypes
      <4>3. QED BY <2>0, <2>5, <4>1, <4>2 DEF Subscribe, OutboxTypes
    <3>3. PublicationTypes'
      BY <2>0, <2>3, <2>5, <3>1 DEF Subscribe, PublicationTypes
    <3>4. QED BY <2>0, <2>3, <2>5, <3>1, <3>2, <3>3 DEF Subscribe, Idle, RowsInv
  <2>6. ASSUME NEW l \in Listeners, Unsubscribe(l) PROVE RowsInv'
    <3>1. OutboxTypes'
      BY <2>0, <2>6 DEF Unsubscribe, OutboxTypes
    <3>2. PublicationTypes'
      <4>1. left = {}
        BY <2>0, <2>6 DEF Unsubscribe, Idle
      <4>2. QED BY <2>0, <2>6, <4>1 DEF Unsubscribe, PublicationTypes
    <3>3. QED BY <2>0, <2>6, <3>1, <3>2, RowsKept DEF Unsubscribe
  <2>7. ~Idle => queue # <<>> /\ Head(queue) \in 1 .. count
    BY FirstRow
  <2>8. ASSUME NEW l \in Listeners, Receive(l)
        PROVE  /\ count' = count /\ published' = published
               /\ listeners' \subseteq listeners /\ faults' \in 0 .. MaxFaults /\ deserted' \in BOOLEAN => OutboxTypes'
    <3>1. Head(queue) \in 1 .. count /\ Head(queue) \in 1 .. MaxEvents
      BY <2>0, <2>7, <2>8 DEF Receive
    <3>2. stream' \in [Listeners -> Seq(1 .. MaxEvents)]
      BY <2>0, <2>8, <3>1, AppendProperties DEF Receive, OutboxTypes
    <3>3. QED BY <2>0, <2>8, <3>1, <3>2 DEF Receive, OutboxTypes
  <2>9. ASSUME NEW l \in Listeners, Accept(l) PROVE RowsInv'
    <3>1. OutboxTypes'
      BY <2>0, <2>8, <2>9 DEF Accept, OutboxTypes
    <3>2. PublicationTypes'
      BY <2>0, <2>9 DEF Accept, PublicationTypes
    <3>3. QED BY <2>0, <2>8, <2>9, <3>1, <3>2, RowsKept DEF Accept
  <2>10. ASSUME NEW l \in Listeners, Leave(l) PROVE RowsInv'
    <3>1. OutboxTypes'
      BY <2>0, <2>8, <2>10 DEF Leave, OutboxTypes
    <3>2. PublicationTypes'
      BY <2>0, <2>10 DEF Leave, PublicationTypes
    <3>3. QED BY <2>0, <2>8, <2>10, <3>1, <3>2, RowsKept DEF Leave
  <2>11. ASSUME NEW ls \in SUBSET Listeners, Stop(ls), UNCHANGED <<count, published, nested>>,
                listeners' \subseteq listeners /\ deserted' \in BOOLEAN => OutboxTypes'
         PROVE  RowsInv'
    <3>1. /\ outer' = <<>> /\ Listing(queue', count', published')
          /\ queue' \in Seq(1 .. MaxEvents)
          /\ listeners' \subseteq listeners /\ left' \subseteq listeners' /\ strict' \subseteq Listeners
          /\ queue' = <<>> => left' = {}
      BY <2>11, StopKeepsRows
    <3>2. PublicationTypes'
      BY <2>0, <2>11, <3>1 DEF PublicationTypes
    <3>3. deserted' \in BOOLEAN
      BY <2>0, <2>11 DEF Stop, OutboxTypes
    <3>4. QED BY <2>0, <2>11, <3>1, <3>2, <3>3 DEF RowsInv
  <2>12. ASSUME NEW l \in Listeners, Reject(l) PROVE RowsInv'
    <3>1. PICK ls \in SUBSET Listeners : Stop(ls)
      BY <2>0, <2>12 DEF Reject, AfterThrow, PublicationTypes
    <3>2. Receive(l) /\ nested' = nested /\ faults' \in 0 .. MaxFaults
      BY <2>0, <2>12 DEF Reject, OutboxTypes
    <3>3. QED BY <2>8, <2>11, <3>1, <3>2
  <2>13. CASE MarkFails
    <3>1. Stop(strict) /\ strict \in SUBSET Listeners /\ UNCHANGED <<count, published, nested>>
      BY <2>0, <2>13 DEF MarkFails, PublicationTypes
    <3>2. listeners' \subseteq listeners /\ deserted' \in BOOLEAN => OutboxTypes'
      BY <2>0, <2>13 DEF MarkFails, OutboxTypes
    <3>3. QED BY <2>11, <3>1, <3>2
  <2>14. CASE Mark
    <3>1. queue # <<>> /\ Head(queue) \in 1 .. count /\ count' = count
          /\ published' = published \cup {Head(queue)}
      BY <2>7, <2>14 DEF Mark
    <3>2. OutboxTypes'
      BY <2>0, <2>14, <3>1 DEF Mark, OutboxTypes
    <3>3. Prefix(published')
      BY <2>0, <3>1 DEF Prefix, Listing
    <3>4. CASE /\ queue' = Tail(queue)
               /\ left' = IF queue' = <<>> THEN {} ELSE listeners
               /\ UNCHANGED <<strict, outer>>
               /\ Len(queue) > 1 \/ outer = <<>>
      <4>0. count \in Nat /\ queue \in Seq(1 .. count)
        BY <2>0 DEF Listing
      <4>1. Listing(queue', count', published') /\ Len(queue') = Len(queue) - 1 /\ Len(queue) \in Nat
        <5>1. Listing(Tail(queue), count, published \cup {Head(queue)})
          BY <2>0, <3>1, <4>0, ListingEnds
        <5>2. QED BY <3>1, <3>4, <4>0, <5>1
      <4>2. queue' \in Seq(1 .. MaxEvents)
        BY <2>0, <3>1, <3>4 DEF PublicationTypes
      <4>3. PublicationTypes'
        BY <2>0, <2>14, <3>4, <4>2 DEF PublicationTypes, Mark
      <4>4. ASSUME outer # <<>>
            PROVE  queue' # <<>> /\ Listing(Head(outer).queue, count', published')
        <5>1. queue' # <<>>
          <6>1. Len(queue') > 0
            BY <3>4, <4>1, <4>4
          <6>2. QED BY <6>1
        <5>2. Listing(Head(outer).queue, count, published)
          BY <4>4, Outer
        <5>3. published \subseteq published' /\ count <= count
          BY <3>1, <4>0
        <5>4. Listing(Head(outer).queue, count, published')
          BY <4>0, <5>2, <5>3, ListingKept
        <5>5. QED BY <3>1, <5>1, <5>4
      <4>5. QED BY <3>2, <3>3, <3>4, <4>1, <4>3, <4>4, Outer DEF RowsInv
    <3>5. CASE /\ queue' = Head(outer).queue
               /\ left' = Head(outer).left \cap listeners
               /\ strict' = Head(outer).strict
               /\ outer' = <<>> /\ outer # <<>>
      <4>1. /\ Head(outer) \in Waiting /\ Head(outer).queue # <<>>
            /\ Listing(Head(outer).queue, count, published)
        BY <3>5, Outer
      <4>2. Listing(queue', count', published')
        <5>1. published \subseteq published' /\ count <= count
          BY <2>0, <3>1
        <5>2. Listing(Head(outer).queue, count, published')
          BY <2>0, <4>1, <5>1, ListingKept
        <5>3. QED BY <3>1, <3>5, <5>2
      <4>3. queue' \in Seq(1 .. MaxEvents) /\ strict' \subseteq Listeners
        BY <3>5, <4>1 DEF Waiting
      <4>4. PublicationTypes'
        BY <2>0, <2>14, <3>5, <4>3 DEF PublicationTypes, Mark
      <4>5. QED BY <3>2, <3>3, <3>5, <4>2, <4>4 DEF RowsInv
    <3>6. QED BY <2>14, <3>4, <3>5 DEF Mark
  <2>15. ASSUME NEW l \in Listeners, NEW new \in Listeners, SubscribeWithin(l, new) PROVE RowsInv'
    <3>1. queue # <<>> /\ Head(queue) \in 1 .. count /\ Head(queue) \in 1 .. MaxEvents
      BY <2>0, <2>7, <2>15 DEF SubscribeWithin
    <3>2. stream' \in [Listeners -> Seq(1 .. MaxEvents)]
      <4>1. Append(stream[l], Head(queue)) \in Seq(1 .. MaxEvents) /\ <<>> \in Seq(1 .. MaxEvents)
        BY <2>0, <3>1, AppendProperties DEF OutboxTypes
      <4>2. stream' = [stream EXCEPT ![l] = Append(stream[l], Head(queue)), ![new] = <<>>]
        BY <2>15 DEF SubscribeWithin
      <4>3. QED BY <2>0, <4>1, <4>2 DEF OutboxTypes
    <3>3. since' \in [Listeners -> SUBSET (1 .. MaxEvents)]
      <4>1. published \subseteq 1 .. MaxEvents
        BY <2>0
      <4>2. QED BY <2>0, <2>15, <4>1 DEF SubscribeWithin, OutboxTypes
    <3>4. OutboxTypes'
      BY <2>0, <2>15, <3>1, <3>2, <3>3 DEF SubscribeWithin, OutboxTypes
    <3>5. /\ count' = count /\ published' = published /\ listeners' = listeners \cup {new}
          /\ nested' \in 0 .. MaxNested
      BY <2>0, <2>15 DEF SubscribeWithin, PublicationTypes
    <3>6. CASE Pending(published, count) = <<>>
      <4>1. left' = (left \ {l}) \cup {new} /\ UNCHANGED <<queue, strict, outer>>
        BY <2>15, <3>6 DEF SubscribeWithin
      <4>2. PublicationTypes'
        BY <2>0, <3>5, <4>1 DEF PublicationTypes
      <4>3. QED BY <3>1, <3>4, <3>5, <4>1, <4>2, RowsKept
    <3>7. CASE Pending(published, count) # <<>>
      <4>1. PICK o : /\ o = [queue |-> queue, left |-> (left \ {l}) \cup {new},
                             strict |-> strict, caller |-> l]
                     /\ outer' = <<o>>
        BY <2>15, <3>7 DEF SubscribeWithin
      <4>2. /\ queue' = Pending(published, count) /\ left' \subseteq listeners' /\ strict' = {new}
            /\ queue' = <<>> => left' = {}
        BY <2>15, <3>7 DEF SubscribeWithin, StartPublication
      <4>3. o \in Waiting /\ o.queue = queue
        BY <2>0, <4>1 DEF Waiting, PublicationTypes, OutboxTypes
      <4>4. outer' \in Seq(Waiting) /\ Len(outer') = 1 /\ Head(outer') = o
        BY <4>1, <4>3
      <4>5. PublicationTypes'
        BY <2>0, <2>3, <3>5, <4>2, <4>4 DEF PublicationTypes
      <4>6. QED BY <2>0, <2>3, <3>1, <3>4, <3>5, <3>7, <4>2, <4>3, <4>4, <4>5 DEF RowsInv
    <3>8. QED BY <3>6, <3>7
  <2>16. CASE UNCHANGED vars
    BY <2>0, <2>16 DEF vars, RowsInv, OutboxTypes, PublicationTypes
  <2>20. QED
    BY <2>1, <2>2, <2>4, <2>5, <2>6, <2>9, <2>10, <2>12, <2>13, <2>14, <2>15, <2>16 DEF Next
<1>3. QED BY <1>1, <1>2, PTL DEF Spec

-----------------------------------------------------------------------------
\* Nobody misses an event.

HasRow(s, e) == \E i \in DOMAIN s : s[i] = e

\* The subscribers ls that are not to be called any more with the first row of q need
\* not be: they have it, or it was published before they came.
Called(q, lf, ls, sn, st) ==
  \A l \in ls \ lf : Head(q) \in sn[l] \/ HasRow(st[l], Head(q))

ServedInv ==
  /\ NobodyMisses
  /\ queue # <<>> => Called(queue, left, listeners, since, stream)
  /\ outer # <<>> => Called(Head(outer).queue, Head(outer).left, listeners, since, stream)

\* An append adds one row.
LEMMA AppendRow ==
  ASSUME NEW S, NEW s \in Seq(S), NEW x \in S, NEW e
  PROVE  HasRow(Append(s, x), e) <=> HasRow(s, e) \/ e = x
<1>1. /\ Len(s) \in Nat /\ DOMAIN s = 1 .. Len(s)
      /\ DOMAIN Append(s, x) = 1 .. Len(s) + 1
      /\ \A i \in 1 .. Len(s) : Append(s, x)[i] = s[i]
      /\ Append(s, x)[Len(s) + 1] = x
  OBVIOUS
<1>2. HasRow(s, e) => HasRow(Append(s, x), e)
  BY <1>1 DEF HasRow
<1>3. HasRow(Append(s, x), x)
  BY <1>1 DEF HasRow
<1>4. ASSUME NEW i \in 1 .. Len(s) + 1, Append(s, x)[i] = e PROVE HasRow(s, e) \/ e = x
  <2>1. i \in 1 .. Len(s) \/ i = Len(s) + 1
    BY <1>1
  <2>2. QED BY <1>1, <1>4, <2>1 DEF HasRow
<1>5. QED BY <1>1, <1>2, <1>3, <1>4 DEF HasRow

\* m goes on subscribing.
Stays(m) ==
  /\ m \in listeners /\ since'[m] = since[m]
  /\ \A e : HasRow(stream[m], e) => HasRow(stream'[m], e)

\* What a step has to do so that nobody misses an event.
LEMMA MissesKept ==
  ASSUME NobodyMisses, \A m \in listeners' : Stays(m) \/ published' \subseteq since'[m],
         \A e \in published' \ published :
           \A m \in listeners : e \in since[m] \/ HasRow(stream[m], e)
  PROVE  NobodyMisses'
BY DEF NobodyMisses, Stays, HasRow

\* Those who were called remain so, and those who need not be called now have the row.
LEMMA CalledKept ==
  ASSUME NEW q, NEW lf, NEW lf2, Called(q, lf, listeners, since, stream),
         \A m \in listeners' \ lf2 : Stays(m) /\ (m \in lf => HasRow(stream'[m], Head(q)))
  PROVE  Called(q, lf2, listeners', since', stream')
BY DEF Called, Stays

\* A publication that is not inside another starts with everybody, ends, or is none.
LEMMA ServedAnew ==
  ASSUME NobodyMisses', outer' = <<>>, queue' # <<>> => listeners' \subseteq left'
  PROVE  ServedInv'
BY DEF ServedInv, Called

\* It goes on with the same row.
LEMMA ServedOn ==
  ASSUME ServedInv, NobodyMisses', UNCHANGED <<queue, outer>>,
         \A m \in listeners' : m \in left' \/ Stays(m),
         \A m \in listeners' \ left' : m \in left => HasRow(stream'[m], Head(queue)),
         outer # <<>> => \A m \in listeners' : Stays(m)
  PROVE  ServedInv'
<1>1. queue # <<>> => Called(queue, left', listeners', since', stream')
  BY CalledKept DEF ServedInv
<1>2. outer # <<>> => Called(Head(outer).queue, Head(outer).left, listeners', since', stream')
  BY CalledKept DEF ServedInv
<1>3. QED BY <1>1, <1>2 DEF ServedInv

\* It goes back to the publication around it.
LEMMA ServedBack ==
  ASSUME ServedInv, NobodyMisses', outer # <<>>, outer' = <<>>,
         queue' = Head(outer).queue, left' = Head(outer).left \cap listeners',
         \A m \in listeners' : Stays(m)
  PROVE  ServedInv'
<1>1. Called(Head(outer).queue, left', listeners', since', stream')
  BY CalledKept DEF ServedInv
<1>2. QED BY <1>1 DEF ServedInv

\* Nobody misses an event that is marked while it is subscribed, whoever fails, leaves or
\* comes in the middle of a publication (#publishPending, markPublished).
THEOREM EverybodyServed == Spec => []ServedInv
<1>1. Init => ServedInv
  BY DEF Init, ServedInv, NobodyMisses
<1>2. RowsInv /\ ServedInv /\ [Next]_vars => ServedInv'
  <2> SUFFICES ASSUME RowsInv, ServedInv, [Next]_vars PROVE ServedInv'
    OBVIOUS
  <2> USE DEF publication
  <2>0. /\ count \in 0 .. MaxEvents /\ count \in Nat /\ published \subseteq 1 .. count
        /\ listeners \subseteq Listeners /\ left \subseteq listeners
        /\ stream \in [Listeners -> Seq(1 .. MaxEvents)]
        /\ since \in [Listeners -> SUBSET (1 .. MaxEvents)]
        /\ NobodyMisses
    BY DEF RowsInv, TypeOK, OutboxTypes, PublicationTypes, ServedInv
  <2>1. ASSUME UNCHANGED <<stream, since>> PROVE \A m \in listeners : Stays(m)
    BY <2>1 DEF Stays
  <2>2. ASSUME UNCHANGED <<published, stream, since>>, listeners' \subseteq listeners
        PROVE  NobodyMisses'
    BY <2>0, <2>1, <2>2, MissesKept
  <2>3. ASSUME NEW n \in 0 .. MaxBatch, Commit(n) \/ Restart(n) PROVE ServedInv'
    <3>1. UNCHANGED <<published, stream, since>> /\ listeners' \subseteq listeners
          /\ outer' = <<>> /\ queue' = <<>>
      BY <2>3 DEF Commit, Restart, Idle
    <3>2. NobodyMisses'
      BY <2>2, <3>1
    <3>3. QED BY <3>1, <3>2, ServedAnew
  <2>4. CASE Publish
    <3>1. /\ UNCHANGED <<published, stream, since, listeners>> /\ outer' = <<>>
          /\ queue' # <<>> => left' = listeners
      BY <2>4 DEF Publish, Idle, StartPublication
    <3>2. NobodyMisses'
      BY <2>2, <3>1
    <3>3. QED BY <3>1, <3>2, ServedAnew
  <2>5. ASSUME NEW l \in Listeners, Subscribe(l) PROVE ServedInv'
    <3>1. /\ published' = published /\ listeners' = listeners \cup {l} /\ outer' = <<>>
          /\ queue' # <<>> => left' = listeners'
      BY <2>5 DEF Subscribe, Idle, StartPublication
    <3>2. published' \subseteq since'[l]
      BY <2>0, <2>5 DEF Subscribe
    <3>3. \A m \in listeners \ {l} : Stays(m)
      BY <2>0, <2>5 DEF Subscribe, Stays
    <3>4. NobodyMisses'
      BY <2>0, <3>1, <3>2, <3>3, MissesKept
    <3>5. QED BY <3>1, <3>4, ServedAnew
  <2>6. ASSUME NEW l \in Listeners, Unsubscribe(l) PROVE ServedInv'
    <3>1. UNCHANGED <<published, stream, since>> /\ listeners' \subseteq listeners
          /\ outer' = <<>> /\ queue' = <<>>
      BY <2>6 DEF Unsubscribe, Idle
    <3>2. NobodyMisses'
      BY <2>2, <3>1
    <3>3. QED BY <3>1, <3>2, ServedAnew
  <2>7. ASSUME NEW l \in Listeners, Receive(l)
        PROVE  /\ \A m \in listeners : Stays(m)
               /\ HasRow(stream'[l], Head(queue))
               /\ listeners' \subseteq listeners => NobodyMisses'
    <3>1. queue # <<>> /\ Head(queue) \in 1 .. MaxEvents
      BY <2>7, FirstRow DEF Receive
    <3>2. since' = since /\ published' = published
          /\ stream' = [stream EXCEPT ![l] = Append(stream[l], Head(queue))]
      BY <2>7 DEF Receive
    <3>3. \A m \in Listeners \ {l} : stream'[m] = stream[m]
      BY <2>0, <3>2
    <3>4. stream'[l] = Append(stream[l], Head(queue)) /\ stream[l] \in Seq(1 .. MaxEvents)
      BY <2>0, <3>2
    <3>5. \A e : HasRow(stream'[l], e) <=> HasRow(stream[l], e) \/ e = Head(queue)
      <4>1. TAKE e
      <4>2. HasRow(Append(stream[l], Head(queue)), e) <=> HasRow(stream[l], e) \/ e = Head(queue)
        <5>1. PICK s \in Seq(1 .. MaxEvents), x \in 1 .. MaxEvents : s = stream[l] /\ x = Head(queue)
          BY <3>1, <3>4
        <5>2. HasRow(Append(s, x), e) <=> HasRow(s, e) \/ e = x
          BY AppendRow
        <5>3. QED BY <5>1, <5>2
      <4>3. QED BY <3>4, <4>2
    <3>6. \A m \in listeners : Stays(m)
      BY <2>0, <3>2, <3>3, <3>5 DEF Stays
    <3>7. QED BY <2>0, <3>2, <3>5, <3>6, MissesKept
  <2>8. ASSUME NEW l \in Listeners, Accept(l) \/ Leave(l) PROVE ServedInv'
    <3>1. /\ Receive(l) /\ left' = left \ {l} /\ listeners' \subseteq listeners
          /\ UNCHANGED <<queue, outer>>
      BY <2>8 DEF Accept, Leave
    <3>2. QED BY <2>7, <3>1, ServedOn
  <2>9. ASSUME NEW ls, Stop(ls), \A m \in listeners : Stays(m),
               listeners' \subseteq listeners => NobodyMisses'
        PROVE  ServedInv'
    <3>1. CASE queue' = <<>> /\ outer' = <<>> /\ listeners' \subseteq listeners
      BY <2>9, <3>1, ServedAnew
    <3>2. CASE /\ outer # <<>> /\ outer' = <<>> /\ listeners' \subseteq listeners
               /\ queue' = Head(outer).queue /\ left' = Head(outer).left \cap listeners'
      BY <2>9, <3>2, ServedBack
    <3>3. QED BY <2>9, <3>1, <3>2 DEF Stop
  <2>10. ASSUME NEW l \in Listeners, Reject(l) PROVE ServedInv'
    BY <2>7, <2>9, <2>10 DEF Reject, AfterThrow
  <2>11. CASE MarkFails
    BY <2>1, <2>2, <2>9, <2>11 DEF MarkFails
  <2>12. CASE Mark
    <3>1. queue # <<>> /\ left = {} /\ UNCHANGED <<listeners, stream, since>>
          /\ published' = published \cup {Head(queue)}
      BY <2>12 DEF Mark, EveryoneCalled, RowsInv, Idle
    <3>2. \A m \in listeners : Stays(m)
      BY <2>1, <3>1
    <3>3. Called(queue, {}, listeners, since, stream)
      BY <3>1 DEF ServedInv
    <3>4. NobodyMisses'
      BY <2>0, <3>1, <3>2, <3>3, MissesKept DEF Called
    <3>5. CASE /\ queue' = Tail(queue) /\ outer' = outer
               /\ left' = IF queue' = <<>> THEN {} ELSE listeners
      <4>1. queue' # <<>> => Called(queue', left', listeners', since', stream')
        BY <3>1, <3>5 DEF Called
      <4>2. outer # <<>> => Called(Head(outer).queue, Head(outer).left, listeners', since', stream')
        BY <3>1 DEF ServedInv
      <4>3. QED BY <3>4, <3>5, <4>1, <4>2 DEF ServedInv
    <3>6. CASE /\ outer # <<>> /\ outer' = <<>>
               /\ queue' = Head(outer).queue /\ left' = Head(outer).left \cap listeners
      BY <3>1, <3>2, <3>4, <3>6, ServedBack
    <3>7. QED BY <2>12, <3>5, <3>6 DEF Mark
  <2>13. ASSUME NEW l \in Listeners, NEW new \in Listeners, SubscribeWithin(l, new) PROVE ServedInv'
    <3>1. queue # <<>> /\ Head(queue) \in 1 .. MaxEvents
      BY <2>13, FirstRow DEF SubscribeWithin
    <3>2. /\ outer = <<>> /\ l \in left /\ new \notin listeners /\ l # new
          /\ published' = published /\ listeners' = listeners \cup {new}
          /\ stream' = [stream EXCEPT ![l] = Append(stream[l], Head(queue)), ![new] = <<>>]
          /\ since' = [since EXCEPT ![new] = published]
      BY <2>0, <2>13 DEF SubscribeWithin
    <3>3. stream[l] \in Seq(1 .. MaxEvents) /\ stream'[l] = Append(stream[l], Head(queue))
          /\ \A m \in Listeners \ {l, new} : stream'[m] = stream[m]
      BY <2>0, <3>2
    <3>4. \A e : HasRow(stream'[l], e) <=> HasRow(stream[l], e) \/ e = Head(queue)
      <4>1. TAKE e
      <4>2. HasRow(Append(stream[l], Head(queue)), e) <=> HasRow(stream[l], e) \/ e = Head(queue)
        <5>1. PICK s \in Seq(1 .. MaxEvents), x \in 1 .. MaxEvents : s = stream[l] /\ x = Head(queue)
          BY <3>1, <3>3
        <5>2. HasRow(Append(s, x), e) <=> HasRow(s, e) \/ e = x
          BY AppendRow
        <5>3. QED BY <5>1, <5>2
      <4>3. QED BY <3>3, <4>2
    <3>5. \A m \in listeners : Stays(m)
      BY <2>0, <3>2, <3>3, <3>4 DEF Stays
    <3>6. published' \subseteq since'[new]
      BY <2>0, <3>2
    <3>7. NobodyMisses'
      BY <2>0, <3>2, <3>5, <3>6, MissesKept
    <3>8. Called(queue, (left \ {l}) \cup {new}, listeners', since', stream')
      BY <3>1, <3>2, <3>4, <3>5, CalledKept DEF ServedInv
    <3>9. CASE left' = (left \ {l}) \cup {new} /\ UNCHANGED <<queue, outer>>
      BY <3>2, <3>7, <3>8, <3>9 DEF ServedInv
    <3>10. CASE /\ outer' = <<[queue |-> queue, left |-> (left \ {l}) \cup {new},
                               strict |-> strict, caller |-> l]>>
                /\ StartPublication(listeners')
      <4>1. Head(outer').queue = queue /\ Head(outer').left = (left \ {l}) \cup {new}
        BY <3>10
      <4>2. queue' # <<>> => left' = listeners'
        BY <3>10 DEF StartPublication
      <4>3. queue' # <<>> => Called(queue', left', listeners', since', stream')
        BY <4>2 DEF Called
      <4>4. QED BY <3>7, <3>8, <4>1, <4>3 DEF ServedInv
    <3>11. QED BY <2>13, <3>9, <3>10 DEF SubscribeWithin
  <2>14. CASE UNCHANGED vars
    BY <2>14 DEF vars, ServedInv, NobodyMisses
  <2>15. QED
    BY <2>3, <2>4, <2>5, <2>6, <2>8, <2>10, <2>11, <2>12, <2>13, <2>14 DEF Next
<1>3. QED BY <1>1, <1>2, RowsAreListed, PTL DEF Spec

\* No subscriber misses an event that is marked while it is subscribed.
THEOREM NobodyIsMissed == Spec => []NobodyMisses
<1>1. ServedInv => NobodyMisses
  BY DEF ServedInv
<1>2. QED BY <1>1, EverybodyServed, PTL

-----------------------------------------------------------------------------
\* At least once.

\* While rows are published somebody listens, unless a callback saw to that nobody does,
\* and the first row was sent already or will be.
ReachedInv ==
  ~deserted =>
    /\ PublishedWasReached
    /\ queue # <<>> => listeners # {} /\ (left # {} \/ Head(queue) \in reached)
    /\ outer # <<>> => Head(Head(outer).queue) \in reached

\* A publication that ends leaves no row, or goes back to one whose first row was sent.
LEMMA StopKeepsReached ==
  ASSUME ReachedInv, NEW ls, Stop(ls), UNCHANGED published, reached \subseteq reached'
  PROVE  ReachedInv'
<1> SUFFICES ASSUME ~deserted' PROVE ReachedInv'
  BY DEF ReachedInv
<1>0. ~deserted
  BY DEF Stop
<1>1. PublishedWasReached'
  BY <1>0 DEF ReachedInv, PublishedWasReached
<1>2. CASE queue' = <<>> /\ outer' = <<>>
  BY <1>1, <1>2 DEF ReachedInv
<1>3. CASE outer # <<>> /\ outer' = <<>> /\ queue' = Head(outer).queue /\ listeners' # {}
  BY <1>0, <1>1, <1>3 DEF ReachedInv
<1>4. QED BY <1>2, <1>3 DEF Stop

\* An event is marked only after somebody got it, until a callback leaves nobody to listen
\* and publication goes on (#publishPending, markPublished).
THEOREM EventsAreReached == Spec => []ReachedInv
<1>1. Init => ReachedInv
  BY DEF Init, ReachedInv, PublishedWasReached
<1>2. RowsInv /\ ReachedInv /\ [Next]_vars => ReachedInv'
  <2> SUFFICES ASSUME RowsInv, ReachedInv, [Next]_vars PROVE ReachedInv'
    OBVIOUS
  <2> USE DEF publication, PublishedWasReached
  <2>1. ASSUME NEW n \in 0 .. MaxBatch, Commit(n) \/ Restart(n) PROVE ReachedInv'
    BY <2>1 DEF Commit, Restart, Idle, ReachedInv
  <2>2. CASE Publish
    BY <2>2 DEF Publish, Idle, SomebodyListens, StartPublication, ReachedInv
  <2>3. ASSUME NEW l \in Listeners, Subscribe(l) PROVE ReachedInv'
    BY <2>3 DEF Subscribe, Idle, StartPublication, ReachedInv
  <2>4. ASSUME NEW l \in Listeners, Unsubscribe(l) PROVE ReachedInv'
    BY <2>4 DEF Unsubscribe, Idle, ReachedInv
  <2>5. ASSUME NEW l \in Listeners, Accept(l) PROVE ReachedInv'
    BY <2>5 DEF Accept, Receive, ReachedInv
  <2>6. ASSUME NEW l \in Listeners, Leave(l) PROVE ReachedInv'
    BY <2>6 DEF Leave, Receive, ReachedInv
  <2>7. ASSUME NEW l \in Listeners, Reject(l) PROVE ReachedInv'
    BY <2>7, StopKeepsReached DEF Reject, AfterThrow, Receive
  <2>8. CASE MarkFails
    BY <2>8, StopKeepsReached DEF MarkFails
  <2>9. CASE Mark
    <3>1. queue # <<>> /\ left = {} /\ UNCHANGED <<listeners, reached>>
          /\ published' = published \cup {Head(queue)}
      BY <2>9 DEF Mark, EveryoneCalled, RowsInv, Idle
    <3>2. UNCHANGED deserted /\ (~deserted => PublishedWasReached' /\ listeners # {})
      BY <2>9, <3>1 DEF Mark, ReachedInv
    <3>3. CASE queue' = Tail(queue) /\ outer' = outer /\ left' = IF queue' = <<>> THEN {} ELSE listeners
      BY <3>1, <3>2, <3>3 DEF ReachedInv
    <3>4. CASE outer # <<>> /\ outer' = <<>> /\ queue' = Head(outer).queue
      BY <3>1, <3>2, <3>4 DEF ReachedInv
    <3>5. QED BY <2>9, <3>3, <3>4 DEF Mark
  <2>10. ASSUME NEW l \in Listeners, NEW new \in Listeners, SubscribeWithin(l, new) PROVE ReachedInv'
    <3>1. /\ outer = <<>> /\ reached' = reached \cup {Head(queue)} /\ published' = published
          /\ listeners' = listeners \cup {new} /\ UNCHANGED deserted
      BY <2>10 DEF SubscribeWithin
    <3>2. CASE UNCHANGED <<queue, outer>>
      BY <3>1, <3>2 DEF ReachedInv
    <3>3. CASE /\ outer' = <<[queue |-> queue, left |-> (left \ {l}) \cup {new},
                              strict |-> strict, caller |-> l]>>
               /\ StartPublication(listeners')
      <4>1. Head(outer').queue = queue
        BY <3>3
      <4>2. queue' # <<>> => left' = listeners'
        BY <3>3 DEF StartPublication
      <4>3. QED BY <3>1, <4>1, <4>2 DEF ReachedInv
    <3>4. QED BY <2>10, <3>2, <3>3 DEF SubscribeWithin
  <2>11. CASE UNCHANGED vars
    BY <2>11 DEF vars, ReachedInv
  <2>12. QED
    BY <2>1, <2>2, <2>3, <2>4, <2>5, <2>6, <2>7, <2>8, <2>9, <2>10, <2>11 DEF Next
<1>3. QED BY <1>1, <1>2, RowsAreListed, PTL DEF Spec

\* The types; what is published is a prefix of the events, nobody who was subscribed
\* missed one, and each reached somebody unless a callback left nobody to listen.
THEOREM OutboxSafe == Spec => []OutboxInv
<1>1. RowsInv /\ ReachedInv /\ NobodyMisses => OutboxInv
  BY DEF RowsInv, ReachedInv, OutboxInv, ReachedUnlessDeserted, PublishedIsPrefix, Prefix
<1>2. QED BY <1>1, RowsAreListed, EventsAreReached, NobodyIsMissed, PTL

-----------------------------------------------------------------------------
\* In what order.

\* The row x is the last that s holds.
SawLast(s, x) == s # <<>> /\ s[Len(s)] = x

\* The last row of s is the first that is not in p, or the last that is.
Follows(s, p) == s # <<>> => s[Len(s)] + 1 \notin p /\ \A d \in 1 .. s[Len(s)] - 1 : d \in p

\* As long as no publication was inside another, what is queued is not published, and
\* who was called with the first row saw it last.
OrderInv ==
  /\ StreamInOrder
  /\ nested = 0 =>
       /\ outer = <<>>
       /\ queue # <<>> => Head(queue) \notin published
       /\ \A l \in listeners :
            /\ Follows(stream[l], published)
            /\ queue # <<>> /\ l \notin left => SawLast(stream[l], Head(queue))

\* StreamInOrder, of the rows s that a subscriber got.
Gapless(s, sn) ==
  \A i \in DOMAIN s : \A d \in 1 .. s[i] - 1 : d \in sn \/ \E j \in 1 .. i - 1 : s[j] = d
Steady(s) == \A i \in DOMAIN s : i > 1 => s[i] \in {s[i - 1], s[i - 1] + 1}

LEMMA InOrder ==
  StreamInOrder <=> \A l \in Listeners : Gapless(stream[l], since[l]) /\ (nested = 0 => Steady(stream[l]))
BY DEF StreamInOrder, Gapless, Steady

LEMMA NothingSeen == \A sn, p : Gapless(<<>>, sn) /\ Steady(<<>>) /\ Follows(<<>>, p)
BY DEF Gapless, Steady, Follows

LEMMA AppendGapless ==
  ASSUME NEW s \in Seq(1 .. MaxEvents), NEW x \in 1 .. MaxEvents, NEW sn, Gapless(s, sn),
         \A d \in 1 .. x - 1 : d \in sn \/ HasRow(s, d)
  PROVE  Gapless(Append(s, x), sn)
<1>1. /\ Len(s) \in Nat /\ DOMAIN s = 1 .. Len(s)
      /\ DOMAIN Append(s, x) = 1 .. Len(s) + 1
      /\ \A i \in 1 .. Len(s) : Append(s, x)[i] = s[i]
      /\ Append(s, x)[Len(s) + 1] = x
  OBVIOUS
<1> SUFFICES ASSUME NEW i \in 1 .. Len(s) + 1, NEW d \in 1 .. Append(s, x)[i] - 1, d \notin sn
             PROVE  \E j \in 1 .. i - 1 : Append(s, x)[j] = d
  BY <1>1 DEF Gapless
<1>2. CASE i \in 1 .. Len(s)
  <2>1. PICK j \in 1 .. i - 1 : s[j] = d
    BY <1>1, <1>2 DEF Gapless
  <2>2. j \in 1 .. Len(s)
    BY <1>1, <1>2
  <2>3. QED BY <1>1, <2>1, <2>2
<1>3. CASE i = Len(s) + 1
  <2>1. PICK j \in 1 .. Len(s) : s[j] = d
    BY <1>1, <1>3 DEF HasRow
  <2>2. QED BY <1>1, <1>3, <2>1
<1>4. QED BY <1>1, <1>2, <1>3

LEMMA AppendSteady ==
  ASSUME NEW s \in Seq(1 .. MaxEvents), NEW x \in 1 .. MaxEvents, Steady(s),
         s # <<>> => x \in {s[Len(s)], s[Len(s)] + 1}
  PROVE  Steady(Append(s, x)) /\ SawLast(Append(s, x), x)
<1>1. /\ Len(s) \in Nat /\ DOMAIN s = 1 .. Len(s)
      /\ DOMAIN Append(s, x) = 1 .. Len(s) + 1 /\ Len(Append(s, x)) = Len(s) + 1
      /\ \A i \in 1 .. Len(s) : Append(s, x)[i] = s[i]
      /\ Append(s, x)[Len(s) + 1] = x /\ Append(s, x) # <<>>
      /\ s = <<>> => Len(s) = 0
  OBVIOUS
<1>2. ASSUME NEW i \in 1 .. Len(s) + 1, i > 1
      PROVE  Append(s, x)[i] \in {Append(s, x)[i - 1], Append(s, x)[i - 1] + 1}
  <2>1. i - 1 \in 1 .. Len(s) /\ Append(s, x)[i - 1] = s[i - 1] /\ s # <<>>
    BY <1>1, <1>2
  <2>2. CASE i \in 1 .. Len(s)
    BY <1>1, <1>2, <2>1, <2>2 DEF Steady
  <2>3. CASE i = Len(s) + 1
    BY <1>1, <2>1, <2>3
  <2>4. i \in 1 .. Len(s) \/ i = Len(s) + 1
    BY <1>1
  <2>5. QED BY <2>2, <2>3, <2>4
<1>3. QED BY <1>1, <1>2 DEF Steady, SawLast

\* The first row x that is not published is the next after what s ends with, or the same.
LEMMA FollowsNext ==
  ASSUME NEW p, NEW s \in Seq(1 .. MaxEvents), NEW x \in 1 .. MaxEvents,
         x \notin p, \A d \in 1 .. x - 1 : d \in p, Follows(s, p), s # <<>>
  PROVE  x \in {s[Len(s)], s[Len(s)] + 1}
<1>1. PICK y \in 1 .. MaxEvents : y = s[Len(s)]
  <2>1. Len(s) \in 1 .. Len(s)
    BY EmptySeq
  <2>2. QED BY <2>1, ElementOfSeq
<1>2. y + 1 \notin p /\ \A d \in 1 .. y - 1 : d \in p
  BY <1>1 DEF Follows
<1>3. ~(x < y)
  BY <1>2
<1>4. ~(y + 1 < x)
  BY <1>2
<1>5. QED BY <1>1, <1>3, <1>4

\* Who saw the first row that is not published is up to date, before it is published and after.
LEMMA UpToDate ==
  ASSUME NEW p \in SUBSET Nat, Prefix(p), NEW s, NEW x \in 1 .. MaxEvents, SawLast(s, x),
         x \notin p, \A d \in 1 .. x - 1 : d \in p
  PROVE  Follows(s, p) /\ Follows(s, p \cup {x})
<1>1. x + 1 \notin p
  <2>1. x \in 1 .. x + 1
    OBVIOUS
  <2>2. QED BY <2>1 DEF Prefix
<1>2. x + 1 # x
  OBVIOUS
<1>3. QED BY <1>1, <1>2 DEF SawLast, Follows

\* One more row, for a subscriber.
LEMMA OneMore ==
  ASSUME RowsInv, NobodyMisses, OrderInv, ~Idle, NEW l \in listeners
  PROVE  LET s == Append(stream[l], Head(queue)) IN
         /\ Gapless(s, since[l])
         /\ nested = 0 => Steady(s) /\ SawLast(s, Head(queue)) /\ Follows(s, published)
<1>1. /\ queue # <<>> /\ Head(queue) \in 1 .. MaxEvents /\ stream[l] \in Seq(1 .. MaxEvents)
      /\ l \in Listeners /\ Prefix(published) /\ published \in SUBSET Nat
      /\ \A d \in 1 .. Head(queue) - 1 : d \in published
  <2>1. published \subseteq 1 .. count
    BY DEF RowsInv, TypeOK, OutboxTypes
  <2>2. QED BY <2>1, FirstRow DEF RowsInv, Listing, TypeOK, OutboxTypes
<1>2. PICK s \in Seq(1 .. MaxEvents), x \in 1 .. MaxEvents : s = stream[l] /\ x = Head(queue)
  BY <1>1
<1>3. Gapless(Append(s, x), since[l])
  <2>1. Gapless(s, since[l])
    BY <1>1, <1>2, InOrder DEF OrderInv
  <2>2. \A d \in 1 .. x - 1 : d \in since[l] \/ HasRow(s, d)
    BY <1>1, <1>2 DEF NobodyMisses, HasRow
  <2>3. QED BY <2>1, <2>2, AppendGapless
<1>4. ASSUME nested = 0 PROVE Steady(Append(s, x)) /\ SawLast(Append(s, x), x) /\ Follows(Append(s, x), published)
  <2>1. Steady(s)
    BY <1>1, <1>2, <1>4, InOrder DEF OrderInv
  <2>2. x \notin published /\ Follows(s, published) /\ \A d \in 1 .. x - 1 : d \in published
    BY <1>1, <1>2, <1>4 DEF OrderInv
  <2>3. s # <<>> => x \in {s[Len(s)], s[Len(s)] + 1}
    BY <2>2, FollowsNext
  <2>4. Steady(Append(s, x)) /\ SawLast(Append(s, x), x)
    BY <2>1, <2>3, AppendSteady
  <2>5. QED BY <1>1, <2>2, <2>4, UpToDate
<1>5. QED BY <1>2, <1>3, <1>4

\* A step that sends nothing keeps the streams in order.
LEMMA StreamsKept ==
  ASSUME OrderInv, UNCHANGED <<stream, since, nested>>
  PROVE  StreamInOrder'
BY DEF OrderInv, StreamInOrder

\* Every subscriber gets the rows in order: none before it got all that were not published
\* when it came, and unless one publication was inside another, each is the last again or
\* the one after it (#publishPending, subscribe).
THEOREM RowsComeInOrder == Spec => []OrderInv
<1>1. Init => OrderInv
  BY NothingSeen DEF Init, OrderInv, StreamInOrder
<1>2. RowsInv /\ ServedInv /\ OrderInv /\ [Next]_vars => OrderInv'
  <2> SUFFICES ASSUME RowsInv, ServedInv, OrderInv, [Next]_vars PROVE OrderInv'
    OBVIOUS
  <2> USE DEF publication
  <2>0. /\ count \in 0 .. MaxEvents /\ count \in Nat /\ published \subseteq 1 .. count
        /\ published \in SUBSET Nat /\ Prefix(published) /\ nested \in Nat
        /\ listeners \subseteq Listeners /\ left \subseteq listeners
        /\ stream \in [Listeners -> Seq(1 .. MaxEvents)]
        /\ since \in [Listeners -> SUBSET (1 .. MaxEvents)]
        /\ NobodyMisses /\ Listing(queue, count, published)
    BY OutboxAssumption DEF RowsInv, TypeOK, OutboxTypes, PublicationTypes, ServedInv
  <2>1. Pending(published, count) # <<>> => Head(Pending(published, count)) \notin published
    BY <2>0, PendingLists
  <2>2. ASSUME NEW n \in 0 .. MaxBatch, Commit(n) \/ Restart(n) PROVE OrderInv'
    <3>1. /\ UNCHANGED <<published, stream, since, nested>> /\ queue' = <<>> /\ outer' = <<>>
          /\ listeners' \subseteq listeners
      BY <2>2 DEF Commit, Restart, Idle
    <3>2. QED BY <3>1, StreamsKept DEF OrderInv
  <2>3. CASE Publish
    <3>1. /\ UNCHANGED <<published, listeners, stream, since, nested>> /\ outer' = <<>>
          /\ queue' # <<>> => left' = listeners /\ Head(queue') \notin published
      BY <2>1, <2>3 DEF Publish, Idle, StartPublication
    <3>2. QED BY <3>1, StreamsKept DEF OrderInv
  <2>4. ASSUME NEW l \in Listeners, Subscribe(l) PROVE OrderInv'
    <3>1. /\ UNCHANGED <<published, nested>> /\ outer' = <<>> /\ listeners' = listeners \cup {l}
          /\ queue' # <<>> => left' = listeners' /\ Head(queue') \notin published
      BY <2>1, <2>4 DEF Subscribe, Idle, StartPublication
    <3>2. /\ stream'[l] = <<>>
          /\ \A m \in Listeners \ {l} : stream'[m] = stream[m] /\ since'[m] = since[m]
      BY <2>0, <2>4 DEF Subscribe
    <3>3. StreamInOrder'
      <4>1. ASSUME NEW m \in Listeners
            PROVE  Gapless(stream'[m], since'[m]) /\ (nested' = 0 => Steady(stream'[m]))
        BY <3>1, <3>2, NothingSeen, InOrder DEF OrderInv
      <4>2. QED BY <4>1 DEF StreamInOrder, Gapless, Steady
    <3>4. QED BY <3>1, <3>2, <3>3, <2>0, NothingSeen DEF OrderInv
  <2>5. ASSUME NEW l \in Listeners, Unsubscribe(l) PROVE OrderInv'
    <3>1. /\ UNCHANGED <<published, stream, since, nested>> /\ queue' = <<>> /\ outer' = <<>>
          /\ listeners' \subseteq listeners
      BY <2>5 DEF Unsubscribe, Idle
    <3>2. QED BY <3>1, StreamsKept DEF OrderInv
  <2>6. ASSUME NEW l \in Listeners, Receive(l), nested' = nested
        PROVE  /\ StreamInOrder'
               /\ nested = 0 =>
                    /\ SawLast(stream'[l], Head(queue))
                    /\ \A m \in listeners : Follows(stream'[m], published')
                    /\ \A m \in Listeners \ {l} : stream'[m] = stream[m]
    <3>1. /\ ~Idle /\ l \in listeners /\ published' = published /\ since' = since
          /\ stream'[l] = Append(stream[l], Head(queue))
          /\ \A m \in Listeners \ {l} : stream'[m] = stream[m]
      BY <2>0, <2>6 DEF Receive
    <3>2. /\ Gapless(stream'[l], since[l])
          /\ nested = 0 => /\ Steady(stream'[l]) /\ SawLast(stream'[l], Head(queue))
                           /\ Follows(stream'[l], published)
      BY <2>0, <3>1, OneMore
    <3>3. ASSUME NEW m \in Listeners
          PROVE  Gapless(stream'[m], since'[m]) /\ (nested' = 0 => Steady(stream'[m]))
      BY <2>6, <3>1, <3>2, InOrder DEF OrderInv
    <3>4. StreamInOrder'
      BY <3>3 DEF StreamInOrder, Gapless, Steady
    <3>5. ASSUME nested = 0, NEW m \in listeners PROVE Follows(stream'[m], published')
      BY <2>0, <3>1, <3>2, <3>5 DEF OrderInv
    <3>6. QED BY <3>1, <3>2, <3>4, <3>5
  <2>7. ASSUME NEW l \in Listeners, Accept(l) \/ Leave(l) PROVE OrderInv'
    <3>1. /\ Receive(l) /\ left' = left \ {l} /\ listeners' \subseteq listeners
          /\ UNCHANGED <<queue, outer, nested, published>>
      BY <2>7 DEF Accept, Leave, Receive
    <3>2. QED BY <2>0, <2>6, <3>1 DEF OrderInv
  <2>8. ASSUME NEW l \in Listeners, Reject(l) PROVE OrderInv'
    <3>1. /\ Receive(l) /\ nested' = nested
          /\ nested = 0 => queue' = <<>> /\ outer' = <<>> /\ listeners' \subseteq listeners
      BY <2>8 DEF Reject, AfterThrow, Stop, OrderInv
    <3>2. QED BY <2>6, <3>1 DEF OrderInv
  <2>9. CASE MarkFails
    <3>1. /\ UNCHANGED <<published, stream, since, nested>>
          /\ nested = 0 => queue' = <<>> /\ outer' = <<>> /\ listeners' \subseteq listeners
      BY <2>9 DEF MarkFails, Stop, OrderInv
    <3>2. QED BY <3>1, StreamsKept DEF OrderInv
  <2>10. CASE Mark
    <3>1. /\ queue # <<>> /\ left = {} /\ UNCHANGED <<listeners, stream, since, nested>>
          /\ published' = published \cup {Head(queue)}
      BY <2>10 DEF Mark, EveryoneCalled, RowsInv, Idle
    <3>2. StreamInOrder'
      BY <3>1, StreamsKept
    <3>3. ASSUME nested = 0
          PROVE  /\ outer' = <<>>
                 /\ queue' # <<>> => Head(queue') \notin published' /\ left' = listeners
                 /\ \A l \in listeners : Follows(stream[l], published')
      <4>1. /\ outer = <<>> /\ Head(queue) \notin published
            /\ \A l \in listeners : SawLast(stream[l], Head(queue))
        BY <3>1, <3>3 DEF OrderInv
      <4>2. /\ outer' = <<>> /\ queue' = Tail(queue)
            /\ left' = IF queue' = <<>> THEN {} ELSE listeners
        BY <2>10, <4>1 DEF Mark
      <4>3. PICK x \in 1 .. MaxEvents : x = Head(queue)
        BY <2>10, FirstRow DEF Mark
      <4>4. \A d \in 1 .. x - 1 : d \in published
        BY <2>0, <3>1, <4>3 DEF Listing
      <4>5. \A l \in listeners : Follows(stream[l], published')
        BY <2>0, <3>1, <4>1, <4>3, <4>4, UpToDate
      <4>6. x + 1 \notin published'
        <5>1. x \in 1 .. x + 1 /\ x + 1 # x
          OBVIOUS
        <5>2. QED BY <2>0, <3>1, <4>1, <4>3, <5>1 DEF Prefix
      <4>7. queue' # <<>> => Head(queue') = x + 1
        BY <2>0, <3>1, <4>2, <4>3, ListingEnds
      <4>8. QED BY <4>2, <4>5, <4>6, <4>7
    <3>4. QED BY <3>1, <3>2, <3>3 DEF OrderInv
  <2>11. ASSUME NEW l \in Listeners, NEW new \in Listeners, SubscribeWithin(l, new) PROVE OrderInv'
    <3>1. /\ ~Idle /\ l \in listeners /\ l # new /\ nested' # 0
          /\ stream' = [stream EXCEPT ![l] = Append(stream[l], Head(queue)), ![new] = <<>>]
          /\ since' = [since EXCEPT ![new] = published]
      BY <2>0, <2>11 DEF SubscribeWithin
    <3>2. /\ stream'[l] = Append(stream[l], Head(queue)) /\ since'[l] = since[l]
          /\ stream'[new] = <<>>
          /\ \A m \in Listeners \ {l, new} : stream'[m] = stream[m] /\ since'[m] = since[m]
      BY <2>0, <3>1
    <3>3. Gapless(stream'[l], since'[l])
      BY <2>0, <3>1, <3>2, OneMore
    <3>4. ASSUME NEW m \in Listeners
          PROVE  Gapless(stream'[m], since'[m]) /\ (nested' = 0 => Steady(stream'[m]))
      BY <3>1, <3>2, <3>3, NothingSeen, InOrder DEF OrderInv
    <3>5. StreamInOrder'
      BY <3>4 DEF StreamInOrder, Gapless, Steady
    <3>6. QED BY <3>1, <3>5 DEF OrderInv
  <2>12. CASE UNCHANGED vars
    BY <2>12, StreamsKept DEF vars, OrderInv
  <2>13. QED
    BY <2>2, <2>3, <2>4, <2>5, <2>7, <2>8, <2>9, <2>10, <2>11, <2>12 DEF Next
<1>3. QED BY <1>1, <1>2, RowsAreListed, EverybodyServed, PTL DEF Spec

\* Each subscriber sees the events without a gap, and in order.
THEOREM StreamsInOrder == Spec => []StreamInOrder
<1>1. OrderInv => StreamInOrder
  BY DEF OrderInv
<1>2. QED BY <1>1, RowsComeInOrder, PTL

\* What is marked published is not sent again, unless another publication inside this
\* one marked it.
THEOREM PublishedRowsAreOver == Spec => PublishedIsOver
<1>1. ASSUME RowsInv, OrderInv, [Next]_vars, NEW l \in Listeners,
             Len(stream'[l]) > Len(stream[l]), nested = 0
      PROVE  Head(queue) \notin published
  <2>1. stream \in [Listeners -> Seq(1 .. MaxEvents)] /\ Len(stream[l]) \in Nat
    <3>1. stream \in [Listeners -> Seq(1 .. MaxEvents)]
      BY <1>1 DEF RowsInv, TypeOK, OutboxTypes
    <3>2. stream[l] \in Seq(1 .. MaxEvents)
      BY <3>1
    <3>3. QED BY <3>1, <3>2
  <2>2. ~(UNCHANGED stream)
    BY <1>1, <2>1
  <2>3. ~Idle \/ \E m \in Listeners : Subscribe(m)
    BY <1>1, <2>2 DEF Next, vars, Commit, Restart, Publish, Mark, MarkFails, Unsubscribe,
                      Accept, Reject, Leave, Receive, SubscribeWithin
  <2>4. ASSUME NEW m \in Listeners, Subscribe(m) PROVE FALSE
    <3>1. stream' = [stream EXCEPT ![m] = <<>>]
      BY <2>4 DEF Subscribe
    <3>2. stream'[l] = stream[l] \/ Len(stream'[l]) = 0
      BY <2>1, <3>1
    <3>3. QED BY <1>1, <2>1, <3>2
  <2>5. ~Idle /\ queue # <<>>
    BY <2>3, <2>4, <1>1, FirstRow
  <2>6. QED BY <1>1, <2>5 DEF OrderInv
<1>2. RowsInv /\ OrderInv /\ [Next]_vars =>
        [\A l \in Listeners :
           Len(stream'[l]) > Len(stream[l]) /\ nested = 0 => Head(queue) \notin published]_vars
  BY <1>1
<1>3. QED BY <1>2, RowsAreListed, RowsComeInOrder, PTL DEF Spec, PublishedIsOver

-----------------------------------------------------------------------------
\* What subscribers are promised.

\* What Promise takes for had.
Seen == [l \in Listeners |-> since[l] \cup {stream[l][i] : i \in DOMAIN stream[l]}]

\* A listener that is called has got the row that is being sent ...
LEMMA CallSeen ==
  ASSUME NEW l \in Listeners, NEW x \in 1 .. MaxEvents, stream \in [Listeners -> Seq(1 .. MaxEvents)],
         stream' = [stream EXCEPT ![l] = Append(@, x)], since' = since
  PROVE  Seen' = [Seen EXCEPT ![l] = @ \cup {x}]
<1>1. ASSUME NEW s \in Seq(1 .. MaxEvents)
      PROVE  {Append(s, x)[i] : i \in DOMAIN Append(s, x)} = {s[i] : i \in DOMAIN s} \cup {x}
  <2>1. /\ Len(s) \in Nat /\ DOMAIN s = 1 .. Len(s) /\ DOMAIN Append(s, x) = 1 .. Len(s) + 1
        /\ \A i \in 1 .. Len(s) : Append(s, x)[i] = s[i]
        /\ Append(s, x)[Len(s) + 1] = x
    OBVIOUS
  <2>2. 1 .. Len(s) + 1 = (1 .. Len(s)) \cup {Len(s) + 1}
    BY <2>1
  <2>3. QED BY <2>1, <2>2
<1>2. ASSUME NEW m \in Listeners
      PROVE  Seen'[m] = IF m = l THEN Seen[m] \cup {x} ELSE Seen[m]
  <2>1. stream[m] \in Seq(1 .. MaxEvents)
    OBVIOUS
  <2>2. CASE m = l
    <3>1. stream'[m] = Append(stream[m], x)
      BY <2>2
    <3>2. {stream'[m][i] : i \in DOMAIN stream'[m]} = {stream[m][i] : i \in DOMAIN stream[m]} \cup {x}
      BY <1>1, <2>1, <3>1
    <3>3. QED BY <2>2, <3>2 DEF Seen
  <2>3. CASE m # l
    <3>1. stream'[m] = stream[m]
      BY <2>3
    <3>2. QED BY <2>3, <3>1 DEF Seen
  <2>4. QED BY <2>2, <2>3
<1>3. /\ DOMAIN Seen = Listeners /\ DOMAIN Seen' = Listeners
      /\ Seen' = [m \in Listeners |-> Seen'[m]]
  BY DEF Seen
<1> HIDE DEF Seen
<1>4. QED BY <1>2, <1>3

\* ... and one that subscribes starts from what is published.
LEMMA NewSeen ==
  ASSUME NEW l \in Listeners, NEW st \in [Listeners -> Seq(1 .. MaxEvents)],
         since \in [Listeners -> SUBSET (1 .. MaxEvents)],
         stream' = [st EXCEPT ![l] = <<>>], since' = [since EXCEPT ![l] = published]
  PROVE  Seen' = [m \in Listeners |->
                    IF m \in {l} THEN published ELSE since[m] \cup {st[m][i] : i \in DOMAIN st[m]}]
<1>1. stream'[l] = <<>> /\ since'[l] = published
  OBVIOUS
<1>2. \A m \in Listeners \ {l} : stream'[m] = st[m] /\ since'[m] = since[m]
  OBVIOUS
<1>3. {stream'[l][i] : i \in DOMAIN stream'[l]} = {}
  BY <1>1
<1>4. QED BY <1>1, <1>2, <1>3 DEF Seen

\* Publication goes on or is over.
LEMMA Decided == (~Idle)' \in BOOLEAN /\ (~Idle => (~Idle)' \in {~Idle, FALSE})
OBVIOUS

LEMMA DeliveryStep ==
  ASSUME RowsInv, NobodyMisses, NobodyMisses', [Next]_vars
  PROVE  [Promise!Next]_(Promise!vars)
<1> DEFINE x == Head(queue)
<1>0. /\ TypeOK /\ published \subseteq 1 .. count /\ count \in Nat /\ left \subseteq listeners
      /\ stream \in [Listeners -> Seq(1 .. MaxEvents)] /\ listeners \subseteq Listeners
      /\ since \in [Listeners -> SUBSET (1 .. MaxEvents)]
  <2>1. TypeOK /\ count \in 0 .. MaxEvents
    BY DEF RowsInv, TypeOK, OutboxTypes
  <2>2. count \in Nat
    BY <2>1
  <2>3. QED BY <2>1, <2>2 DEF TypeOK, OutboxTypes, PublicationTypes
<1>1. ASSUME ~Idle PROVE queue # <<>> /\ x \in 1 .. count /\ x \in 1 .. MaxEvents /\ Promise!Turn(x)
  <2>1. queue # <<>> /\ x \in 1 .. count /\ x \in 1 .. MaxEvents
    BY <1>1, FirstRow
  <2>2. \A d \in 1 .. x - 1 : d \in published
    BY <2>1 DEF RowsInv, Listing
  <2>3. QED BY <2>1, <2>2 DEF Promise!Turn
<1>2. ASSUME NEW ls, Stop(ls) PROVE listeners' \subseteq listeners
  BY <1>2 DEF Stop
<1>3. ASSUME NEW n \in 0 .. MaxBatch, Commit(n) PROVE Promise!Next
  <2>1. count' >= count
    BY <1>0, <1>3, OutboxAssumption DEF Commit
  <2>2. Idle /\ Idle'
    BY <1>3 DEF Commit, Idle, publication
  <2>3. QED BY <1>3, <2>1, <2>2 DEF Commit, Promise!Commit, Promise!Next
<1>4. ASSUME NEW n \in 0 .. MaxBatch, Restart(n) PROVE Promise!Next
  <2>1. count' >= count
    BY <1>0, <1>4, OutboxAssumption DEF Restart
  <2>2. Idle'
    BY <1>4 DEF Restart, Idle
  <2>3. QED BY <1>4, <2>1, <2>2 DEF Restart, Promise!Restart, Promise!Next
<1>5. ASSUME Publish PROVE [Promise!Next]_(Promise!vars)
  <2>1. Idle /\ UNCHANGED <<count, published, listeners, stream, since>>
    BY <1>5 DEF Publish
  <2>2. Idle' \/ (~Idle' /\ listeners # {})
    BY <1>5 DEF Publish, SomebodyListens, Idle
  <2>3. CASE Idle'
    BY <2>1, <2>3 DEF Promise!vars
  <2>4. CASE ~Idle' /\ listeners # {}
    BY <2>1, <2>4 DEF Promise!Begin, Promise!Next
  <2>5. QED BY <2>2, <2>3, <2>4
<1>6. ASSUME NEW l \in Listeners, Subscribe(l) PROVE Promise!Next
  <2>1. Seen' = [m \in Listeners |-> IF m \in {l} THEN published ELSE Seen[m]]
    BY <1>0, <1>6, NewSeen DEF Subscribe, Seen
  <2>2. Promise!Subscribe({l})
    BY <1>6, <2>1, Decided DEF Subscribe, Promise!Subscribe, Promise!Had, Seen
  <2>3. QED BY <2>2 DEF Promise!Next
<1>7. ASSUME NEW l \in Listeners, Unsubscribe(l) PROVE Promise!Next
  <2>1. Idle /\ Idle'
    BY <1>7 DEF Unsubscribe, Idle, publication
  <2>2. QED BY <1>7, <2>1 DEF Unsubscribe, Promise!Leave, Promise!Next
<1>8. ASSUME NEW l \in Listeners, Receive(l), listeners' \subseteq listeners PROVE Promise!Next
  <2>1. ~Idle /\ l \in listeners
    BY <1>0, <1>8 DEF Receive
  <2>2. Seen' = [Seen EXCEPT ![l] = @ \cup {x}]
    BY <1>0, <1>1, <1>8, <2>1, CallSeen DEF Receive
  <2>3. Seen' = [m \in Listeners |-> IF m \in {} THEN published ELSE [Seen EXCEPT ![l] = @ \cup {x}][m]]
    <3>1. Seen = [m \in Listeners |-> Seen[m]]
      BY DEF Seen
    <3> HIDE DEF Seen
    <3>2. QED BY <2>2, <3>1
  <2>4. PICK gone \in SUBSET Listeners : listeners' = (listeners \cup {}) \ gone
    <3>1. listeners' = (listeners \cup {}) \ (Listeners \ listeners')
      BY <1>0, <1>8
    <3>2. QED BY <3>1
  <2>5. Promise!Deliver(l, x, {}, gone)
    BY <1>1, <1>8, <2>1, <2>3, <2>4, Decided DEF Receive, Promise!Deliver, Promise!Had, Seen
  <2>6. QED BY <1>1, <2>1, <2>5 DEF Promise!Next
<1>9. ASSUME NEW l \in Listeners, Accept(l) \/ Leave(l) \/ Reject(l) PROVE Promise!Next
  <2>1. Receive(l) /\ listeners' \subseteq listeners
    BY <1>2, <1>9 DEF Accept, Leave, Reject, AfterThrow
  <2>2. QED BY <1>8, <2>1
<1>10. CASE MarkFails
  <2>1. listeners' \subseteq listeners
    BY <1>2, <1>10 DEF MarkFails
  <2>2. ~Idle
    BY <1>10 DEF MarkFails
  <2>3. QED BY <1>10, <2>1, <2>2, Decided DEF MarkFails, Promise!Leave, Promise!Next
<1>11. CASE Mark
  <2>1. /\ ~Idle /\ published' = published \cup {x}
        /\ UNCHANGED <<count, listeners, stream, since>>
    BY <1>11 DEF Mark
  <2>2. Seen' = Seen
    BY <2>1 DEF Seen
  <2>4. ASSUME NEW l \in listeners PROVE x \in Seen[l]
    <3>1. l \in Listeners /\ (x \in since[l] \/ \E i \in DOMAIN stream[l] : stream[l][i] = x)
      <4>1. l \in listeners' /\ x \in published'
        BY <2>1
      <4>2. x \in since'[l] \/ \E i \in DOMAIN stream'[l] : stream'[l][i] = x
        BY ONLY NobodyMisses', <4>1 DEF NobodyMisses
      <4>3. QED BY <1>0, <2>1, <4>2
    <3>2. QED BY <3>1 DEF Seen
  <2>6. Promise!Mark(x)
    BY <1>1, <2>1, <2>2, <2>4, Decided DEF Promise!Mark, Seen
  <2>7. QED BY <1>1, <2>1, <2>6 DEF Promise!Next
<1>12. ASSUME NEW l \in Listeners, NEW new \in Listeners, SubscribeWithin(l, new) PROVE Promise!Next
  <2> DEFINE st == [stream EXCEPT ![l] = Append(@, x)]
             then == [Seen EXCEPT ![l] = @ \cup {x}]
  <2>1. /\ ~Idle /\ l \in listeners /\ new \notin listeners /\ l # new
        /\ listeners' = listeners \cup {new} /\ UNCHANGED <<published, count>>
        /\ stream' = [st EXCEPT ![new] = <<>>] /\ since' = [since EXCEPT ![new] = published]
    BY <1>0, <1>12 DEF SubscribeWithin
  <2>2. st \in [Listeners -> Seq(1 .. MaxEvents)]
    <3>1. Append(stream[l], x) \in Seq(1 .. MaxEvents)
      BY <1>0, <1>1, <2>1
    <3>2. QED BY <1>0, <3>1
  <2>3. ASSUME NEW m \in Listeners
        PROVE  since[m] \cup {st[m][i] : i \in DOMAIN st[m]} = then[m]
    <3>1. stream[m] \in Seq(1 .. MaxEvents)
      BY <1>0
    <3>2. CASE m = l
      <4>1. st[m] = Append(stream[m], x)
        BY <1>0, <3>2
      <4>2. {Append(stream[m], x)[i] : i \in DOMAIN Append(stream[m], x)}
              = {stream[m][i] : i \in DOMAIN stream[m]} \cup {x}
        <5>1. /\ Len(stream[m]) \in Nat /\ DOMAIN stream[m] = 1 .. Len(stream[m])
              /\ DOMAIN Append(stream[m], x) = 1 .. Len(stream[m]) + 1
              /\ \A i \in 1 .. Len(stream[m]) : Append(stream[m], x)[i] = stream[m][i]
              /\ Append(stream[m], x)[Len(stream[m]) + 1] = x
          BY <1>1, <2>1, <3>1
        <5>2. QED BY <5>1
      <4>3. QED BY <3>2, <4>1, <4>2 DEF Seen
    <3>3. CASE m # l
      BY <1>0, <3>3 DEF Seen
    <3>4. QED BY <3>2, <3>3
  <2>4. Seen' = [m \in Listeners |-> IF m \in {new} THEN published ELSE then[m]]
    <3>1. Seen' = [m \in Listeners |-> IF m \in {new} THEN published
                                       ELSE since[m] \cup {st[m][i] : i \in DOMAIN st[m]}]
      BY <1>0, <2>1, <2>2, NewSeen
    <3> HIDE DEF then, st
    <3>2. QED BY <2>3, <3>1
  <2>5. listeners' = (listeners \cup {new}) \ {} /\ {new} \cap listeners = {}
    BY <2>1
  <2>6. Promise!Deliver(l, x, {new}, {})
    BY <1>1, <2>1, <2>4, <2>5, Decided DEF Promise!Deliver, Promise!Had, Seen
  <2>7. QED BY <1>1, <2>1, <2>6 DEF Promise!Next
<1>13. ASSUME UNCHANGED vars PROVE UNCHANGED Promise!vars
  BY <1>13 DEF vars, publication, Promise!vars, Idle
<1>14. QED
  BY <1>3, <1>4, <1>5, <1>6, <1>7, <1>9, <1>10, <1>11, <1>12, <1>13 DEF Next

\* The outbox keeps what Delivery promises, for any subscribers and events, callbacks,
\* faults and crashes: publication begins when somebody subscribes, and nothing is marked
\* before everyone who is subscribed got it (#publishPending, markPublished, subscribe).
THEOREM OutboxImplementsDelivery == Spec => ImplementsDelivery
<1>1. Init => Promise!Init
  <2>1. ASSUME Init PROVE Seen = [l \in Listeners |-> {}]
    BY <2>1 DEF Init, Seen
  <2>2. ASSUME Init PROVE Idle
    BY <2>2 DEF Init, Idle
  <2>3. QED BY <2>1, <2>2 DEF Init, Promise!Init, Seen
<1>2. RowsInv /\ NobodyMisses /\ NobodyMisses' /\ [Next]_vars
        => [Promise!Next]_(Promise!vars)
  BY DeliveryStep
<1>3. QED
  BY <1>1, <1>2, RowsAreListed, NobodyIsMissed, PTL
  DEF Spec, ImplementsDelivery, Promise!Spec
===============================================================================
