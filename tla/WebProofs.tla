------------------------------- MODULE WebProofs -------------------------------
(***************************************************************************)
(* Proofs about WebClient, for any sessions, runs and bounds: in whatever  *)
(* order the page's answers come, one loop polls, and once they are all in *)
(* the screen and the buttons fit.                                         *)
(***************************************************************************)
EXTENDS WebClient, FiniteSetTheorems, SequenceTheorems, TLAPS

\* What a request is for, by what it is part of, and what it got, among the sessions m.
Belongs(t, m) ==
  /\ t.at = "list" => /\ t.kind \in {"boot", "select", "session"}
                      /\ t.for \in m \cup {None}
                      /\ t.kind # "boot" => t.for # None
                      /\ t.seen \subseteq m
                      /\ t.got # None /\ t.for # None => t.for \in t.seen
  /\ t.at = "create" => /\ t.kind \in {"boot", "session"} /\ t.for \in Sessions
                        /\ t.got # None => t.for \in m
  /\ t.at = "others" => t.kind = "boot"
  /\ t.at = "again" => t.kind = "select"
  /\ t.at = "post" => t.kind = "start" /\ t.for \in Runs
  /\ t.at = "status" => /\ t.kind = "poll" /\ t.for \in Runs
                        /\ t.got \in {None, "running", "over"}
  /\ t.at \in {"timer", "inspect", "final"} => t.kind = "poll"
  /\ t.at = "refresh" /\ t.kind = "poll" => t.for \in {"over", "running"}
  /\ t.at \in Refreshes => t.got \in Runs \cup {None, "nothing"}

\* The handlers of which there is one at a time.
Single == {"boot", "session", "poll"}

Has(w, kind) == \E i \in DOMAIN w : w[i].kind = kind

AskedInv ==
  /\ TypeOK /\ listed \subseteq made
  /\ \A i \in DOMAIN waiting : Belongs(waiting[i], made)
  /\ \A i, j \in DOMAIN waiting :
       waiting[i].kind = waiting[j].kind /\ waiting[i].kind \in Single => i = j
  /\ polling <=> Has(waiting, "poll")
  /\ sessionBusy <=> Has(waiting, "session")

\* Requests after which the buttons are set to what fits the state.
Syncs(t) == t.at \in Refreshes \cup {"inspect"} \/ t.kind = "select"

ButtonsInv ==
  \/ disabled = Disabled(activeRunId, starting, sessionBusy)
  \/ \E i \in DOMAIN waiting : Syncs(waiting[i])

\* Requests after which the screen shows the selected session, and those after which it
\* shows another and nobody knows that this is late.
Covers(t, s) == (t.at \in Refreshes /\ t.of = s) \/ (t.at = "list" /\ t.kind = "select")
Stale(t, s) == t.at \in Refreshes /\ t.of # s /\ ~t.late

ShownInv ==
  /\ shown = sessionId \/ late \/ \E i \in DOMAIN waiting : Covers(waiting[i], sessionId)
  /\ \A i \in DOMAIN waiting : Stale(waiting[i], sessionId) =>
       \E j \in DOMAIN waiting : j > i /\ Covers(waiting[j], sessionId)

PageInv == AskedInv /\ (failures = 0 => ButtonsInv /\ ShownInv)

-----------------------------------------------------------------------------
\* What becomes of the sequence of requests.

Same(t, u) ==
  /\ t.kind = u.kind /\ t.at = u.at /\ t.of = u.of /\ t.for = u.for
  /\ t.got = u.got /\ t.seen = u.seen /\ (u.late => t.late)

\* v is w without what was at i, if there was something, and with what is in next.
Left(w, i) == IF i \in DOMAIN w THEN Len(w) - 1 ELSE Len(w)
Origin(i, k) == IF k < i THEN k ELSE k + 1
Place(i, j) == IF j < i THEN j ELSE j - 1

Gone(w, v, i, next) ==
  /\ v \in Seq(Request) /\ Len(v) = Left(w, i) + Len(next)
  /\ \A k \in 1 .. Left(w, i) : Same(v[k], w[Origin(i, k)])
  /\ next # <<>> => v[Left(w, i) + 1] = next[1]

LEMMA Concat ==
  ASSUME NEW S, NEW a \in Seq(S), NEW b \in Seq(S)
  PROVE  /\ a \o b \in Seq(S) /\ Len(a \o b) = Len(a) + Len(b)
         /\ \A k \in 1 .. Len(a) + Len(b) :
              (a \o b)[k] = IF k <= Len(a) THEN a[k] ELSE b[k - Len(a)]
BY ConcatProperties, Zenon

\* An answer is used, and something else is perhaps asked for.
LEMMA WithoutIsGone ==
  ASSUME NEW w \in Seq(Request), NEW i \in DOMAIN w, NEW next \in Seq(Request),
         NEW r \in Seq(Request), Len(r) = Len(w), \A j \in DOMAIN w : Same(r[j], w[j])
  PROVE  LET v == SubSeq(r, 1, i - 1) \o SubSeq(r, i + 1, Len(r)) \o next
         IN  /\ Gone(w, v, i, next)
             /\ \A k \in 1 .. Left(w, i) : v[k] = r[Origin(i, k)]
<1> DEFINE a == SubSeq(r, 1, i - 1) b == SubSeq(r, i + 1, Len(r)) v == a \o b \o next
<1>1. /\ i \in 1 .. Len(r) /\ Len(r) \in Nat /\ i \in Nat /\ Left(w, i) = Len(r) - 1
  BY DEF Left
<1>2. /\ a \in Seq(Request) /\ Len(a) = i - 1
      /\ \A k \in 1 .. i - 1 : a[k] = r[k]
  BY <1>1
<1>3. /\ b \in Seq(Request) /\ Len(b) = Len(r) - i
      /\ \A k \in 1 .. Len(r) - i : b[k] = r[k + i]
  <2>1. b \in Seq(Request)
    BY <1>1
  <2>2. Len(b) = Len(r) - i
    BY <1>1
  <2>3. ASSUME NEW k \in 1 .. Len(r) - i PROVE b[k] = r[k + i]
    BY <1>1
  <2>4. QED BY <2>1, <2>2, <2>3
<1> HIDE DEF a, b
<1>4. a \o b \in Seq(Request) /\ Len(a \o b) = Len(r) - 1
  BY <1>1, <1>2, <1>3
<1>5. ASSUME NEW k \in 1 .. Len(r) - 1 PROVE (a \o b)[k] = r[Origin(i, k)]
  <2>1. CASE k < i
    BY <1>1, <1>2, <1>3, <2>1 DEF Origin
  <2>2. CASE ~(k < i)
    <3>1. k - (i - 1) \in 1 .. Len(r) - i /\ k \in Nat
      BY <1>1, <2>2
    <3>2. (a \o b)[k] = b[k - (i - 1)]
      <4>1. k \in 1 .. Len(a) + Len(b) /\ ~(k <= Len(a)) /\ Len(a) = i - 1
        BY <1>1, <1>2, <1>3, <2>2
      <4>2. (a \o b)[k] = IF k <= Len(a) THEN a[k] ELSE b[k - Len(a)]
        BY ONLY <1>2, <1>3, <4>1, Concat, Zenon
      <4>3. QED BY <4>1, <4>2
    <3>3. k - (i - 1) + i = k + 1
      BY <1>1
    <3>4. QED BY <1>3, <2>2, <3>1, <3>2, <3>3 DEF Origin
  <2>3. QED BY <2>1, <2>2
<1>6. /\ v \in Seq(Request) /\ Len(v) = Len(r) - 1 + Len(next)
      /\ \A k \in 1 .. Len(r) - 1 : v[k] = (a \o b)[k]
      /\ next # <<>> => v[Len(r)] = next[1]
  <2> DEFINE c == a \o b
  <2>1. c \in Seq(Request) /\ Len(c) = Len(r) - 1
    BY <1>4
  <2> HIDE DEF c
  <2>2. /\ c \o next \in Seq(Request) /\ Len(c \o next) = Len(c) + Len(next)
        /\ \A k \in 1 .. Len(c) + Len(next) :
             (c \o next)[k] = IF k <= Len(c) THEN c[k] ELSE next[k - Len(c)]
    BY ONLY next \in Seq(Request), <2>1, Concat, Zenon
  <2>3. Len(next) \in Nat /\ Len(r) \in Nat /\ (next # <<>> => Len(next) >= 1)
    OBVIOUS
  <2>4. next # <<>> => (c \o next)[Len(r)] = next[1]
    <3>1. Len(r) - Len(c) = 1 /\ ~(Len(r) <= Len(c))
      BY <2>1, <2>3
    <3>2. next # <<>> => Len(r) \in 1 .. Len(c) + Len(next)
      BY <1>1, <2>1, <2>3
    <3>3. QED BY <2>2, <3>1, <3>2
  <2>5. QED BY <2>1, <2>2, <2>3, <2>4 DEF c
<1>7. ASSUME NEW k \in 1 .. Len(r) - 1
      PROVE  v[k] = r[Origin(i, k)] /\ Same(v[k], w[Origin(i, k)])
  <2>1. Origin(i, k) \in DOMAIN w
    BY <1>1 DEF Origin
  <2>2. QED BY <1>5, <1>6, <2>1
<1> HIDE DEF v
<1>8. Gone(w, v, i, next) /\ \A k \in 1 .. Left(w, i) : v[k] = r[Origin(i, k)]
  BY <1>1, <1>6, <1>7 DEF Gone
<1>9. QED BY <1>8 DEF v, a, b

\* Somebody asks for something.
LEMMA ThenIsGone ==
  ASSUME NEW w \in Seq(Request), NEW next \in Seq(Request)
  PROVE  Gone(w, w \o next, Len(w) + 1, next)
<1>1. Left(w, Len(w) + 1) = Len(w) /\ Len(w) \in Nat
  BY DEF Left
<1>2. \A k \in 1 .. Len(w) : Origin(Len(w) + 1, k) = k /\ (w \o next)[k] = w[k]
  BY <1>1 DEF Origin
<1>3. QED BY <1>1, <1>2 DEF Gone, Same

\* Requests are as they were, but for what was answered.
LEMMA AlikeIsGone ==
  ASSUME NEW w \in Seq(Request), NEW r \in Seq(Request), Len(r) = Len(w),
         \A j \in DOMAIN w : Same(r[j], w[j])
  PROVE  Gone(w, r, Len(w) + 1, <<>>)
<1>1. Left(w, Len(w) + 1) = Len(w) /\ Len(w) \in Nat
  BY DEF Left
<1>2. \A k \in 1 .. Len(w) : Origin(Len(w) + 1, k) = k /\ k \in DOMAIN w
  BY <1>1 DEF Origin
<1>3. QED BY <1>1, <1>2 DEF Gone

\* Where requests went, and where they came from.
LEMMA GoneMaps ==
  ASSUME NEW w \in Seq(Request), NEW v, NEW i \in 1 .. Len(w) + 1,
         NEW next \in Seq(Request), Len(next) <= 1, Gone(w, v, i, next)
  PROVE  /\ \A k \in DOMAIN v :
              \/ next = <<v[k]>> /\ k = Len(v)
              \/ /\ Origin(i, k) \in DOMAIN w \ {i} /\ k \in 1 .. Left(w, i)
                 /\ Place(i, Origin(i, k)) = k
                 /\ Same(v[k], w[Origin(i, k)])
         /\ \A j \in DOMAIN w \ {i} :
              Place(i, j) \in DOMAIN v /\ Same(v[Place(i, j)], w[j])
         /\ next # <<>> => /\ Len(v) \in DOMAIN v /\ v[Len(v)] = next[1]
                           /\ \A k \in DOMAIN v : k <= Len(v)
                           /\ \A j \in DOMAIN w \ {i} : Place(i, j) < Len(v)
<1> DEFINE n == Left(w, i)
<1>1. /\ Len(w) \in Nat /\ n \in Nat /\ i \in Nat /\ Len(next) \in {0, 1}
      /\ i \in DOMAIN w => n = Len(w) - 1
      /\ i \notin DOMAIN w => n = Len(w) /\ i = Len(w) + 1
  <2>1. Len(w) \in Nat /\ Len(next) \in Nat /\ DOMAIN w = 1 .. Len(w)
    OBVIOUS
  <2> DEFINE l == Len(w) m == Len(next)
  <2>2. l \in Nat /\ m \in Nat /\ m <= 1 /\ i \in 1 .. l + 1 /\ DOMAIN w = 1 .. l
    BY <2>1
  <2>3. n = IF i \in DOMAIN w THEN l - 1 ELSE l
    BY DEF Left
  <2> HIDE DEF l, m, n
  <2>4. m \in {0, 1}
    BY ONLY <2>2
  <2>5. /\ l \in Nat /\ n \in Nat /\ i \in Nat
        /\ i \in DOMAIN w => n = l - 1
        /\ i \notin DOMAIN w => n = l /\ i = l + 1
    BY ONLY <2>2, <2>3
  <2>6. QED BY <2>4, <2>5 DEF l, m
<1>2. next # <<>> => Len(next) = 1 /\ next = <<next[1]>>
  BY <1>1
<1>3. Len(v) = n + Len(next) /\ DOMAIN v = 1 .. Len(v)
  BY DEF Gone
<1> HIDE DEF n
<1>4. ASSUME NEW k \in 1 .. n
      PROVE  /\ Origin(i, k) \in DOMAIN w \ {i} /\ Place(i, Origin(i, k)) = k
             /\ Same(v[k], w[Origin(i, k)])
  <2>1. Same(v[k], w[Origin(i, k)])
    BY DEF Gone, n
  <2>2. Origin(i, k) \in 1 .. Len(w) /\ Origin(i, k) # i /\ Place(i, Origin(i, k)) = k
    BY <1>1 DEF Origin, Place
  <2>3. QED BY <2>1, <2>2
<1>5. ASSUME NEW j \in DOMAIN w \ {i}
      PROVE  Place(i, j) \in 1 .. n /\ Origin(i, Place(i, j)) = j
  BY <1>1 DEF Origin, Place
<1>6. ASSUME NEW k \in DOMAIN v, k \notin 1 .. n PROVE next = <<v[k]>> /\ k = Len(v)
  <2>1. k = n + 1 /\ Len(next) = 1 /\ next # <<>>
    BY <1>1, <1>3, <1>6
  <2>2. v[n + 1] = next[1]
    BY <2>1 DEF Gone, n
  <2>3. QED BY <1>2, <1>3, <2>1, <2>2
<1>7. ASSUME next # <<>>
      PROVE  /\ Len(v) = n + 1 /\ v[n + 1] = next[1]
  BY <1>2, <1>3, <1>7 DEF Gone, n
<1>8. \A j \in DOMAIN w \ {i} : Place(i, j) \in DOMAIN v /\ Same(v[Place(i, j)], w[j])
  BY <1>1, <1>3, <1>4, <1>5
<1>9. next # <<>> => /\ Len(v) \in DOMAIN v /\ v[Len(v)] = next[1]
                    /\ \A k \in DOMAIN v : k <= Len(v)
                    /\ \A j \in DOMAIN w \ {i} : Place(i, j) < Len(v)
  BY <1>1, <1>3, <1>5, <1>7
<1>10. QED BY <1>4, <1>6, <1>8, <1>9 DEF n

-----------------------------------------------------------------------------
\* A step uses the answer at i, or none, and asks for what is in next.

\* What is asked for fits, and no second of those that are alone.
AskedStep(i, next) ==
  /\ next # <<>> =>
       /\ Belongs(next[1], made')
       /\ next[1].kind \in Single =>
            \/ i \in DOMAIN waiting /\ waiting[i].kind = next[1].kind
            \/ ~Has(waiting, next[1].kind)
  /\ made \subseteq made' /\ listed' \subseteq made'

\* Whether one of the kind is still there.
Stays(i, next, kind) ==
  \/ next # <<>> /\ next[1].kind = kind
  \/ Has(waiting, kind) /\ ~(i \in DOMAIN waiting /\ waiting[i].kind = kind)

ButtonsStep(i, next) ==
  \/ disabled' = Disabled(activeRunId', starting', sessionBusy')
  \/ next # <<>> /\ Syncs(next[1])
  \/ /\ UNCHANGED <<disabled, activeRunId, starting, sessionBusy>>
     /\ i \in DOMAIN waiting => ~Syncs(waiting[i])

ShownStep(i, next) ==
  /\ next # <<>> /\ next[1].at \in Refreshes => next[1].of = sessionId'
  /\ \/ next # <<>> /\ Covers(next[1], sessionId')
     \/ /\ UNCHANGED <<sessionId, shown, late>>
        /\ i \in DOMAIN waiting => ~Covers(waiting[i], sessionId)
     \/ /\ i \in DOMAIN waiting /\ waiting[i].at \in Refreshes
        /\ sessionId' = sessionId /\ shown' = waiting[i].of /\ late' = waiting[i].late
        /\ \A k \in 1 .. Left(waiting, i) :
             LET j == Origin(i, k) IN
             j < i /\ waiting[j].at \in Refreshes => waiting'[k].late

Handled(i, next) ==
  /\ i \in 1 .. Len(waiting) + 1 /\ next \in Seq(Request) /\ Len(next) <= 1
  /\ Gone(waiting, waiting', i, next)
  /\ AskedStep(i, next)
  /\ polling' <=> Stays(i, next, "poll")
  /\ sessionBusy' <=> Stays(i, next, "session")
  /\ failures' = 0 => failures = 0 /\ ButtonsStep(i, next) /\ ShownStep(i, next)

\* The types of everything but the requests.
OtherTypes ==
  /\ made \subseteq Sessions /\ over \subseteq Runs
  /\ home \in [Runs -> Sessions \cup {None}]
  /\ sessionId \in Sessions \cup {None} /\ activeRunId \in Runs \cup {None}
  /\ starting \in BOOLEAN /\ sessionBusy \in BOOLEAN /\ polling \in BOOLEAN
  /\ listed \subseteq Sessions /\ shown \in Sessions \cup {None} /\ late \in BOOLEAN
  /\ disabled \subseteq {"send", "new", "cancel"}
  /\ clicks \in 0 .. MaxClicks /\ failures \in 0 .. MaxFailures

LEMMA AskedKept ==
  ASSUME AskedInv, NEW i, NEW next, Handled(i, next), OtherTypes'
  PROVE  AskedInv'
<1> DEFINE w == waiting v == waiting'
<1>1. /\ w \in Seq(Request) /\ i \in 1 .. Len(w) + 1 /\ next \in Seq(Request)
      /\ Len(next) <= 1 /\ Gone(w, v, i, next)
  BY DEF Handled, AskedInv, TypeOK
<1>2. /\ \A k \in DOMAIN v :
           \/ next = <<v[k]>> /\ k = Len(v)
           \/ /\ Origin(i, k) \in DOMAIN w \ {i} /\ Place(i, Origin(i, k)) = k
              /\ Same(v[k], w[Origin(i, k)])
      /\ \A j \in DOMAIN w \ {i} : Place(i, j) \in DOMAIN v /\ Same(v[Place(i, j)], w[j])
      /\ next # <<>> => Len(v) \in DOMAIN v /\ v[Len(v)] = next[1]
  BY <1>1, GoneMaps
<1> HIDE DEF w, v
<1>3. TypeOK'
  BY <1>1 DEF OtherTypes, TypeOK, Gone, v
<1>4. ASSUME NEW k \in DOMAIN v PROVE Belongs(v[k], made')
  <2>1. CASE next = <<v[k]>>
    <3>1. next # <<>> /\ next[1] = v[k]
      BY <2>1
    <3>2. QED BY <3>1 DEF Handled, AskedStep
  <2>2. CASE Origin(i, k) \in DOMAIN w /\ Same(v[k], w[Origin(i, k)])
    <3>1. Belongs(w[Origin(i, k)], made) /\ made \subseteq made'
      BY <2>2 DEF AskedInv, w, Handled, AskedStep
    <3>2. QED BY <2>2, <3>1 DEF Belongs, Same
  <2>3. QED BY <1>2, <2>1, <2>2
<1>5. ASSUME NEW k \in DOMAIN v, NEW l \in DOMAIN v,
             v[k].kind = v[l].kind, v[k].kind \in Single
      PROVE  k = l
  <2> DEFINE Old(m) == /\ Origin(i, m) \in DOMAIN w \ {i} /\ Place(i, Origin(i, m)) = m
                       /\ Same(v[m], w[Origin(i, m)])
             Brand(m) == next = <<v[m]>> /\ m = Len(v)
  <2>1. (Brand(k) \/ Old(k)) /\ (Brand(l) \/ Old(l))
    BY <1>2
  <2>2. CASE Old(k) /\ Old(l)
    BY <1>5, <2>2 DEF AskedInv, w, Same
  <2>3. ASSUME NEW m \in DOMAIN v, NEW n \in DOMAIN v, v[m].kind = v[n].kind,
               v[m].kind \in Single, Brand(m), Old(n)
        PROVE  FALSE
    <3>1. next # <<>> /\ next[1].kind = v[n].kind /\ next[1].kind \in Single
      BY <2>3
    <3>2. w[Origin(i, n)].kind = next[1].kind
      BY <2>3, <3>1 DEF Same
    <3>3. i \in DOMAIN w /\ w[i].kind = next[1].kind
      BY <2>3, <3>1, <3>2 DEF Handled, AskedStep, Has, w
    <3>4. QED BY <2>3, <3>1, <3>2, <3>3 DEF AskedInv, w
  <2>4. QED BY <1>5, <2>1, <2>2, <2>3
<1>6. ASSUME NEW kind \in Single PROVE Has(v, kind) <=> Stays(i, next, kind)
  <2>1. ASSUME Has(v, kind) PROVE Stays(i, next, kind)
    <3>1. PICK k \in DOMAIN v : v[k].kind = kind
      BY <2>1 DEF Has
    <3>2. CASE next = <<v[k]>>
      BY <3>1, <3>2 DEF Stays
    <3>3. CASE Origin(i, k) \in DOMAIN w \ {i} /\ Same(v[k], w[Origin(i, k)])
      <4>1. w[Origin(i, k)].kind = kind
        BY <3>1, <3>3 DEF Same
      <4>2. Has(w, kind) /\ ~(i \in DOMAIN w /\ w[i].kind = kind)
        BY <3>3, <4>1 DEF Has, AskedInv, w
      <4>3. QED BY <4>2 DEF Stays, w
    <3>4. QED BY <1>2, <3>2, <3>3
  <2>2. ASSUME Stays(i, next, kind) PROVE Has(v, kind)
    <3>1. CASE next # <<>> /\ next[1].kind = kind
      BY <1>2, <3>1 DEF Has
    <3>2. CASE Has(w, kind) /\ ~(i \in DOMAIN w /\ w[i].kind = kind)
      <4>1. PICK j \in DOMAIN w : w[j].kind = kind
        BY <3>2 DEF Has
      <4>2. j # i
        BY <3>2, <4>1
      <4>3. QED BY <1>2, <4>1, <4>2 DEF Has, Same
    <3>3. QED BY <2>2, <3>1, <3>2 DEF Stays, w
  <2>3. QED BY <2>1, <2>2
<1>7. QED BY <1>3, <1>4, <1>5, <1>6 DEF AskedInv, v, Handled, AskedStep, Single

LEMMA ButtonsKept ==
  ASSUME AskedInv, ButtonsInv, NEW i, NEW next, Handled(i, next), failures' = 0
  PROVE  ButtonsInv'
<1> DEFINE w == waiting v == waiting'
<1>1. /\ w \in Seq(Request) /\ i \in 1 .. Len(w) + 1 /\ next \in Seq(Request)
      /\ Len(next) <= 1 /\ Gone(w, v, i, next) /\ ButtonsStep(i, next)
  BY DEF Handled, AskedInv, TypeOK
<1>2. /\ \A j \in DOMAIN w \ {i} : Place(i, j) \in DOMAIN v /\ Same(v[Place(i, j)], w[j])
      /\ next # <<>> => Len(v) \in DOMAIN v /\ v[Len(v)] = next[1]
  BY <1>1, GoneMaps
<1> HIDE DEF w, v
<1>3. CASE next # <<>> /\ Syncs(next[1])
  BY <1>2, <1>3 DEF ButtonsInv, v
<1>4. CASE /\ UNCHANGED <<disabled, activeRunId, starting, sessionBusy>>
           /\ i \in DOMAIN w => ~Syncs(w[i])
  <2>1. ASSUME NEW j \in DOMAIN w, Syncs(w[j]) PROVE \E k \in DOMAIN v : Syncs(v[k])
    <3>1. j # i
      BY <1>4, <2>1
    <3>2. QED BY <1>2, <2>1, <3>1 DEF Same, Syncs
  <2>2. QED BY <1>4, <2>1 DEF ButtonsInv, w, v
<1>5. QED BY <1>1, <1>3, <1>4 DEF ButtonsStep, ButtonsInv, w, v

LEMMA ShownKept ==
  ASSUME AskedInv, ShownInv, NEW i, NEW next, Handled(i, next), failures' = 0
  PROVE  ShownInv'
<1> DEFINE w == waiting v == waiting'
<1>1. /\ w \in Seq(Request) /\ i \in 1 .. Len(w) + 1 /\ next \in Seq(Request)
      /\ Len(next) <= 1 /\ Gone(w, v, i, next) /\ ShownStep(i, next)
      /\ v \in Seq(Request) /\ Len(v) \in Nat
  BY DEF Handled, AskedInv, TypeOK, Gone
<1>2. /\ \A k \in DOMAIN v :
           \/ next = <<v[k]>> /\ k = Len(v)
           \/ /\ Origin(i, k) \in DOMAIN w \ {i} /\ k \in 1 .. Left(w, i)
              /\ Place(i, Origin(i, k)) = k
              /\ Same(v[k], w[Origin(i, k)])
      /\ \A j \in DOMAIN w \ {i} : Place(i, j) \in DOMAIN v /\ Same(v[Place(i, j)], w[j])
      /\ next # <<>> => /\ Len(v) \in DOMAIN v /\ v[Len(v)] = next[1]
                        /\ \A k \in DOMAIN v : k <= Len(v)
                        /\ \A j \in DOMAIN w \ {i} : Place(i, j) < Len(v)
  BY <1>1, GoneMaps
<1>0. /\ i \in Nat /\ DOMAIN w \subseteq Nat /\ DOMAIN v \subseteq Nat
      /\ \A j, k \in DOMAIN w \ {i} : j < k => Place(i, j) < Place(i, k)
  BY <1>1 DEF Place
<1> HIDE DEF w, v
<1>3. ASSUME NEW k \in DOMAIN v, Stale(v[k], sessionId')
      PROVE  /\ Origin(i, k) \in DOMAIN w \ {i} /\ k \in 1 .. Left(w, i)
             /\ Place(i, Origin(i, k)) = k
             /\ w[Origin(i, k)].at \in Refreshes /\ w[Origin(i, k)].of # sessionId'
             /\ ~w[Origin(i, k)].late
  <2>1. next # <<v[k]>>
    <3>1. CASE next = <<v[k]>>
      <4>1. next # <<>> /\ next[1] = v[k]
        BY <3>1
      <4>2. QED BY <1>1, <1>3, <4>1 DEF ShownStep, Stale
    <3>2. QED BY <3>1
  <2>2. QED BY <1>2, <1>3, <2>1 DEF Stale, Same
<1>4. CASE next # <<>> /\ Covers(next[1], sessionId')
  <2>1. Len(v) \in DOMAIN v /\ Covers(v[Len(v)], sessionId')
    BY <1>2, <1>4
  <2>2. ASSUME NEW k \in DOMAIN v, Stale(v[k], sessionId') PROVE Len(v) > k
    BY <1>0, <1>1, <1>2, <1>3, <1>4, <2>2
  <2>3. QED BY <2>1, <2>2 DEF ShownInv, v
<1>5. ASSUME NEW j \in DOMAIN w \ {i}, Covers(w[j], sessionId), sessionId' = sessionId
      PROVE  Place(i, j) \in DOMAIN v /\ Covers(v[Place(i, j)], sessionId')
  BY <1>2, <1>5 DEF Covers, Same
<1>6. CASE /\ UNCHANGED <<sessionId, shown, late>>
           /\ i \in DOMAIN w => ~Covers(w[i], sessionId)
  <2>1. ASSUME NEW j \in DOMAIN w, Covers(w[j], sessionId)
        PROVE  j \in DOMAIN w \ {i}
    BY <1>6, <2>1
  <2>2. shown' = sessionId' \/ late' \/ \E k \in DOMAIN v : Covers(v[k], sessionId')
    BY <1>5, <1>6, <2>1 DEF ShownInv, w
  <2>3. ASSUME NEW k \in DOMAIN v, Stale(v[k], sessionId')
        PROVE  \E l \in DOMAIN v : l > k /\ Covers(v[l], sessionId')
    <3>1. Stale(w[Origin(i, k)], sessionId) /\ Origin(i, k) \in DOMAIN w
      BY <1>3, <1>6, <2>3 DEF Stale
    <3>2. PICK j \in DOMAIN w : j > Origin(i, k) /\ Covers(w[j], sessionId)
      BY <3>1 DEF ShownInv, w
    <3>3. Place(i, j) \in DOMAIN v /\ Covers(v[Place(i, j)], sessionId')
      BY <1>5, <1>6, <2>1, <3>2
    <3>4. Place(i, j) > k
      BY <1>0, <1>3, <2>1, <2>3, <3>2
    <3>5. QED BY <3>3, <3>4
  <2>4. QED BY <2>2, <2>3 DEF ShownInv, v
<1>7. CASE /\ i \in DOMAIN w /\ w[i].at \in Refreshes
           /\ sessionId' = sessionId /\ shown' = w[i].of /\ late' = w[i].late
           /\ \A k \in 1 .. Left(w, i) :
                Origin(i, k) < i /\ w[Origin(i, k)].at \in Refreshes => v[k].late
  <2>1. ASSUME NEW j \in DOMAIN w, j > i, Covers(w[j], sessionId)
        PROVE  Place(i, j) \in DOMAIN v /\ Covers(v[Place(i, j)], sessionId')
    BY <1>0, <1>5, <1>7, <2>1
  <2>2. shown' = sessionId' \/ late' \/ \E k \in DOMAIN v : Covers(v[k], sessionId')
    <3>1. ASSUME shown' # sessionId', ~late' PROVE Stale(w[i], sessionId)
      BY <1>7, <3>1 DEF Stale
    <3>2. QED BY <1>7, <2>1, <3>1 DEF ShownInv, w
  <2>3. ASSUME NEW k \in DOMAIN v, Stale(v[k], sessionId')
        PROVE  \E l \in DOMAIN v : l > k /\ Covers(v[l], sessionId')
    <3>1. Stale(w[Origin(i, k)], sessionId) /\ Origin(i, k) \in DOMAIN w \ {i}
      BY <1>3, <1>7, <2>3 DEF Stale
    <3>2. ~(Origin(i, k) < i)
      BY <1>3, <1>7, <2>3 DEF Stale
    <3>3. PICK j \in DOMAIN w : j > Origin(i, k) /\ Covers(w[j], sessionId)
      BY <3>1 DEF ShownInv, w
    <3>4. j > i
      BY <1>0, <3>1, <3>2, <3>3
    <3>5. Place(i, j) > k
      BY <1>0, <1>3, <2>3, <3>1, <3>3, <3>4
    <3>6. QED BY <2>1, <3>3, <3>4, <3>5
  <2>4. QED BY <2>2, <2>3 DEF ShownInv, v
<1>8. QED BY <1>1, <1>4, <1>6, <1>7 DEF ShownStep, w, v

\* The invariant is kept by a step that handles one request at most.
LEMMA HandledKeeps ==
  ASSUME PageInv, NEW i, NEW next, Handled(i, next), OtherTypes'
  PROVE  PageInv'
<1>1. AskedInv'
  BY AskedKept DEF PageInv
<1>2. ASSUME failures' = 0 PROVE ButtonsInv' /\ ShownInv'
  <2>1. failures = 0
    BY <1>2 DEF Handled
  <2>2. QED BY <1>2, <2>1, ButtonsKept, ShownKept DEF PageInv
<1>3. QED BY <1>1, <1>2 DEF PageInv

-----------------------------------------------------------------------------
\* What the handlers do.

LEMMA AskFields ==
  ASSUME NEW k, NEW a, NEW f
  PROVE  /\ Ask(k, a, f).kind = k /\ Ask(k, a, f).at = a /\ Ask(k, a, f).for = f
         /\ Ask(k, a, f).of = sessionId' /\ ~Ask(k, a, f).late
BY DEF Ask

LEMMA AskTypes ==
  ASSUME NEW k \in Kinds, NEW a \in Places, NEW f \in Sessions \cup Runs \cup {None, "running", "over"},
         sessionId' \in Sessions \cup {None}
  PROVE  Ask(k, a, f) \in Request
BY DEF Ask, Request

\* What is known of a request that is answered.
LEMMA RequestFacts ==
  ASSUME AskedInv, NEW i \in DOMAIN waiting
  PROVE  /\ waiting \in Seq(Request) /\ i \in 1 .. Len(waiting)
         /\ waiting[i] \in Request /\ Belongs(waiting[i], made)
         /\ waiting[i].kind = "poll" => polling
         /\ waiting[i].kind = "session" => sessionBusy
BY DEF AskedInv, TypeOK, Has

LEMMA GoesIsGone ==
  ASSUME AskedInv, NEW i \in DOMAIN waiting, NEW next \in Seq(Request), Goes(i, next)
  PROVE  Gone(waiting, waiting', i, next)
<1>1. waiting \in Seq(Request) /\ \A j \in DOMAIN waiting : Same(waiting[j], waiting[j])
  BY DEF AskedInv, TypeOK, Same
<1>2. QED BY <1>1, WithoutIsGone DEF Goes, Without

\* Records are shown, and what was asked for before them is late from now on.
LEMMA RenderIsGone ==
  ASSUME AskedInv, NEW i \in DOMAIN waiting, NEW next \in Seq(Request), Render(i, next)
  PROVE  /\ Gone(waiting, waiting', i, next)
         /\ shown' = waiting[i].of /\ late' = waiting[i].late
         /\ \A k \in 1 .. Left(waiting, i) :
              LET j == Origin(i, k) IN
              j < i /\ waiting[j].at \in Refreshes => waiting'[k].late
<1> DEFINE r == [j \in DOMAIN waiting |-> [waiting[j] EXCEPT !.late = @ \/ j \in Overtaken(i)]]
<1>1. waiting \in Seq(Request) /\ i \in 1 .. Len(waiting) /\ Len(waiting) \in Nat
  BY RequestFacts
<1>2. ASSUME NEW j \in DOMAIN waiting
      PROVE  /\ r[j] \in Request /\ Same(r[j], waiting[j])
             /\ r[j].late = (waiting[j].late \/ j \in Overtaken(i))
  <2>1. waiting[j] \in Request
    BY <1>1
  <2>2. QED BY <2>1 DEF Request, Same
<1>3. r \in Seq(Request) /\ Len(r) = Len(waiting)
  <2>1. DOMAIN r = 1 .. Len(waiting)
    BY <1>1
  <2>2. r = [j \in 1 .. Len(waiting) |-> r[j]]
    BY <1>1
  <2> HIDE DEF r
  <2>3. \A j \in 1 .. Len(waiting) : r[j] \in Request
    BY <1>1, <1>2
  <2>4. r \in [1 .. Len(waiting) -> Request]
    BY <2>2, <2>3
  <2>5. r \in Seq(Request)
    BY <1>1, <2>4
  <2>6. QED BY <1>1, <2>1, <2>5
<1>4. /\ shown' = waiting[i].of /\ late' = waiting[i].late
      /\ waiting' = SubSeq(r, 1, i - 1) \o SubSeq(r, i + 1, Len(r)) \o next
  BY DEF Render
<1> HIDE DEF r
<1>5. /\ Gone(waiting, waiting', i, next)
      /\ \A k \in 1 .. Left(waiting, i) : waiting'[k] = r[Origin(i, k)]
  BY <1>1, <1>2, <1>3, <1>4, WithoutIsGone
<1>6. ASSUME NEW k \in 1 .. Left(waiting, i), Origin(i, k) < i,
             waiting[Origin(i, k)].at \in Refreshes
      PROVE  waiting'[k].late
  <2>1. Origin(i, k) \in DOMAIN waiting
    BY <1>1, <1>6 DEF Origin, Left
  <2>2. Origin(i, k) \in Overtaken(i)
    BY <1>6, <2>1 DEF Overtaken
  <2>3. QED BY <1>2, <1>5, <2>1, <2>2
<1>7. QED BY <1>4, <1>5, <1>6

\* A handler goes on to its next request, here and below with or without new records on
\* the screen.
LEMMA GoesOn ==
  ASSUME PageInv, OtherTypes', NEW i \in DOMAIN waiting,
         NEW k \in Kinds, NEW a \in Places,
         NEW f \in Sessions \cup Runs \cup {None, "running", "over"},
         Goes(i, <<Ask(k, a, f)>>) \/ Render(i, <<Ask(k, a, f)>>),
         Belongs(Ask(k, a, f), made'),
         k \in Single => waiting[i].kind = k \/ ~Has(waiting, k),
         made \subseteq made', listed' \subseteq made',
         polling' <=> k = "poll" \/ (polling /\ waiting[i].kind # "poll"),
         sessionBusy' <=> k = "session" \/ (sessionBusy /\ waiting[i].kind # "session"),
         failures' = failures \/ failures' # 0,
         \/ disabled' = Disabled(activeRunId', starting', sessionBusy')
         \/ a \in Refreshes \cup {"inspect"} \/ k = "select"
         \/ /\ UNCHANGED <<disabled, activeRunId, starting, sessionBusy>>
            /\ ~Syncs(waiting[i]),
         \/ a \in Refreshes \/ (a = "list" /\ k = "select")
         \/ UNCHANGED <<sessionId, shown, late>> /\ ~Covers(waiting[i], sessionId)
         \/ /\ Render(i, <<Ask(k, a, f)>>)
            /\ waiting[i].at \in Refreshes /\ sessionId' = sessionId
  PROVE  PageInv'
<1> DEFINE e == Ask(k, a, f) next == <<e>>
<1>1. e \in Request /\ e.kind = k /\ e.at = a /\ e.of = sessionId'
  BY AskFields, AskTypes DEF OtherTypes
<1> HIDE DEF e
<1>2. next \in Seq(Request) /\ Len(next) <= 1 /\ next # <<>> /\ next[1] = e
  BY <1>1
<1>3. AskedInv /\ i \in 1 .. Len(waiting) + 1 /\ i \in DOMAIN waiting
  BY RequestFacts DEF PageInv
<1>4. Goes(i, next) \/ Render(i, next)
  BY DEF e
<1> HIDE DEF next
<1>5. Gone(waiting, waiting', i, next)
  BY <1>2, <1>3, <1>4, GoesIsGone, RenderIsGone
<1>6. AskedStep(i, next)
  BY <1>1, <1>2, <1>3 DEF AskedStep, e
<1>7. polling' <=> Stays(i, next, "poll")
  BY <1>1, <1>2, <1>3 DEF Stays, AskedInv
<1>8. sessionBusy' <=> Stays(i, next, "session")
  BY <1>1, <1>2, <1>3 DEF Stays, AskedInv
<1>9. ButtonsStep(i, next)
  BY <1>1, <1>2, <1>3 DEF ButtonsStep, Syncs
<1>10. ShownStep(i, next)
  <2>1. CASE a \in Refreshes \/ (a = "list" /\ k = "select")
    BY <1>1, <1>2, <2>1 DEF ShownStep, Covers
  <2>2. CASE UNCHANGED <<sessionId, shown, late>> /\ ~Covers(waiting[i], sessionId)
    BY <1>1, <1>2, <2>2 DEF ShownStep
  <2>3. CASE /\ Render(i, <<Ask(k, a, f)>>)
             /\ waiting[i].at \in Refreshes /\ sessionId' = sessionId
    <3>1. Render(i, next)
      BY <2>3 DEF next, e
    <3>2. QED BY <1>1, <1>2, <1>3, <2>3, <3>1, RenderIsGone DEF ShownStep
  <2>4. QED BY <2>1, <2>2, <2>3
<1>11. QED
  BY <1>2, <1>3, <1>5, <1>6, <1>7, <1>8, <1>9, <1>10, HandledKeeps DEF Handled

\* A handler is done.
LEMMA IsDone ==
  ASSUME PageInv, OtherTypes', NEW i \in DOMAIN waiting, Goes(i, <<>>) \/ Render(i, <<>>),
         made \subseteq made', listed' \subseteq made',
         polling' <=> polling /\ waiting[i].kind # "poll",
         sessionBusy' <=> sessionBusy /\ waiting[i].kind # "session",
         \/ failures' # 0
         \/ /\ failures' = failures
            /\ \/ disabled' = Disabled(activeRunId', starting', sessionBusy')
               \/ /\ UNCHANGED <<disabled, activeRunId, starting, sessionBusy>>
                  /\ ~Syncs(waiting[i])
            /\ \/ UNCHANGED <<sessionId, shown, late>> /\ ~Covers(waiting[i], sessionId)
               \/ /\ Render(i, <<>>)
                  /\ waiting[i].at \in Refreshes /\ sessionId' = sessionId
  PROVE  PageInv'
<1> DEFINE next == <<>>
<1>1. next \in Seq(Request) /\ Len(next) <= 1 /\ next = <<>>
  OBVIOUS
<1>2. AskedInv /\ i \in 1 .. Len(waiting) + 1 /\ i \in DOMAIN waiting
  BY RequestFacts DEF PageInv
<1> HIDE DEF next
<1>3. Gone(waiting, waiting', i, next)
  BY <1>1, <1>2, GoesIsGone, RenderIsGone
<1>4. AskedStep(i, next)
  BY <1>1 DEF AskedStep
<1>5. (polling' <=> Stays(i, next, "poll")) /\ (sessionBusy' <=> Stays(i, next, "session"))
  BY <1>1, <1>2 DEF Stays, AskedInv
<1>6. ASSUME failures' = 0 PROVE failures = 0 /\ ButtonsStep(i, next) /\ ShownStep(i, next)
  <2>1. ButtonsStep(i, next) /\ failures = 0
    BY <1>2, <1>6 DEF ButtonsStep
  <2>2. CASE UNCHANGED <<sessionId, shown, late>> /\ ~Covers(waiting[i], sessionId)
    BY <1>1, <2>1, <2>2 DEF ShownStep
  <2>3. CASE /\ Render(i, <<>>)
             /\ waiting[i].at \in Refreshes /\ sessionId' = sessionId
    BY <1>1, <1>2, <2>1, <2>3, RenderIsGone DEF ShownStep
  <2>4. QED BY <1>6, <2>1, <2>2, <2>3
<1>7. QED BY <1>1, <1>2, <1>3, <1>4, <1>5, <1>6, HandledKeeps DEF Handled

\* The user does something.
LEMMA Begins ==
  ASSUME PageInv, OtherTypes', NEW k \in Kinds, NEW a \in Places,
         NEW f \in Sessions \cup Runs \cup {None, "running", "over"},
         Then(<<Ask(k, a, f)>>),
         Belongs(Ask(k, a, f), made'), k \in Single => ~Has(waiting, k),
         made \subseteq made', listed' \subseteq made',
         polling' <=> k = "poll" \/ polling,
         sessionBusy' <=> k = "session" \/ sessionBusy,
         failures' = failures,
         \/ disabled' = Disabled(activeRunId', starting', sessionBusy')
         \/ /\ UNCHANGED <<disabled, activeRunId, starting, sessionBusy>>
         \/ k = "select",
         UNCHANGED <<sessionId, shown, late>> \/ (a = "list" /\ k = "select")
  PROVE  PageInv'
<1> DEFINE e == Ask(k, a, f) next == <<e>> i == Len(waiting) + 1
<1>1. e \in Request /\ e.kind = k /\ e.at = a /\ e.of = sessionId'
  BY AskFields, AskTypes DEF OtherTypes
<1> HIDE DEF e
<1>2. next \in Seq(Request) /\ Len(next) <= 1 /\ next # <<>> /\ next[1] = e
  BY <1>1
<1>3. AskedInv /\ waiting \in Seq(Request) /\ i \in 1 .. Len(waiting) + 1 /\ i \notin DOMAIN waiting
  BY DEF PageInv, AskedInv, TypeOK
<1>4. waiting' = waiting \o next
  BY DEF Then, e
<1> HIDE DEF next
<1>5. Gone(waiting, waiting', i, next)
  BY <1>2, <1>3, <1>4, ThenIsGone
<1> HIDE DEF i
<1>6. AskedStep(i, next)
  BY <1>1, <1>2, <1>3 DEF AskedStep, e
<1>7. (polling' <=> Stays(i, next, "poll")) /\ (sessionBusy' <=> Stays(i, next, "session"))
  BY <1>1, <1>2, <1>3 DEF Stays, AskedInv
<1>8. ButtonsStep(i, next)
  BY <1>1, <1>2, <1>3 DEF ButtonsStep, Syncs
<1>9. ShownStep(i, next)
  BY <1>1, <1>2, <1>3 DEF ShownStep, Covers
<1>10. QED BY <1>2, <1>3, <1>5, <1>6, <1>7, <1>8, <1>9, HandledKeeps DEF Handled

\* The page does nothing: the daemon answers, or something happens there.
LEMMA PageRests ==
  ASSUME PageInv, OtherTypes', made' = made, failures' = failures, UNCHANGED <<stateVars, screenVars, disabled>>,
         waiting' \in Seq(Request), Len(waiting') = Len(waiting),
         \A j \in DOMAIN waiting : Same(waiting'[j], waiting[j])
  PROVE  PageInv'
<1> DEFINE next == <<>> i == Len(waiting) + 1
<1>1. next \in Seq(Request) /\ Len(next) <= 1 /\ next = <<>>
  OBVIOUS
<1>2. AskedInv /\ waiting \in Seq(Request) /\ i \in 1 .. Len(waiting) + 1 /\ i \notin DOMAIN waiting
  BY DEF PageInv, AskedInv, TypeOK
<1>3. Gone(waiting, waiting', i, next)
  BY <1>2, AlikeIsGone
<1> HIDE DEF next, i
<1>4. AskedStep(i, next)
  BY <1>1, <1>2 DEF AskedStep, AskedInv, screenVars
<1>5. (polling' <=> Stays(i, next, "poll")) /\ (sessionBusy' <=> Stays(i, next, "session"))
  BY <1>1, <1>2 DEF Stays, AskedInv, stateVars
<1>6. ButtonsStep(i, next) /\ ShownStep(i, next)
  BY <1>1, <1>2 DEF ButtonsStep, ShownStep, stateVars, screenVars
<1>7. QED BY <1>1, <1>2, <1>3, <1>4, <1>5, <1>6, HandledKeeps DEF Handled

-----------------------------------------------------------------------------
\* The steps.

\* The daemon has looked: nothing but what the request got is new, and perhaps a session.
LEMMA GotKeeps ==
  ASSUME PageInv, OtherTypes', NEW i \in DOMAIN waiting, NEW t \in Request,
         waiting' = [waiting EXCEPT ![i] = t],
         t.kind = waiting[i].kind, t.at = waiting[i].at, t.of = waiting[i].of,
         t.late = waiting[i].late,
         Belongs(t, made'), made \subseteq made',
         UNCHANGED <<stateVars, screenVars, disabled, failures>>
  PROVE  PageInv'
<1>1. /\ AskedInv /\ waiting \in Seq(Request) /\ listed \subseteq made
      /\ DOMAIN waiting' = DOMAIN waiting /\ waiting' \in Seq(Request)
  BY DEF PageInv, AskedInv, TypeOK
<1>2. ASSUME NEW j \in DOMAIN waiting
      PROVE  /\ waiting'[j].kind = waiting[j].kind /\ waiting'[j].at = waiting[j].at
             /\ waiting'[j].of = waiting[j].of /\ waiting'[j].late = waiting[j].late
             /\ Belongs(waiting'[j], made')
  <2>1. CASE j = i
    <3>1. waiting'[j] = t
      BY <1>1, <2>1
    <3>2. QED BY <2>1, <3>1
  <2>2. CASE j # i
    <3>1. waiting'[j] = waiting[j]
      BY <1>1, <2>2
    <3>2. Belongs(waiting[j], made)
      BY <1>1 DEF AskedInv
    <3>3. Belongs(waiting[j], made')
      BY <3>2 DEF Belongs
    <3>4. QED BY <3>1, <3>3
  <2>3. QED BY <2>1, <2>2
<1>3. AskedInv'
  <2>1. TypeOK'
    BY <1>1 DEF OtherTypes, TypeOK
  <2>2. \A kind : Has(waiting', kind) <=> Has(waiting, kind)
    BY <1>1, <1>2 DEF Has
  <2>3. listed' \subseteq made' /\ polling' = polling /\ sessionBusy' = sessionBusy
    BY <1>1 DEF stateVars, screenVars
  <2>4. \A j, k \in DOMAIN waiting' :
          waiting'[j].kind = waiting'[k].kind /\ waiting'[j].kind \in Single => j = k
    BY <1>1, <1>2 DEF AskedInv
  <2>5. \A j \in DOMAIN waiting' : Belongs(waiting'[j], made')
    BY <1>1, <1>2
  <2>6. (polling' <=> Has(waiting', "poll")) /\ (sessionBusy' <=> Has(waiting', "session"))
    BY <1>1, <2>2, <2>3 DEF AskedInv
  <2>7. QED BY <2>1, <2>3, <2>4, <2>5, <2>6 DEF AskedInv
<1>4. ASSUME failures = 0 PROVE ButtonsInv' /\ ShownInv'
  <2>1. /\ ButtonsInv /\ ShownInv /\ sessionId' = sessionId /\ shown' = shown
        /\ late' = late /\ disabled' = disabled /\ activeRunId' = activeRunId
        /\ starting' = starting /\ sessionBusy' = sessionBusy
    BY <1>4 DEF PageInv, stateVars, screenVars
  <2>2. \A j \in DOMAIN waiting :
          /\ Syncs(waiting[j]) => Syncs(waiting'[j])
          /\ Covers(waiting'[j], sessionId) <=> Covers(waiting[j], sessionId)
          /\ Stale(waiting'[j], sessionId) <=> Stale(waiting[j], sessionId)
    BY <1>2 DEF Syncs, Covers, Stale
  <2>3. ButtonsInv'
    BY <1>1, <2>1, <2>2 DEF ButtonsInv
  <2>4. ShownInv'
    BY <1>1, <2>1, <2>2 DEF ShownInv
  <2>5. QED BY <2>3, <2>4
<1>5. QED BY <1>3, <1>4 DEF PageInv

LEMMA ServeKeeps ==
  ASSUME PageInv, NEW i \in DOMAIN waiting, Serve(i)
  PROVE  PageInv'
<1> DEFINE t == waiting[i]
<1>1. /\ AskedInv /\ OtherTypes /\ waiting \in Seq(Request) /\ t \in Request
      /\ Belongs(t, made) /\ t.got = None /\ made \subseteq Sessions
      /\ UNCHANGED <<over, stateVars, screenVars, disabled, clicks, failures>>
  BY RequestFacts DEF PageInv, AskedInv, OtherTypes, TypeOK, Serve
<1> HIDE DEF t
<1>2. ASSUME NEW x \in Runs \cup {"nothing", "running", "over"}, NEW m \in SUBSET Sessions,
             waiting' = [waiting EXCEPT ![i] = [t EXCEPT !.got = x, !.seen = m]],
             made' \in SUBSET Sessions, made \subseteq made',
             home' \in [Runs -> Sessions \cup {None}],
             Belongs([t EXCEPT !.got = x, !.seen = m], made')
      PROVE  PageInv'
  <2> DEFINE u == [t EXCEPT !.got = x, !.seen = m]
  <2>1. /\ u \in Request /\ u.kind = t.kind /\ u.at = t.at /\ u.of = t.of
        /\ u.late = t.late
    BY <1>1 DEF Request
  <2> HIDE DEF u
  <2>2. OtherTypes'
    BY <1>1, <1>2 DEF OtherTypes, stateVars, screenVars
  <2>3. waiting' = [waiting EXCEPT ![i] = u] /\ Belongs(u, made')
    BY <1>2 DEF u
  <2>4. QED BY <1>1, <1>2, <2>1, <2>2, <2>3, GotKeeps DEF t
<1>3. ASSUME NEW x \in Runs \cup {"nothing", "running", "over"},
             waiting' = [waiting EXCEPT ![i].got = x]
      PROVE  waiting' = [waiting EXCEPT ![i] = [t EXCEPT !.got = x, !.seen = t.seen]]
  <2>1. waiting' = [waiting EXCEPT ![i] = [t EXCEPT !.got = x]]
    BY <1>3 DEF t
  <2>2. [t EXCEPT !.got = x, !.seen = t.seen] = [t EXCEPT !.got = x]
    BY <1>1 DEF Request
  <2>3. QED BY <2>1, <2>2
<1>4. t.seen \in SUBSET Sessions /\ home \in [Runs -> Sessions \cup {None}]
  BY <1>1 DEF Request, OtherTypes
<1>5. ASSUME NEW x \in Runs \cup {"nothing", "running", "over"}, NEW m
      PROVE  LET u == [t EXCEPT !.got = x, !.seen = m]
             IN  /\ u.kind = t.kind /\ u.at = t.at /\ u.of = t.of /\ u.for = t.for
                 /\ u.got = x /\ u.seen = m
  BY <1>1 DEF Request
<1>6. CASE /\ t.at \in Refreshes
           /\ \E r \in IF Running(t.of) = {} THEN {"nothing"} ELSE Running(t.of) :
                waiting' = [waiting EXCEPT ![i].got = r]
           /\ UNCHANGED <<made, home>>
  <2>1. PICK x \in Runs \cup {"nothing"} : waiting' = [waiting EXCEPT ![i].got = x]
    BY <1>6 DEF Running
  <2>2. Belongs([t EXCEPT !.got = x, !.seen = t.seen], made')
    BY <1>1, <1>5, <1>6 DEF Belongs, Refreshes
  <2>3. QED BY <1>1, <1>2, <1>3, <1>4, <1>6, <2>1, <2>2
<1>7. CASE /\ t.at = "post" /\ waiting' = [waiting EXCEPT ![i].got = t.for]
           /\ home' = [home EXCEPT ![t.for] = t.of] /\ UNCHANGED made
  <2>1. t.for \in Runs /\ t.of \in Sessions \cup {None}
    BY <1>1, <1>7 DEF Belongs, Request
  <2>2. Belongs([t EXCEPT !.got = t.for, !.seen = t.seen], made')
    BY <1>1, <1>5, <1>7, <2>1 DEF Belongs, Refreshes
  <2>3. home' \in [Runs -> Sessions \cup {None}]
    BY <1>4, <1>7, <2>1
  <2>4. QED BY <1>1, <1>2, <1>3, <1>4, <1>7, <2>1, <2>2, <2>3
<1>8. CASE /\ t.at = "status" /\ waiting' = [waiting EXCEPT ![i].got = Status(t.for)]
           /\ UNCHANGED <<made, home>>
  <2>1. Status(t.for) \in {"running", "over"}
    BY DEF Status
  <2>2. Belongs([t EXCEPT !.got = Status(t.for), !.seen = t.seen], made')
    BY <1>1, <1>5, <1>8, <2>1 DEF Belongs, Refreshes
  <2>3. QED BY <1>1, <1>2, <1>3, <1>4, <1>8, <2>1, <2>2
<1>9. CASE /\ t.at = "list"
           /\ waiting' = [waiting EXCEPT ![i].got = "nothing", ![i].seen = made]
           /\ UNCHANGED <<made, home>>
  <2>1. waiting' = [waiting EXCEPT ![i] = [t EXCEPT !.got = "nothing", !.seen = made]]
    BY <1>1, <1>9 DEF t
  <2>2. Belongs([t EXCEPT !.got = "nothing", !.seen = made], made')
    BY <1>1, <1>5, <1>9 DEF Belongs, Refreshes
  <2>3. QED BY <1>1, <1>2, <1>4, <1>9, <2>1, <2>2
<1>10. CASE /\ t.at = "create" /\ waiting' = [waiting EXCEPT ![i].got = "nothing"]
            /\ made' = made \cup {t.for} /\ UNCHANGED home
  <2>1. t.for \in Sessions
    BY <1>1, <1>10 DEF Belongs
  <2>2. Belongs([t EXCEPT !.got = "nothing", !.seen = t.seen], made')
    BY <1>1, <1>5, <1>10 DEF Belongs, Refreshes
  <2>3. QED BY <1>1, <1>2, <1>3, <1>4, <1>10, <2>1, <2>2
<1>11. QED BY <1>6, <1>7, <1>8, <1>9, <1>10 DEF Serve, t

LEMMA DaemonSteps ==
  ASSUME PageInv,
         \/ \E i \in DOMAIN waiting : Serve(i)
         \/ \E s \in Sessions : OtherStarts(s)
         \/ \E r \in Runs : RunEnds(r)
  PROVE  PageInv'
<1>1. AskedInv /\ waiting \in Seq(Request)
  BY DEF PageInv, AskedInv, TypeOK
<1>2. ASSUME NEW i \in DOMAIN waiting, Serve(i) PROVE PageInv'
  BY <1>2, ServeKeeps
<1>3. ASSUME UNCHANGED <<made, stateVars, screenVars, disabled, waiting, failures>>, OtherTypes'
      PROVE  PageInv'
  BY <1>1, <1>3, PageRests DEF Same
<1>4. ASSUME NEW s \in Sessions, OtherStarts(s) PROVE PageInv'
  <2>1. NewRun \in Runs
    BY <1>4 DEF OtherStarts, NewRun, Free
  <2>2. OtherTypes'
    BY <1>1, <1>4, <2>1 DEF OtherStarts, OtherTypes, AskedInv, TypeOK, stateVars, screenVars
  <2>3. QED BY <1>3, <1>4, <2>2 DEF OtherStarts
<1>5. ASSUME NEW r \in Runs, RunEnds(r) PROVE PageInv'
  <2>1. OtherTypes'
    BY <1>1, <1>5 DEF RunEnds, OtherTypes, AskedInv, TypeOK, stateVars, screenVars
  <2>2. QED BY <1>3, <1>5, <2>1 DEF RunEnds
<1>6. QED BY <1>2, <1>4, <1>5

\* What every arrival may use.
LEMMA ArrivalFacts ==
  ASSUME PageInv, NEW i \in DOMAIN waiting
  PROVE  /\ AskedInv /\ OtherTypes
         /\ waiting[i] \in Request /\ Belongs(waiting[i], made)
         /\ waiting[i].kind = "poll" => polling
         /\ waiting[i].kind = "session" => sessionBusy
         /\ Has(waiting, "poll") => polling
         /\ made \subseteq Sessions /\ listed \subseteq made
BY RequestFacts DEF PageInv, AskedInv, OtherTypes, TypeOK

LEMMA ListArrivesKeeps ==
  ASSUME PageInv, NEW i \in DOMAIN waiting, ListArrives(i)
  PROVE  PageInv'
<1> DEFINE t == waiting[i]
<1>1. /\ AskedInv /\ OtherTypes /\ t \in Request /\ Belongs(t, made) /\ t.at = "list"
      /\ t.kind \in {"boot", "select", "session"} /\ t.for \in made \cup {None}
      /\ made \subseteq Sessions /\ listed' = t.seen
      /\ t.seen \subseteq made
      /\ UNCHANGED <<daemonVars, shown, late, clicks, failures, starting, polling>>
  BY ArrivalFacts DEF ListArrives, Belongs
<1>2. PICK next \in IF t.for # None THEN {t.for} ELSE IF sessionId # None THEN {sessionId} ELSE t.seen :
        \/ /\ next # sessionId /\ MaySelect(next)
           /\ sessionId' = next /\ activeRunId' = None
           /\ disabled' = disabled \cup {"cancel"}
           /\ Goes(i, <<Ask(t.kind, "refresh", None)>>)
           /\ UNCHANGED <<starting, sessionBusy, polling>>
        \/ /\ next = sessionId \/ ~MaySelect(next)
           /\ UNCHANGED <<sessionId, activeRunId, starting, polling>>
           /\ Loaded(t.kind)
           /\ IF t.kind = "session" THEN SyncRunControls ELSE UNCHANGED disabled
           /\ Goes(i, AfterSessions(t.kind))
  BY DEF ListArrives
<1>3. next \in Sessions
  BY <1>1, <1>2 DEF OtherTypes
<1> HIDE DEF t
<1>4. CASE /\ sessionId' = next /\ activeRunId' = None
           /\ disabled' = disabled \cup {"cancel"}
           /\ Goes(i, <<Ask(t.kind, "refresh", None)>>)
           /\ UNCHANGED <<starting, sessionBusy, polling>>
  <2>1. OtherTypes'
    BY <1>1, <1>3, <1>4 DEF OtherTypes, daemonVars
  <2>2. Belongs(Ask(t.kind, "refresh", None), made')
    BY <1>1 DEF Belongs, Ask
  <2>3. /\ t.kind \in Kinds /\ "refresh" \in Places /\ "refresh" \in Refreshes
        /\ t.kind # "poll"
    BY <1>1 DEF Kinds, Places, Refreshes
  <2>4. t.kind = "session" => sessionBusy
    BY ArrivalFacts DEF t
  <2>5. listed' \subseteq made' /\ made \subseteq made'
    BY <1>1 DEF daemonVars
  <2>6. Goes(i, <<Ask(t.kind, "refresh", None)>>) /\ failures' = failures
    BY <1>1, <1>4
  <2>7. (polling' <=> polling /\ t.kind # "poll") /\ (sessionBusy' <=> sessionBusy)
    BY <1>1, <1>4, <2>3 DEF OtherTypes
  <2>8. QED
    BY <1>1, <1>4, <2>1, <2>2, <2>3, <2>4, <2>5, <2>6, <2>7, GoesOn DEF t
<1>5. CASE /\ UNCHANGED <<sessionId, activeRunId, starting, polling>>
           /\ Loaded(t.kind)
           /\ IF t.kind = "session" THEN SyncRunControls ELSE UNCHANGED disabled
           /\ Goes(i, AfterSessions(t.kind))
  <2>1. disabled' \subseteq {"send", "new", "cancel"}
    BY <1>1, <1>5 DEF SyncRunControls, Disabled, OtherTypes
  <2>2. OtherTypes'
    BY <1>1, <1>5, <2>1 DEF OtherTypes, daemonVars, Loaded
  <2>3. CASE t.kind = "boot"
    <3>1. Goes(i, <<Ask("boot", "others", None)>>)
      BY <1>5, <2>3 DEF AfterSessions
    <3>2. Belongs(Ask("boot", "others", None), made')
      BY DEF Belongs, Ask
    <3>3. ~Syncs(t) /\ ~Covers(t, sessionId) /\ sessionBusy' = sessionBusy
      BY <1>1, <1>5, <2>3 DEF Syncs, Covers, Refreshes, Loaded, OtherTypes
    <3>4. "boot" \in Kinds /\ "others" \in Places
      BY DEF Kinds, Places
    <3>5. QED
      BY <1>1, <1>5, <2>2, <2>3, <3>1, <3>2, <3>3, <3>4, GoesOn DEF daemonVars, t
  <2>4. CASE t.kind = "select"
    <3>1. Goes(i, <<Ask("select", "again", None)>>)
      BY <1>5, <2>4 DEF AfterSessions
    <3>2. Belongs(Ask("select", "again", None), made')
      BY DEF Belongs, Ask
    <3>3. "select" \in Kinds /\ "again" \in Places /\ "again" \in Refreshes
      BY DEF Kinds, Places, Refreshes
    <3>4. sessionBusy' = sessionBusy
      BY <1>1, <1>5, <2>4 DEF Loaded, OtherTypes
    <3>5. QED
      BY <1>1, <1>5, <2>2, <2>4, <3>1, <3>2, <3>3, <3>4, GoesOn DEF daemonVars, t, Single
  <2>5. CASE t.kind = "session"
    <3>1. Goes(i, <<>>)
      BY <1>5, <2>5 DEF AfterSessions
    <3>2. ~Covers(t, sessionId) /\ sessionBusy' = FALSE
      BY <1>1, <1>5, <2>5 DEF Covers, Refreshes, Loaded
    <3>3. disabled' = Disabled(activeRunId', starting', sessionBusy')
      BY <1>5, <2>5 DEF SyncRunControls
    <3>4. QED BY <1>1, <1>5, <2>2, <2>5, <3>1, <3>2, <3>3, IsDone DEF daemonVars, t
  <2>6. QED BY <1>1, <2>3, <2>4, <2>5
<1>6. QED BY <1>2, <1>4, <1>5 DEF t

LEMMA NewSessionIsFree ==
  ASSUME FreeSessions # {}
  PROVE  NewSession \in Sessions
BY DEF NewSession, FreeSessions

LEMMA ListIsEmptyKeeps ==
  ASSUME PageInv, NEW i \in DOMAIN waiting, ListIsEmpty(i)
  PROVE  PageInv'
<1>1. /\ AskedInv /\ OtherTypes /\ waiting[i] \in Request /\ Belongs(waiting[i], made)
      /\ waiting[i].at = "list" /\ waiting[i].got # None /\ waiting[i].seen = {}
      /\ listed \subseteq made
  BY ArrivalFacts DEF ListIsEmpty
<1>2. waiting[i].kind = "boot"
  BY <1>1 DEF Belongs
<1>3. FreeSessions # {}
  BY DEF ListIsEmpty
<1>4. NewSession \in Sessions
  BY <1>3, NewSessionIsFree
<1>5. Belongs(Ask("boot", "create", NewSession), made')
  BY <1>4 DEF Belongs, Ask
<1>6. OtherTypes'
  BY <1>1 DEF ListIsEmpty, OtherTypes, daemonVars, stateVars, screenVars
<1>7. ~Syncs(waiting[i]) /\ ~Covers(waiting[i], sessionId)
  BY <1>1, <1>2 DEF Syncs, Covers, Refreshes
<1>8. "boot" \in Kinds /\ "create" \in Places
  BY DEF Kinds, Places
<1>9. /\ Goes(i, <<Ask("boot", "create", NewSession)>>)
      /\ UNCHANGED <<daemonVars, stateVars, screenVars, disabled, clicks, failures>>
  BY <1>2 DEF ListIsEmpty
<1>10. QED
  BY <1>1, <1>2, <1>4, <1>5, <1>6, <1>7, <1>8, <1>9, GoesOn
  DEF daemonVars, stateVars, screenVars

LEMMA SessionCreatedKeeps ==
  ASSUME PageInv, NEW i \in DOMAIN waiting, SessionCreated(i)
  PROVE  PageInv'
<1> DEFINE t == waiting[i]
<1>1. /\ AskedInv /\ OtherTypes /\ t \in Request /\ Belongs(t, made) /\ t.at = "create"
      /\ t.kind \in {"boot", "session"} /\ t.for \in Sessions /\ listed \subseteq made
      /\ t.kind = "session" => sessionBusy
      /\ t.for \in made
  BY ArrivalFacts DEF SessionCreated, Belongs
<1>2. /\ Goes(i, <<Ask(t.kind, "list", t.for)>>)
      /\ UNCHANGED <<daemonVars, stateVars, screenVars, disabled, clicks, failures>>
  BY DEF SessionCreated
<1> HIDE DEF t
<1>3. OtherTypes'
  BY <1>1, <1>2 DEF OtherTypes, daemonVars, stateVars, screenVars
<1>4. Belongs(Ask(t.kind, "list", t.for), made')
  <2>1. t.for # None /\ made' = made
    BY <1>1, <1>2, WebAssumption DEF daemonVars
  <2>2. QED BY <1>1, <2>1 DEF Belongs, Ask
<1>5. ~Syncs(t) /\ ~Covers(t, sessionId)
  BY <1>1 DEF Syncs, Covers, Refreshes
<1>6. t.kind \in Kinds /\ "list" \in Places
  BY <1>1 DEF Kinds, Places
<1>7. QED
  BY <1>1, <1>2, <1>3, <1>4, <1>5, <1>6, GoesOn DEF daemonVars, stateVars, screenVars, t

\* Where the loop starts, if it does: its first request, or the last refresh.
LEMMA PollStarts ==
  ASSUME PageInv, OtherTypes', NEW i \in DOMAIN waiting,
         Goes(i, Poll) \/ (Render(i, Poll) /\ waiting[i].at \in Refreshes),
         waiting[i].kind # "poll", waiting[i].kind # "session",
         polling' = (polling \/ activeRunId' # None),
         UNCHANGED <<made, listed, sessionId, sessionBusy, failures>>,
         \/ disabled' = Disabled(activeRunId', starting', sessionBusy')
         \/ UNCHANGED <<disabled, activeRunId, starting>> /\ ~Syncs(waiting[i]),
         \/ UNCHANGED <<shown, late>> /\ ~Covers(waiting[i], sessionId)
         \/ Render(i, Poll) /\ waiting[i].at \in Refreshes
  PROVE  PageInv'
<1>1. /\ AskedInv /\ OtherTypes /\ made \subseteq made' /\ listed' \subseteq made'
      /\ Has(waiting, "poll") => polling
      /\ {"poll", "last"} \subseteq Kinds /\ {"status", "refresh"} \subseteq Places
      /\ "refresh" \in Refreshes
  BY ArrivalFacts DEF Kinds, Places, Refreshes
<1>2. CASE polling
  <2>1. Poll = <<>>
    BY <1>2 DEF Poll
  <2>2. QED BY <1>1, <1>2, <2>1, IsDone
<1>3. CASE ~polling /\ activeRunId' # None
  <2>1. Poll = <<Ask("poll", "status", activeRunId')>> /\ activeRunId' \in Runs
    BY <1>3 DEF Poll, OtherTypes
  <2>2. Belongs(Ask("poll", "status", activeRunId'), made')
    BY <2>1 DEF Belongs, Ask
  <2>3. QED BY <1>1, <1>3, <2>1, <2>2, GoesOn
<1>4. CASE ~polling /\ activeRunId' = None
  <2>1. Poll = <<Ask("last", "refresh", None)>>
    BY <1>4 DEF Poll
  <2>2. Belongs(Ask("last", "refresh", None), made')
    BY DEF Belongs, Ask
  <2>3. QED BY <1>1, <1>4, <2>1, <2>2, GoesOn DEF Single
<1>5. QED BY <1>2, <1>3, <1>4 DEF OtherTypes

LEMMA OthersArriveKeeps ==
  ASSUME PageInv, NEW i \in DOMAIN waiting, OthersArrive(i)
  PROVE  PageInv'
<1>1. OtherTypes /\ waiting[i].kind = "boot" /\ waiting[i].at = "others"
  BY ArrivalFacts DEF OthersArrive, Belongs
<1>2. ~Syncs(waiting[i]) /\ ~Covers(waiting[i], sessionId)
  BY <1>1 DEF Syncs, Covers, Refreshes
<1>3. OtherTypes'
  BY <1>1 DEF OthersArrive, OtherTypes, daemonVars, screenVars
<1>4. QED BY <1>1, <1>2, <1>3, PollStarts DEF OthersArrive, daemonVars, screenVars
LEMMA DisabledType ==
  ASSUME NEW a, NEW b, NEW c
  PROVE  Disabled(a, b, c) \subseteq {"send", "new", "cancel"}
BY DEF Disabled

\* An answer to a refresh: which run is active then, and what is known of the request.
LEMMA RefreshFacts ==
  ASSUME PageInv, NEW i \in DOMAIN waiting, waiting[i].at \in Refreshes, waiting[i].got # None
  PROVE  /\ FoundActive(waiting[i]) \in Runs \cup {None}
         /\ waiting[i].at = "again" => waiting[i].kind = "select"
         /\ waiting[i].at = "final" => waiting[i].kind = "poll"
         /\ waiting[i].of \in Sessions \cup {None} /\ waiting[i].late \in BOOLEAN
         /\ AskedInv /\ OtherTypes /\ listed \subseteq made
         /\ waiting[i].kind \in Kinds
BY ArrivalFacts DEF Belongs, Request, OtherTypes, FoundActive

LEMMA RefreshArrivesKeeps ==
  ASSUME PageInv, NEW i \in DOMAIN waiting, RefreshArrives(i)
  PROVE  PageInv'
<1> DEFINE t == waiting[i]
           loaded == t.at = "refresh" /\ t.kind \in {"boot", "select", "session"}
           next == IF loaded THEN AfterSessions(t.kind) ELSE IF t.kind = "start" THEN Poll ELSE <<>>
<1>1. /\ t.at \in Refreshes /\ t.got # None /\ t.kind # "poll"
      /\ activeRunId' = FoundActive(t)
      /\ starting' = (starting /\ t.kind # "start")
      /\ polling' = (polling \/ (t.kind = "start" /\ activeRunId' # None))
      /\ IF loaded THEN Loaded(t.kind) ELSE UNCHANGED sessionBusy
      /\ UNCHANGED <<daemonVars, sessionId, clicks, failures>>
      /\ disabled' = Disabled(activeRunId', starting', sessionBusy')
      /\ Render(i, next)
  BY DEF RefreshArrives, SyncRunControls
<1>2. /\ FoundActive(t) \in Runs \cup {None}
      /\ t.at = "again" => t.kind = "select"
      /\ t.at = "final" => t.kind = "poll"
      /\ t.of \in Sessions \cup {None} /\ t.late \in BOOLEAN
      /\ AskedInv /\ OtherTypes /\ listed \subseteq made
      /\ t.kind = "session" => sessionBusy
  BY <1>1, RefreshFacts, ArrivalFacts
<1>3. /\ shown' = t.of /\ late' = t.late /\ UNCHANGED listed
      /\ made' = made /\ home' = home /\ over' = over
  BY <1>1 DEF Render, daemonVars
<1>4. /\ t.kind = "session" => loaded
      /\ sessionBusy' = (sessionBusy /\ t.kind # "session")
  <2>1. t.kind = "session" => t.at = "refresh"
    BY <1>1, <1>2 DEF Refreshes
  <2>2. QED BY <1>1, <1>2, <2>1 DEF Loaded, OtherTypes
<1> HIDE DEF t
<1>5. OtherTypes'
  BY <1>1, <1>2, <1>3, <1>4, DisabledType DEF OtherTypes
<1>6. CASE loaded /\ t.kind = "boot"
  <2>1. next = <<Ask("boot", "others", None)>>
    BY <1>6 DEF AfterSessions
  <2>2. Belongs(Ask("boot", "others", None), made')
    BY DEF Belongs, Ask
  <2>3. "boot" \in Kinds /\ "others" \in Places /\ "others" \notin Refreshes
    BY DEF Kinds, Places, Refreshes
  <2>4. Render(i, <<Ask("boot", "others", None)>>)
    BY <1>1, <2>1
  <2> HIDE DEF next, loaded
  <2>5. QED BY <1>1, <1>2, <1>3, <1>4, <1>5, <1>6, <2>2, <2>3, <2>4, GoesOn DEF t
<1>7. CASE loaded /\ t.kind = "select"
  <2>1. next = <<Ask("select", "again", None)>>
    BY <1>7 DEF AfterSessions
  <2>2. Belongs(Ask("select", "again", None), made')
    BY DEF Belongs, Ask
  <2>3. "select" \in Kinds /\ "again" \in Places /\ "again" \in Refreshes /\ "select" \notin Single
    BY DEF Kinds, Places, Refreshes, Single
  <2>4. Render(i, <<Ask("select", "again", None)>>)
    BY <1>1, <2>1
  <2> HIDE DEF next, loaded
  <2>5. QED BY <1>1, <1>2, <1>3, <1>4, <1>5, <1>7, <2>2, <2>3, <2>4, GoesOn DEF t
<1>8. CASE ~loaded /\ t.kind = "start"
  <2>1. Render(i, Poll)
    BY <1>1, <1>8
  <2> HIDE DEF next, loaded
  <2>2. polling' = (polling \/ activeRunId' # None) /\ sessionBusy' = sessionBusy
    BY <1>1, <1>2, <1>4, <1>8 DEF OtherTypes
  <2>3. QED BY <1>1, <1>3, <1>5, <1>8, <2>1, <2>2, PollStarts DEF t
<1>9. CASE next = <<>> /\ t.kind # "start"
  <2>1. Render(i, <<>>)
    BY <1>1, <1>9
  <2>2. polling' = polling
    BY <1>1, <1>2, <1>9 DEF OtherTypes
  <2> HIDE DEF next, loaded
  <2>3. QED BY <1>1, <1>2, <1>3, <1>4, <1>5, <1>9, <2>1, <2>2, IsDone DEF t
<1>10. loaded /\ t.kind = "session" => next = <<>>
  BY DEF AfterSessions
<1>11. QED BY <1>6, <1>7, <1>8, <1>9, <1>10

LEMMA InspectArrivesKeeps ==
  ASSUME PageInv, NEW i \in DOMAIN waiting, InspectArrives(i)
  PROVE  PageInv'
<1>1. /\ AskedInv /\ OtherTypes /\ waiting[i].kind = "poll" /\ polling /\ listed \subseteq made
      /\ UNCHANGED <<daemonVars, stateVars, screenVars, disabled, clicks, failures>>
      /\ Goes(i, <<Ask("poll", "final", None)>>)
  BY ArrivalFacts DEF InspectArrives, Belongs
<1>2. OtherTypes'
  BY <1>1 DEF OtherTypes, daemonVars, stateVars, screenVars
<1>3. Belongs(Ask("poll", "final", None), made')
  BY DEF Belongs, Ask
<1>4. "poll" \in Kinds /\ "final" \in Places /\ "final" \in Refreshes
  BY DEF Kinds, Places, Refreshes
<1>5. QED BY <1>1, <1>2, <1>3, <1>4, GoesOn DEF daemonVars, stateVars, screenVars

LEMMA PostArrivesKeeps ==
  ASSUME PageInv, NEW i \in DOMAIN waiting, PostArrives(i)
  PROVE  PageInv'
<1>1. /\ AskedInv /\ OtherTypes /\ waiting[i].kind = "start" /\ waiting[i].for \in Runs
      /\ listed \subseteq made /\ activeRunId' = waiting[i].for
      /\ UNCHANGED <<daemonVars, sessionId, starting, sessionBusy, polling, screenVars, disabled,
                     clicks, failures>>
      /\ Goes(i, <<Ask("start", "refresh", None)>>)
  BY ArrivalFacts DEF PostArrives, Belongs
<1>2. OtherTypes'
  BY <1>1 DEF OtherTypes, daemonVars, screenVars
<1>3. Belongs(Ask("start", "refresh", None), made')
  BY DEF Belongs, Ask
<1>4. /\ "start" \in Kinds /\ "refresh" \in Places /\ "refresh" \in Refreshes
      /\ "start" \notin Single
  BY DEF Kinds, Places, Refreshes, Single
<1>5. QED BY <1>1, <1>2, <1>3, <1>4, GoesOn DEF daemonVars, screenVars

LEMMA StatusArrivesKeeps ==
  ASSUME PageInv, NEW i \in DOMAIN waiting, StatusArrives(i)
  PROVE  PageInv'
<1> DEFINE f == waiting[i].got
<1>1. /\ AskedInv /\ OtherTypes /\ waiting[i].kind = "poll" /\ polling /\ listed \subseteq made
      /\ UNCHANGED <<daemonVars, stateVars, screenVars, disabled, clicks, failures>>
      /\ Goes(i, <<Ask("poll", "refresh", f)>>)
      /\ f \in {"over", "running"}
  BY ArrivalFacts DEF StatusArrives, Belongs
<1> HIDE DEF f
<1>2. OtherTypes'
  BY <1>1 DEF OtherTypes, daemonVars, stateVars, screenVars
<1>3. Belongs(Ask("poll", "refresh", f), made')
  BY <1>1 DEF Belongs, Ask
<1>4. "poll" \in Kinds /\ "refresh" \in Places /\ "refresh" \in Refreshes
  BY DEF Kinds, Places, Refreshes
<1>5. QED BY <1>1, <1>2, <1>3, <1>4, GoesOn DEF daemonVars, stateVars, screenVars

LEMMA PolledOverKeeps ==
  ASSUME PageInv, NEW i \in DOMAIN waiting, PolledOver(i)
  PROVE  PageInv'
<1>1. /\ waiting[i].kind = "poll" /\ waiting[i].at = "refresh" /\ waiting[i].got # None
      /\ activeRunId' = None
      /\ disabled' = Disabled(FoundActive(waiting[i]), starting, sessionBusy)
      /\ UNCHANGED <<daemonVars, sessionId, starting, sessionBusy, polling, clicks, failures>>
      /\ Render(i, <<Ask("poll", "inspect", None)>>)
  BY DEF PolledOver
<1>2. waiting[i].at \in Refreshes /\ "poll" \in Kinds /\ "inspect" \in Places
  BY <1>1 DEF Refreshes, Kinds, Places
<1>3. /\ waiting[i].of \in Sessions \cup {None} /\ waiting[i].late \in BOOLEAN
      /\ AskedInv /\ OtherTypes /\ listed \subseteq made /\ polling
  BY <1>1, <1>2, RefreshFacts, ArrivalFacts
<1>4. /\ shown' = waiting[i].of /\ late' = waiting[i].late /\ UNCHANGED listed
      /\ made' = made /\ home' = home /\ over' = over
  BY <1>1 DEF Render, daemonVars
<1>5. OtherTypes'
  BY <1>1, <1>3, <1>4, DisabledType DEF OtherTypes
<1>6. Belongs(Ask("poll", "inspect", None), made')
  BY DEF Belongs, Ask
<1>7. QED BY <1>1, <1>2, <1>3, <1>4, <1>5, <1>6, GoesOn

LEMMA PolledRunningKeeps ==
  ASSUME PageInv, NEW i \in DOMAIN waiting, PolledRunning(i)
  PROVE  PageInv'
<1>1. /\ waiting[i].kind = "poll" /\ waiting[i].at = "refresh" /\ waiting[i].got # None
      /\ activeRunId' = FoundActive(waiting[i])
      /\ disabled' = Disabled(activeRunId', starting', sessionBusy')
      /\ UNCHANGED <<daemonVars, sessionId, starting, sessionBusy, polling, clicks, failures>>
      /\ Render(i, <<Ask("poll", "timer", None)>>)
  BY DEF PolledRunning, SyncRunControls
<1>2. waiting[i].at \in Refreshes /\ "poll" \in Kinds /\ "timer" \in Places
  BY <1>1 DEF Refreshes, Kinds, Places
<1>3. /\ waiting[i].of \in Sessions \cup {None} /\ waiting[i].late \in BOOLEAN
      /\ FoundActive(waiting[i]) \in Runs \cup {None}
      /\ AskedInv /\ OtherTypes /\ listed \subseteq made /\ polling
  BY <1>1, <1>2, RefreshFacts, ArrivalFacts
<1>4. /\ shown' = waiting[i].of /\ late' = waiting[i].late /\ UNCHANGED listed
      /\ made' = made /\ home' = home /\ over' = over
  BY <1>1 DEF Render, daemonVars
<1>5. OtherTypes'
  BY <1>1, <1>3, <1>4, DisabledType DEF OtherTypes
<1>6. Belongs(Ask("poll", "timer", None), made')
  BY DEF Belongs, Ask
<1>7. QED BY <1>1, <1>2, <1>3, <1>4, <1>5, <1>6, GoesOn

LEMMA TimerFiresKeeps ==
  ASSUME PageInv, NEW i \in DOMAIN waiting, TimerFires(i)
  PROVE  PageInv'
<1>1. /\ AskedInv /\ OtherTypes /\ waiting[i].at = "timer" /\ waiting[i].kind = "poll"
      /\ polling /\ listed \subseteq made /\ polling' = (activeRunId # None)
      /\ UNCHANGED <<daemonVars, sessionId, activeRunId, starting, sessionBusy, screenVars,
                     disabled, clicks, failures>>
  BY ArrivalFacts DEF TimerFires, Belongs
<1>2. OtherTypes'
  BY <1>1 DEF OtherTypes, daemonVars, screenVars
<1>3. ~Syncs(waiting[i]) /\ ~Covers(waiting[i], sessionId)
  BY <1>1 DEF Syncs, Covers, Refreshes
<1>4. CASE activeRunId # None
  <2>1. activeRunId \in Runs /\ Goes(i, <<Ask("poll", "status", activeRunId)>>)
    BY <1>1, <1>4 DEF OtherTypes, TimerFires
  <2>2. Belongs(Ask("poll", "status", activeRunId), made')
    BY <2>1 DEF Belongs, Ask
  <2>3. "poll" \in Kinds /\ "status" \in Places
    BY DEF Kinds, Places
  <2>4. QED BY <1>1, <1>2, <1>3, <1>4, <2>1, <2>2, <2>3, GoesOn DEF daemonVars, screenVars
<1>5. CASE activeRunId = None
  <2>1. Goes(i, <<Ask("last", "refresh", None)>>)
    BY <1>5 DEF TimerFires
  <2>2. Belongs(Ask("last", "refresh", None), made')
    BY DEF Belongs, Ask
  <2>3. /\ "last" \in Kinds /\ "refresh" \in Places /\ "refresh" \in Refreshes
        /\ "last" \notin Single
    BY DEF Kinds, Places, Refreshes, Single
  <2>4. QED BY <1>1, <1>2, <1>3, <1>5, <2>1, <2>2, <2>3, GoesOn DEF daemonVars, screenVars
<1>6. QED BY <1>4, <1>5

LEMMA PollEndsKeeps ==
  ASSUME PageInv, NEW i \in DOMAIN waiting, PollEnds(i)
  PROVE  PageInv'
<1>1. /\ waiting[i].at = "final" /\ waiting[i].got # None
      /\ activeRunId' = FoundActive(waiting[i]) /\ polling' = FALSE
      /\ disabled' = Disabled(activeRunId', starting', sessionBusy')
      /\ UNCHANGED <<daemonVars, sessionId, starting, sessionBusy, clicks, failures>>
      /\ Render(i, <<Ask("last", "refresh", None)>>)
  BY DEF PollEnds, SyncRunControls
<1>2. /\ waiting[i].at \in Refreshes /\ "last" \in Kinds /\ "refresh" \in Places
      /\ "refresh" \in Refreshes /\ "last" \notin Single
  BY <1>1 DEF Refreshes, Kinds, Places, Single
<1>3. /\ waiting[i].of \in Sessions \cup {None} /\ waiting[i].late \in BOOLEAN
      /\ FoundActive(waiting[i]) \in Runs \cup {None} /\ waiting[i].kind = "poll"
      /\ AskedInv /\ OtherTypes /\ listed \subseteq made
  BY <1>1, <1>2, RefreshFacts
<1>4. /\ shown' = waiting[i].of /\ late' = waiting[i].late /\ UNCHANGED listed
      /\ made' = made /\ home' = home /\ over' = over
  BY <1>1 DEF Render, daemonVars
<1>5. OtherTypes'
  BY <1>1, <1>3, <1>4, DisabledType DEF OtherTypes
<1>6. Belongs(Ask("last", "refresh", None), made')
  BY DEF Belongs, Ask
<1>7. QED BY <1>1, <1>2, <1>3, <1>4, <1>5, <1>6, GoesOn
LEMMA FailKeeps ==
  ASSUME PageInv, NEW i \in DOMAIN waiting, Fail(i)
  PROVE  PageInv'
<1> DEFINE kind == waiting[i].kind
<1>1. /\ AskedInv /\ OtherTypes /\ listed \subseteq made
      /\ kind = "poll" => polling
      /\ kind = "session" => sessionBusy
  BY ArrivalFacts
<1>2. /\ failures < MaxFailures /\ failures' = failures + 1
      /\ starting' = (starting /\ kind # "start")
      /\ sessionBusy' = (sessionBusy /\ kind # "session")
      /\ polling' = (polling /\ kind # "poll")
      /\ UNCHANGED <<daemonVars, sessionId, activeRunId, screenVars, clicks>>
      /\ IF kind \in {"start", "session"} THEN SyncRunControls ELSE UNCHANGED disabled
      /\ Goes(i, IF kind = "poll" THEN <<Ask("last", "refresh", None)>> ELSE <<>>)
  BY DEF Fail
<1> HIDE DEF kind
<1>3. failures' \in 0 .. MaxFailures /\ failures' # 0
  BY <1>1, <1>2, WebAssumption DEF OtherTypes
<1>4. disabled' \subseteq {"send", "new", "cancel"}
  <2>1. CASE kind \in {"start", "session"}
    BY <1>2, <2>1, DisabledType DEF SyncRunControls
  <2>2. CASE kind \notin {"start", "session"}
    BY <1>1, <1>2, <2>2 DEF OtherTypes
  <2>3. QED BY <2>1, <2>2
<1>5. OtherTypes'
  BY <1>1, <1>2, <1>3, <1>4 DEF OtherTypes, daemonVars, screenVars
<1>6. CASE kind = "poll"
  <2>1. Goes(i, <<Ask("last", "refresh", None)>>)
    BY <1>2, <1>6
  <2>2. Belongs(Ask("last", "refresh", None), made')
    BY DEF Belongs, Ask
  <2>3. /\ "last" \in Kinds /\ "refresh" \in Places /\ "refresh" \in Refreshes
        /\ "last" \notin Single
    BY DEF Kinds, Places, Refreshes, Single
  <2>4. QED
    BY <1>1, <1>2, <1>3, <1>5, <1>6, <2>1, <2>2, <2>3, GoesOn DEF daemonVars, screenVars, kind
<1>7. CASE kind # "poll"
  <2>1. Goes(i, <<>>)
    BY <1>2, <1>7
  <2>2. QED
    BY <1>1, <1>2, <1>3, <1>5, <1>7, <2>1, IsDone DEF daemonVars, screenVars, kind
<1>8. QED BY <1>6, <1>7

-----------------------------------------------------------------------------
LEMMA ClickSessionKeeps ==
  ASSUME PageInv, NEW s \in Sessions, ClickSession(s)
  PROVE  PageInv'
<1>1. AskedInv /\ OtherTypes /\ listed \subseteq made
  BY DEF PageInv, AskedInv, TypeOK, OtherTypes
<1>2. /\ clicks < MaxClicks /\ clicks' = clicks + 1 /\ s \in listed
      /\ sessionId' = s /\ activeRunId' = None
      /\ disabled' = disabled \cup {"cancel"}
      /\ UNCHANGED <<daemonVars, starting, sessionBusy, polling, screenVars, failures>>
      /\ Then(<<Ask("select", "list", s)>>)
  BY DEF ClickSession, Click
<1>3. clicks' \in 0 .. MaxClicks
  BY <1>1, <1>2, WebAssumption DEF OtherTypes
<1>4. OtherTypes'
  BY <1>1, <1>2, <1>3 DEF OtherTypes, daemonVars, screenVars
<1>5. Belongs(Ask("select", "list", s), made')
  <2>1. s # None /\ s \in made'
    BY <1>1, <1>2, WebAssumption DEF daemonVars
  <2>2. QED BY <2>1 DEF Belongs, Ask
<1>6. "select" \in Kinds /\ "list" \in Places /\ "select" \notin Single
  BY DEF Kinds, Places, Single
<1>7. QED BY <1>1, <1>2, <1>4, <1>5, <1>6, Begins DEF daemonVars, screenVars

LEMMA ClickRunKeeps ==
  ASSUME PageInv, ClickRun
  PROVE  PageInv'
<1>1. AskedInv /\ OtherTypes /\ listed \subseteq made
  BY DEF PageInv, AskedInv, TypeOK, OtherTypes
<1>2. /\ clicks < MaxClicks /\ clicks' = clicks + 1
      /\ UNCHANGED <<daemonVars, stateVars, screenVars, disabled, failures>>
      /\ Then(<<Ask("inspect", "refresh", None)>>)
  BY DEF ClickRun, Click
<1>3. clicks' \in 0 .. MaxClicks
  BY <1>1, <1>2, WebAssumption DEF OtherTypes
<1>4. OtherTypes'
  BY <1>1, <1>2, <1>3 DEF OtherTypes, daemonVars, stateVars, screenVars
<1>5. Belongs(Ask("inspect", "refresh", None), made')
  BY DEF Belongs, Ask
<1>6. "inspect" \in Kinds /\ "refresh" \in Places /\ "inspect" \notin Single
  BY DEF Kinds, Places, Single
<1>7. QED BY <1>1, <1>2, <1>4, <1>5, <1>6, Begins DEF daemonVars, stateVars, screenVars

LEMMA SubmitKeeps ==
  ASSUME PageInv, Submit
  PROVE  PageInv'
<1>1. AskedInv /\ OtherTypes /\ listed \subseteq made
  BY DEF PageInv, AskedInv, TypeOK, OtherTypes
<1>2. /\ clicks < MaxClicks /\ clicks' = clicks + 1 /\ Free # {}
      /\ starting' = TRUE
      /\ UNCHANGED <<daemonVars, sessionId, activeRunId, sessionBusy, polling, screenVars, failures>>
      /\ disabled' = Disabled(activeRunId', starting', sessionBusy')
      /\ Then(<<Ask("start", "post", NewRun)>>)
  BY DEF Submit, Click, SyncRunControls
<1>3. clicks' \in 0 .. MaxClicks
  BY <1>1, <1>2, WebAssumption DEF OtherTypes
<1>4. OtherTypes'
  BY <1>1, <1>2, <1>3, DisabledType DEF OtherTypes, daemonVars, screenVars
<1>5. NewRun \in Runs
  BY <1>2 DEF NewRun, Free
<1>6. Belongs(Ask("start", "post", NewRun), made')
  BY <1>5 DEF Belongs, Ask
<1>7. "start" \in Kinds /\ "post" \in Places /\ "start" \notin Single
  BY DEF Kinds, Places, Single
<1>8. QED BY <1>1, <1>2, <1>4, <1>5, <1>6, <1>7, Begins DEF daemonVars, screenVars

LEMMA ClickNewKeeps ==
  ASSUME PageInv, ClickNew
  PROVE  PageInv'
<1>1. AskedInv /\ OtherTypes /\ listed \subseteq made
  BY DEF PageInv, AskedInv, TypeOK, OtherTypes
<1>2. /\ clicks < MaxClicks /\ clicks' = clicks + 1 /\ FreeSessions # {}
      /\ ~sessionBusy /\ sessionBusy' = TRUE
      /\ UNCHANGED <<daemonVars, sessionId, activeRunId, starting, polling, screenVars, failures>>
      /\ disabled' = Disabled(activeRunId', starting', sessionBusy')
      /\ Then(<<Ask("session", "create", NewSession)>>)
  BY DEF ClickNew, Click, SyncRunControls
<1>3. clicks' \in 0 .. MaxClicks
  BY <1>1, <1>2, WebAssumption DEF OtherTypes
<1>4. OtherTypes'
  BY <1>1, <1>2, <1>3, DisabledType DEF OtherTypes, daemonVars, screenVars
<1>5. NewSession \in Sessions
  BY <1>2, NewSessionIsFree
<1>6. Belongs(Ask("session", "create", NewSession), made')
  BY <1>5 DEF Belongs, Ask
<1>7. "session" \in Kinds /\ "create" \in Places /\ ~Has(waiting, "session")
  BY <1>1, <1>2 DEF Kinds, Places, AskedInv
<1>8. QED BY <1>1, <1>2, <1>4, <1>5, <1>6, <1>7, Begins DEF daemonVars, screenVars

-----------------------------------------------------------------------------
LEMMA PageInit ==
  ASSUME Init
  PROVE  PageInv
<1> DEFINE e == [kind |-> "boot", at |-> "list", of |-> None, for |-> None, got |-> None,
                 seen |-> {}, late |-> FALSE]
<1>1. waiting = <<e>> /\ e \in Request
  BY DEF Init, Request, Kinds, Places
<1>2. e.kind = "boot" /\ e.at = "list" /\ e.for = None /\ e.seen = {}
  OBVIOUS
<1> HIDE DEF e
<1>3. DOMAIN waiting = {1} /\ waiting[1] = e /\ waiting \in Seq(Request)
  BY <1>1
<1>4. AskedInv
  <2>1. TypeOK
    <3>1. home \in [Runs -> Sessions \cup {None}]
      BY DEF Init
    <3>2. made \subseteq Sessions
      BY WebAssumption DEF Init
    <3>3. clicks \in 0 .. MaxClicks /\ failures \in 0 .. MaxFailures
      BY WebAssumption DEF Init
    <3>4. QED BY <1>3, <3>1, <3>2, <3>3 DEF Init, TypeOK
  <2>2. Belongs(e, made)
    BY <1>2 DEF Belongs, Refreshes
  <2>3. ~Has(waiting, "poll") /\ ~Has(waiting, "session")
    BY <1>2, <1>3 DEF Has
  <2>4. QED BY <1>3, <2>1, <2>2, <2>3 DEF AskedInv, Init
<1>5. ButtonsInv
  BY DEF Init, ButtonsInv, Disabled
<1>6. ShownInv
  BY <1>2, <1>3 DEF Init, ShownInv, Stale, Refreshes
<1>7. QED BY <1>4, <1>5, <1>6 DEF PageInv

LEMMA PageStep ==
  ASSUME PageInv, [Next]_vars
  PROVE  PageInv'
<1>1. CASE User
  BY <1>1, ClickSessionKeeps, ClickRunKeeps, SubmitKeeps, ClickNewKeeps DEF User
<1>2. ASSUME NEW i \in DOMAIN waiting, Arrives(i) PROVE PageInv'
  BY <1>2, ListArrivesKeeps, ListIsEmptyKeeps, SessionCreatedKeeps, OthersArriveKeeps,
     RefreshArrivesKeeps, InspectArrivesKeeps, PostArrivesKeeps, StatusArrivesKeeps,
     PolledOverKeeps, PolledRunningKeeps, TimerFiresKeeps, PollEndsKeeps
  DEF Arrives
<1>3. ASSUME NEW i \in DOMAIN waiting, Fail(i) PROVE PageInv'
  BY <1>3, FailKeeps
<1>4. CASE \/ \E i \in DOMAIN waiting : Serve(i)
           \/ \E s \in Sessions : OtherStarts(s)
           \/ \E r \in Runs : RunEnds(r)
  BY <1>4, DaemonSteps
<1>5. CASE UNCHANGED vars
  <2>1. AskedInv' /\ ButtonsInv' = ButtonsInv /\ ShownInv' = ShownInv
    BY <1>5 DEF PageInv, AskedInv, TypeOK, ButtonsInv, ShownInv, vars, daemonVars,
                stateVars, screenVars
  <2>2. QED BY <1>5, <2>1 DEF PageInv, vars
<1>6. QED BY <1>1, <1>2, <1>3, <1>4, <1>5 DEF Next

\* The page is in order, whatever sessions and runs there are and in whatever order answers
\* come (web-ui.ts:229-362): there is a request of the loop, or of the New button, exactly
\* while its flag is set, and never a second one; and as long as nothing has failed, the
\* buttons fit the state or an answer that sets them is awaited, and what is on the screen
\* is of the selected session, known to be late, or about to be replaced.
THEOREM PageIsInOrder == Spec => []PageInv
<1>1. Init => PageInv
  BY PageInit
<1>2. PageInv /\ [Next]_vars => PageInv'
  BY PageStep
<1>3. QED BY <1>1, <1>2, PTL DEF Spec

\* Never do two loops poll, nor does the flag outlive the loop (web-ui.ts:323-339).
LEMMA LoopIsOne ==
  ASSUME PageInv
  PROVE  OneLoop
<1> DEFINE P == {i \in DOMAIN waiting : waiting[i].kind = "poll"}
<1>1. AskedInv /\ polling \in BOOLEAN
  BY DEF PageInv, AskedInv, TypeOK
<1>2. CASE polling
  <2>1. PICK i \in DOMAIN waiting : waiting[i].kind = "poll"
    BY <1>1, <1>2 DEF AskedInv, Has
  <2>2. P = {i}
    BY <1>1, <2>1 DEF AskedInv, Single
  <2>3. Cardinality(P) = 1
    BY <2>2, FS_Singleton
  <2>4. QED BY <1>2, <2>3 DEF OneLoop
<1>3. CASE ~polling
  <2>1. P = {}
    BY <1>1, <1>3 DEF AskedInv, Has
  <2>2. Cardinality(P) = 0
    BY <2>1, FS_EmptySet
  <2>3. QED BY <1>3, <2>2 DEF OneLoop
<1>4. QED BY <1>1, <1>2, <1>3

\* Once every answer is in and none has failed, the screen shows the session that is
\* selected, unless what it shows was asked for before what it replaced, and the buttons
\* fit the state, for any number of clicks, sessions and runs (web-ui.ts:240-295).
THEOREM ScreenIsSettled == Spec => []ScreenSettles
<1>1. ASSUME PageInv PROVE ScreenSettles
  <2>1. OneLoop /\ TypeOK
    BY <1>1, LoopIsOne DEF PageInv, AskedInv
  <2>2. ASSUME waiting = <<>>, failures = 0
        PROVE  /\ shown = sessionId \/ late
               /\ disabled = Disabled(activeRunId, starting, sessionBusy)
    <3>1. DOMAIN waiting = {}
      BY <2>2
    <3>2. QED BY <1>1, <2>2, <3>1 DEF PageInv, ButtonsInv, ShownInv
  <2>3. QED BY <2>1, <2>2 DEF ScreenSettles
<1>2. QED BY <1>1, PageIsInOrder, PTL

===============================================================================
