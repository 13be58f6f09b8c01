------------------------------ MODULE DaemonProofs ------------------------------
(***************************************************************************)
(* Proofs about Daemon and PluginHost, for any plugins, manifests, tools,  *)
(* requests, runs and signals.                                             *)
(*                                                                         *)
(* First the order of the set-up.  OrderOf is a recursive function on sets *)
(* of plugins; that it has a value at all, and what the value is, follows  *)
(* for all sets because there is no smallest set for which it does not.    *)
(* Then the invariant of the host, which says of every place in the order  *)
(* what has become of the plugin there, with one lemma for each kind of    *)
(* step; and the invariant of the daemon, which says how far daemon,       *)
(* runtime, host, requests and runs can be with one another.               *)
(***************************************************************************)
EXTENDS Daemon, FiniteSetTheorems, TLAPS

-----------------------------------------------------------------------------
(* The order of the set-up.                                                *)

\* A member of a set of sets with no other member below it.
Minimal(U, T) == U \in T /\ \A V \in T : V \subseteq U => V = U

\* A set of finite sets that is not empty has such a member.
LEMMA Smallest ==
  ASSUME NEW S, IsFiniteSet(S), NEW T, T \subseteq SUBSET S, T # {}
  PROVE  \E U : Minimal(U, T)
<1>1. T \subseteq FiniteSubsetsOf(S)
  BY FS_FiniteSubsetsOfFinite
<1>2. IsWellFoundedOn(StrictSubsetOrdering(S), FiniteSubsetsOf(S))
  BY FS_StrictSubsetOrderingWellFounded
<1>3. PICK U \in T : \A V \in T : ~(<<V, U>> \in StrictSubsetOrdering(S))
  BY <1>1, <1>2, WFMin
<1>4. QED
  BY <1>3 DEF StrictSubsetOrdering, Minimal

\* A finite set of numbers that is not empty has a largest one.
LEMMA Largest ==
  ASSUME NEW S \in SUBSET Nat, IsFiniteSet(S), S # {}
  PROVE  \E m \in S : \A n \in S : n <= m
<1> DEFINE Bounded(U) == U # {} => \E m \in U : \A n \in U : n <= m
           Bad == {U \in SUBSET S : ~Bounded(U)}
<1>1. SUFFICES ASSUME Bad # {} PROVE FALSE
  OBVIOUS
<1>2. PICK U : Minimal(U, Bad)
  <2>1. Bad \subseteq SUBSET S /\ Bad # {}
    BY <1>1
  <2> HIDE DEF Bad
  <2>2. QED BY <2>1, Smallest
<1>3. U \in Bad /\ \A V \in Bad : V \subseteq U => V = U
  BY <1>2 DEF Minimal
<1>4. PICK x \in U : TRUE
  <2>1. U # {} BY <1>3
  <2>2. QED BY <2>1
<1>5. Bounded(U \ {x})
  <2>1. U \ {x} \subseteq U /\ U \ {x} # U /\ U \ {x} \in SUBSET S
    BY <1>3, <1>4
  <2>2. U \ {x} \notin Bad
    BY <1>3, <2>1
  <2>3. QED BY <2>1, <2>2
<1>6. CASE U \ {x} = {}
  <2>1. U = {x} BY <1>4, <1>6
  <2>2. QED BY <1>3, <2>1
<1>7. CASE U \ {x} # {}
  <2>1. PICK m \in U \ {x} : \A n \in U \ {x} : n <= m
    BY <1>5, <1>7
  <2>2. \A n \in U : n <= IF m <= x THEN x ELSE m
    BY <2>1, <1>3, <1>4
  <2>3. QED BY <1>3, <1>4, <2>1, <2>2
<1>8. QED BY <1>6, <1>7

\* An enumeration of a set, each of its members once.
Lists(s, S) ==
  /\ s \in [1 .. Cardinality(S) -> S]
  /\ \A i, j \in 1 .. Cardinality(S) : s[i] = s[j] => i = j
  /\ \A x \in S : \E i \in 1 .. Cardinality(S) : s[i] = x

Ascending(s, S) == Lists(s, S) /\ \A i, j \in 1 .. Cardinality(S) : i < j => s[i] < s[j]

\* Sorting is possible.
LEMMA CanBeSorted ==
  ASSUME NEW S \in SUBSET Nat, IsFiniteSet(S)
  PROVE  \E s : Ascending(s, S)
<1> DEFINE Bad == {U \in SUBSET S : ~\E s : Ascending(s, U)}
<1>1. SUFFICES ASSUME Bad # {} PROVE FALSE
  OBVIOUS
<1>2. PICK U : Minimal(U, Bad)
  <2>1. Bad \subseteq SUBSET S /\ Bad # {}
    BY <1>1
  <2> HIDE DEF Bad
  <2>2. QED BY <2>1, Smallest
<1>3. U \in Bad /\ \A V \in Bad : V \subseteq U => V = U
  BY <1>2 DEF Minimal
<1>4. IsFiniteSet(U)
  BY <1>3, FS_Subset
<1>5. U # {}
  <2>1. Ascending([i \in 1 .. 0 |-> 0], {})
    BY FS_EmptySet DEF Ascending, Lists
  <2>2. QED BY <1>3, <2>1
<1>6. PICK m \in U : \A n \in U : n <= m
  BY <1>3, <1>4, <1>5, Largest
<1> DEFINE V == U \ {m}
           k == Cardinality(V)
<1>7. IsFiniteSet(V) /\ k \in Nat /\ Cardinality(U) = k + 1
  <2>1. IsFiniteSet(V) /\ Cardinality(V) = Cardinality(U) - 1
    BY <1>4, <1>6, FS_RemoveElement
  <2>2. Cardinality(V) \in Nat /\ Cardinality(U) \in Nat
    BY <1>4, <2>1, FS_CardinalityType
  <2>3. QED BY <2>1, <2>2
<1>8. PICK s : Ascending(s, V)
  BY <1>3
<1> DEFINE t == [i \in 1 .. k + 1 |-> IF i <= k THEN s[i] ELSE m]
<1>9. Ascending(t, U)
  <2>1. /\ s \in [1 .. k -> V]
        /\ \A i, j \in 1 .. k : s[i] = s[j] => i = j
        /\ \A x \in V : \E i \in 1 .. k : s[i] = x
        /\ \A i, j \in 1 .. k : i < j => s[i] < s[j]
    BY <1>8 DEF Ascending, Lists
  <2> HIDE DEF k
  <2>2. \A i \in 1 .. k : s[i] \in U /\ s[i] # m /\ s[i] \in Nat /\ s[i] < m
    <3>1. \A i \in 1 .. k : s[i] \in V
      BY <2>1
    <3>2. \A x \in V : x \in U /\ x # m /\ x \in Nat /\ x <= m /\ m \in Nat
      BY <1>6, <1>3
    <3> HIDE DEF V
    <3>3. \A x \in V : x < m
      BY <3>2
    <3>4. QED BY <3>1, <3>2, <3>3
  <2>3. /\ k + 1 \in 1 .. k + 1 /\ t[k + 1] = m
        /\ \A i \in 1 .. k : i \in 1 .. k + 1 /\ t[i] = s[i]
        /\ \A i \in 1 .. k + 1 : i \in 1 .. k \/ i = k + 1
    BY <1>7
  <2> HIDE DEF t
  <2>4. t \in [1 .. k + 1 -> U]
    <3>1. \A i \in 1 .. k + 1 : t[i] \in U
      BY <2>2, <2>3, <1>6
    <3>2. QED BY <3>1 DEF t
  <2>5. \A i, j \in 1 .. k + 1 : t[i] = t[j] => i = j
    BY <2>1, <2>2, <2>3
  <2>6. \A x \in U : \E i \in 1 .. k + 1 : t[i] = x
    <3>1. \A x \in V : \E i \in 1 .. k + 1 : t[i] = x
      BY <2>1, <2>3
    <3>2. QED BY <3>1, <2>3
  <2>7. \A i, j \in 1 .. k + 1 : i < j => t[i] < t[j]
    <3> SUFFICES ASSUME NEW i \in 1 .. k + 1, NEW j \in 1 .. k + 1, i < j
                 PROVE  t[i] < t[j]
      OBVIOUS
    <3>1. i \in 1 .. k BY <1>7
    <3>2. CASE j \in 1 .. k BY <3>1, <3>2, <2>1, <2>3
    <3>3. CASE j = k + 1 BY <3>1, <3>3, <2>2, <2>3
    <3>4. QED BY <3>2, <3>3, <2>3
  <2>8. QED BY <2>4, <2>5, <2>6, <2>7, <1>7 DEF Ascending, Lists
<1>10. QED BY <1>3, <1>9

\* A function into a set from as many numbers as it has members, none twice, lists it.
LEMMA IntoLists ==
  ASSUME NEW S, IsFiniteSet(S), NEW s \in [1 .. Cardinality(S) -> S],
         \A i, j \in 1 .. Cardinality(S) : s[i] = s[j] => i = j
  PROVE  Lists(s, S)
<1>1. Cardinality(S) \in Nat
  BY FS_CardinalityType
<1>2. IsFiniteSet(1 .. Cardinality(S)) /\ Cardinality(1 .. Cardinality(S)) = Cardinality(S)
  BY <1>1, FS_Interval
<1>3. s \in Injection(1 .. Cardinality(S), S)
  BY DEF Injection, IsInjective
<1>4. s \in Surjection(1 .. Cardinality(S), S)
  BY <1>2, <1>3, FS_Injection
<1>5. QED BY <1>4 DEF Surjection, Lists

\* Sorting a set of ids lists the set.
LEMMA SortedLists ==
  ASSUME NEW S \in SUBSET Nat, IsFiniteSet(S)
  PROVE  Sorted(S) \in Seq(S) /\ Lists(Sorted(S), S) /\ Len(Sorted(S)) = Cardinality(S)
<1> DEFINE n == Cardinality(S)
           s == Sorted(S)
<1>1. n \in Nat
  BY FS_CardinalityType
<1>2. PICK e : Ascending(e, S)
  BY CanBeSorted
<1>3. s \in [1 .. n -> S] /\ \A i, j \in DOMAIN s : i < j => s[i] < s[j]
  <2>1. e \in [1 .. n -> S] /\ \A i, j \in DOMAIN e : i < j => e[i] < e[j]
    BY <1>2 DEF Ascending, Lists
  <2>2. QED BY <2>1 DEF Sorted
<1> HIDE DEF s
<1>4. \A i, j \in 1 .. n : s[i] = s[j] => i = j
  <2> SUFFICES ASSUME NEW i \in 1 .. n, NEW j \in 1 .. n, s[i] = s[j], i # j PROVE FALSE
    OBVIOUS
  <2>1. (i < j \/ j < i) /\ s[i] \in Nat /\ s[j] \in Nat
    <3>1. i \in Nat /\ j \in Nat /\ (i < j \/ j < i)
      BY <1>1
    <3>2. s[i] \in S /\ s[j] \in S
      BY <1>3
    <3>3. QED BY <3>1, <3>2
  <2>2. s[i] < s[j] \/ s[j] < s[i]
    BY <1>3, <2>1
  <2>3. QED BY <2>1, <2>2
<1>5. Lists(s, S)
  BY <1>3, <1>4, IntoLists
<1>6. s \in Seq(S) /\ Len(s) = n
  BY <1>1, <1>3
<1>7. QED BY <1>5, <1>6 DEF s

\* What the loop of orderPlugins does with the plugins left over, after which f goes on.
Free(d, left) == {p \in left : d[p] \cap left = {}}
Layer(d, f, left) ==
  IF Free(d, left) = {} THEN <<>> ELSE Sorted(Free(d, left)) \o f[left \ Free(d, left)]
IsLayers(d, f, U) == f = [left \in SUBSET U |-> Layer(d, f, left)]

\* There is only one way to go on.
LEMMA OneLayers ==
  ASSUME NEW d, NEW f, NEW g, NEW U \in SUBSET Plugins, NEW V \in SUBSET Plugins,
         IsLayers(d, f, U), IsLayers(d, g, V), NEW X \in SUBSET U, X \in SUBSET V
  PROVE  f[X] = g[X]
<1> DEFINE Bad == {W \in SUBSET (U \cap V) : f[W] # g[W]}
<1>1. SUFFICES ASSUME Bad # {} PROVE FALSE
  OBVIOUS
<1>2. PICK W : Minimal(W, Bad)
  <2>1. Bad \subseteq SUBSET Plugins /\ Bad # {} /\ IsFiniteSet(Plugins)
    BY <1>1, PluginAssumption
  <2> HIDE DEF Bad
  <2>2. QED BY <2>1, Smallest
<1>3. W \in Bad /\ \A Y \in Bad : Y \subseteq W => Y = W
  BY <1>2 DEF Minimal
<1> DEFINE Rest == W \ Free(d, W)
<1>4. f[W] = Layer(d, f, W) /\ g[W] = Layer(d, g, W)
  BY <1>3 DEF IsLayers
<1>5. Free(d, W) # {}
  BY <1>3, <1>4 DEF Layer
<1>6. Rest \subseteq W /\ Rest # W
  BY <1>5 DEF Free
<1>7. f[Rest] = g[Rest]
  BY <1>3, <1>6
<1>8. QED BY <1>3, <1>4, <1>5, <1>7 DEF Layer

\* The recursion of OrderOf has a solution.
LEMMA LayersExist ==
  ASSUME NEW d, NEW U \in SUBSET Plugins
  PROVE  \E f : IsLayers(d, f, U)
<1> DEFINE Bad == {W \in SUBSET U : ~\E f : IsLayers(d, f, W)}
<1>1. SUFFICES ASSUME Bad # {} PROVE FALSE
  OBVIOUS
<1>2. PICK W : Minimal(W, Bad)
  <2>1. Bad \subseteq SUBSET Plugins /\ Bad # {} /\ IsFiniteSet(Plugins)
    BY <1>1, PluginAssumption
  <2> HIDE DEF Bad
  <2>2. QED BY <2>1, Smallest
<1>3. W \in Bad /\ \A Y \in Bad : Y \subseteq W => Y = W
  BY <1>2 DEF Minimal
<1> DEFINE of(Y) == CHOOSE f : IsLayers(d, f, Y)
           next(left) == of(left \ Free(d, left))[left \ Free(d, left)]
           h == [left \in SUBSET W |->
                   IF Free(d, left) = {} THEN <<>> ELSE Sorted(Free(d, left)) \o next(left)]
<1>4. \A Y \in SUBSET W : Y # W => IsLayers(d, of(Y), Y)
  BY <1>3
<1>5. ASSUME NEW left \in SUBSET W, Free(d, left) # {}
      PROVE  h[left \ Free(d, left)] = next(left)
  <2> DEFINE Y == left \ Free(d, left)
  <2>1. Y \in SUBSET W /\ Y # W
    BY <1>5 DEF Free
  <2>2. of(Y)[Y] = Layer(d, of(Y), Y)
    <3>1. IsLayers(d, of(Y), Y)
      BY <2>1, <1>4
    <3> HIDE DEF Y, of
    <3>2. QED BY <3>1 DEF IsLayers
  <2>3. CASE Free(d, Y) = {}
    BY <2>1, <2>2, <2>3 DEF Layer
  <2>4. CASE Free(d, Y) # {}
    <3> DEFINE Z == Y \ Free(d, Y)
    <3>1. Z \in SUBSET Y /\ Z \in SUBSET W /\ Z # W
      BY <2>1
    <3>2. of(Y)[Z] = of(Z)[Z]
      <4>1. IsLayers(d, of(Y), Y) /\ IsLayers(d, of(Z), Z)
        BY <2>1, <3>1, <1>4
      <4>2. Y \in SUBSET Plugins /\ Z \in SUBSET Plugins /\ Z \in SUBSET Z
        BY <2>1, <3>1, <1>3
      <4> HIDE DEF Y, Z, of
      <4>3. QED BY <4>1, <4>2, <3>1, OneLayers
    <3>3. h[Y] = Sorted(Free(d, Y)) \o of(Z)[Z]
      BY <2>1, <2>4
    <3>4. QED BY <2>2, <2>4, <3>2, <3>3 DEF Layer
  <2>5. QED BY <2>3, <2>4
<1>6. IsLayers(d, h, W)
  <2>1. \A left \in SUBSET W : h[left] = Layer(d, h, left)
    <3> SUFFICES ASSUME NEW left \in SUBSET W PROVE h[left] = Layer(d, h, left)
      OBVIOUS
    <3>1. h[left] = IF Free(d, left) = {} THEN <<>> ELSE Sorted(Free(d, left)) \o next(left)
      OBVIOUS
    <3> HIDE DEF h, next
    <3>2. QED BY <3>1, <1>5 DEF Layer
  <2>2. h = [left \in SUBSET W |-> h[left]]
    OBVIOUS
  <2> HIDE DEF h
  <2>3. QED BY <2>1, <2>2 DEF IsLayers
<1>7. QED BY <1>3, <1>6

\* What OrderOf says of plugins: none twice, and each after those of its dependencies that are
\* among them.
Orders(s, d, left) ==
  /\ s \in Seq(left)
  /\ \A i, j \in 1 .. Len(s) : s[i] = s[j] => i = j
  /\ \A i \in 1 .. Len(s) : \A q \in d[s[i]] \cap left : \E j \in 1 .. Len(s) : j < i /\ s[j] = q

\* What the recursion says of a set of plugins orders them, whatever it leaves out.
LEMMA LayersOrder ==
  ASSUME NEW d \in Manifests, NEW f, IsLayers(d, f, Plugins), NEW U \in SUBSET Plugins
  PROVE  Orders(f[U], d, U)
<1> DEFINE Bad == {W \in SUBSET U : ~Orders(f[W], d, W)}
<1>1. SUFFICES ASSUME Bad # {} PROVE FALSE
  OBVIOUS
<1>2. PICK W : Minimal(W, Bad)
  <2>1. Bad \subseteq SUBSET Plugins /\ Bad # {} /\ IsFiniteSet(Plugins)
    BY <1>1, PluginAssumption
  <2> HIDE DEF Bad
  <2>2. QED BY <2>1, Smallest
<1>3. W \in SUBSET Plugins /\ W \in Bad /\ \A Y \in Bad : Y \subseteq W => Y = W
  BY <1>2 DEF Minimal
<1>4. f[W] = Layer(d, f, W)
  BY <1>3 DEF IsLayers
<1>5. CASE Free(d, W) = {}
  <2>1. f[W] = <<>> BY <1>4, <1>5 DEF Layer
  <2>2. Orders(<<>>, d, W) BY DEF Orders
  <2>3. QED BY <1>3, <2>1, <2>2
<1>6. CASE Free(d, W) # {}
  <2> DEFINE F == Free(d, W)
             R == W \ F
             a == Sorted(F)
             b == f[R]
  <2>1. F \subseteq W /\ R \subseteq W /\ R # W
    BY <1>6 DEF Free
  <2>2. Orders(b, d, R)
    BY <1>3, <2>1
  <2>3. F \in SUBSET Nat /\ IsFiniteSet(F)
    BY <2>1, <1>3, FS_Subset, PluginAssumption
  <2>4. a \in Seq(F) /\ Lists(a, F) /\ Len(a) = Cardinality(F)
    BY <2>3, SortedLists
  <2>5. f[W] = a \o b
    BY <1>4, <1>6 DEF Layer
  <2>6. \A p \in F : d[p] \cap W = {}
    BY DEF Free
  <2> HIDE DEF F, a, b
  <2>7. Orders(a \o b, d, W)
    <3>1. /\ \A i, j \in 1 .. Len(a) : a[i] = a[j] => i = j
          /\ \A x \in F : \E i \in 1 .. Len(a) : a[i] = x
          /\ \A i \in 1 .. Len(a) : a[i] \in F
          /\ Len(a) \in Nat
      BY <2>4 DEF Lists
    <3>2. /\ b \in Seq(R) /\ Len(b) \in Nat
          /\ \A i \in 1 .. Len(b) : b[i] \in R
          /\ \A i, j \in 1 .. Len(b) : b[i] = b[j] => i = j
          /\ \A i \in 1 .. Len(b) : \A q \in d[b[i]] \cap R : \E j \in 1 .. Len(b) : j < i /\ b[j] = q
      BY <2>2 DEF Orders
    <3> DEFINE s == a \o b
               m == Len(a)
               n == Len(b)
    <3>3. /\ s \in Seq(W) /\ Len(s) = m + n
          /\ \A i \in 1 .. m : s[i] = a[i]
          /\ \A i \in 1 .. n : s[m + i] = b[i]
      BY <2>1, <2>4, <3>2
    <3>4. \A i \in 1 .. m + n : i \in 1 .. m \/ \E k \in 1 .. n : i = m + k
      <4> SUFFICES ASSUME NEW i \in 1 .. m + n, i \notin 1 .. m
                   PROVE  \E k \in 1 .. n : i = m + k
        OBVIOUS
      <4>1. i - m \in 1 .. n /\ i = m + (i - m)
        BY <3>1, <3>2
      <4>2. QED BY <4>1
    <3>5. /\ \A i \in 1 .. m : i \in 1 .. m + n
          /\ \A i \in 1 .. n : m + i \in 1 .. m + n
          /\ \A i \in 1 .. m, k \in 1 .. n : i < m + k
          /\ \A i, j \in 1 .. n : i < j => m + i < m + j
      BY <3>1, <3>2
    <3>6. F \cap R = {} /\ \A x \in W : x \in F \/ x \in R
      OBVIOUS
    <3> HIDE DEF s, m, n, R
    <3>7. \A i, j \in 1 .. m + n : s[i] = s[j] => i = j
      <4>1. \A i, j \in 1 .. m : s[i] = s[j] => i = j
        BY <3>1, <3>3 DEF m
      <4>2. \A i, j \in 1 .. n : s[m + i] = s[m + j] => i = j
        BY <3>2, <3>3 DEF n
      <4>3. \A i \in 1 .. m, k \in 1 .. n : s[i] # s[m + k]
        BY <3>1, <3>2, <3>3, <3>6 DEF m, n
      <4>4. QED BY <3>4, <4>1, <4>2, <4>3
    <3>8. ASSUME NEW i \in 1 .. m + n, NEW q \in d[s[i]] \cap W
          PROVE  \E j \in 1 .. m + n : j < i /\ s[j] = q
      <4>1. CASE i \in 1 .. m
        BY <4>1, <2>6, <3>1, <3>3, <3>8 DEF m
      <4>2. ASSUME NEW k \in 1 .. n, i = m + k
            PROVE  \E j \in 1 .. m + n : j < i /\ s[j] = q
        <5>1. CASE q \in F
          <6>1. PICK j \in 1 .. m : a[j] = q
            BY <5>1, <3>1 DEF m
          <6>2. j < i /\ s[j] = q /\ j \in 1 .. m + n
            BY <6>1, <4>2, <3>3, <3>5
          <6>3. QED BY <6>2
        <5>2. CASE q \in R
          <6>1. s[i] = b[k]
            BY <4>2, <3>3
          <6>2. PICK j \in 1 .. n : j < k /\ b[j] = q
            BY <5>2, <6>1, <3>2, <3>8 DEF n
          <6>3. m + j < i /\ s[m + j] = q /\ m + j \in 1 .. m + n
            BY <6>2, <4>2, <3>3, <3>5
          <6>4. QED BY <6>3
        <5>3. QED BY <5>1, <5>2, <3>6, <3>8
      <4>3. QED BY <4>1, <4>2, <3>4
    <3>9. s \in Seq(W) /\ Len(s) = m + n
      BY <3>3
    <3>10. Orders(s, d, W)
      BY <3>7, <3>8, <3>9 DEF Orders
    <3>11. QED BY <3>10 DEF s
  <2>8. QED BY <1>3, <2>5, <2>7
<1>7. QED BY <1>5, <1>6

\* The recursion of OrderOf is the one that has a solution.
LEMMA LayersOf ==
  ASSUME NEW d
  PROVE  \E f : IsLayers(d, f, Plugins) /\ OrderOf(d) = f[Plugins]
<1> DEFINE layers == CHOOSE f : f = [left \in SUBSET Plugins |->
                       LET free == {p \in left : d[p] \cap left = {}}
                       IN IF free = {} THEN <<>> ELSE Sorted(free) \o f[left \ free]]
<1>1. OrderOf(d) = layers[Plugins]
  BY DEF OrderOf
<1>2. layers = CHOOSE f : IsLayers(d, f, Plugins)
  BY DEF IsLayers, Layer, Free
<1>3. IsLayers(d, layers, Plugins)
  <2> HIDE DEF layers
  <2>1. QED BY <1>2, LayersExist
<1>4. QED
  <2> HIDE DEF layers
  <2>1. QED BY <1>1, <1>3

\* OrderOf orders the plugins it lists.
LEMMA OrderOrders ==
  ASSUME NEW d \in Manifests
  PROVE  Orders(OrderOf(d), d, Plugins)
BY LayersOf, LayersOrder

\* The order of plugins that can be ordered: each of them once, after its dependencies.
Complete(s, d) ==
  /\ s \in [1 .. Cardinality(Plugins) -> Plugins] /\ Len(s) = Cardinality(Plugins)
  /\ \A i, j \in 1 .. Cardinality(Plugins) : s[i] = s[j] => i = j
  /\ \A p \in Plugins : \E i \in 1 .. Cardinality(Plugins) : s[i] = p
  /\ \A i \in 1 .. Cardinality(Plugins) : \A q \in d[s[i]] :
       \E j \in 1 .. Cardinality(Plugins) : j < i /\ s[j] = q

\* An order that is not refused lists every plugin.
LEMMA OrderIsComplete ==
  ASSUME NEW d \in Manifests, ~Unorderable(d)
  PROVE  Complete(OrderOf(d), d)
<1> DEFINE s == OrderOf(d)
           N == Cardinality(Plugins)
<1>1. IsFiniteSet(Plugins) /\ N \in Nat
  BY PluginAssumption, FS_CardinalityType
<1>2. /\ s \in Seq(Plugins) /\ Len(s) \in Nat
      /\ \A i, j \in 1 .. Len(s) : s[i] = s[j] => i = j
      /\ \A i \in 1 .. Len(s) : \A q \in d[s[i]] \cap Plugins :
           \E j \in 1 .. Len(s) : j < i /\ s[j] = q
  BY OrderOrders DEF Orders
<1>3. ~(Len(s) < N) /\ \A p \in Plugins : d[p] \subseteq Plugins
  BY DEF Unorderable
<1> HIDE DEF s, N
<1>4. s \in [1 .. Len(s) -> Plugins]
  BY <1>2
<1>5. Len(s) <= N
  <2>1. s \in Injection(1 .. Len(s), Plugins)
    BY <1>2, <1>4 DEF Injection, IsInjective
  <2>2. Cardinality(1 .. Len(s)) <= N
    BY <1>1, <2>1, FS_Injection DEF N
  <2>3. Cardinality(1 .. Len(s)) = Len(s)
    BY <1>2, FS_Interval
  <2>4. QED BY <2>2, <2>3
<1>6. Len(s) = N
  BY <1>1, <1>2, <1>3, <1>5
<1>7. Lists(s, Plugins)
  BY <1>1, <1>2, <1>4, <1>6, IntoLists DEF N
<1>8. \A i \in 1 .. N : \A q \in d[s[i]] : \E j \in 1 .. N : j < i /\ s[j] = q
  BY <1>2, <1>3, <1>4, <1>6
<1>9. QED BY <1>2, <1>4, <1>6, <1>7, <1>8 DEF Complete, Lists, N, s

\* Plugins each of which waits for one of them: a cycle.
Blocked(d, C) == C # {} /\ \A p \in C : d[p] \cap C # {}

\* Plugins without a cycle among them are all listed.
LEMMA LayersList ==
  ASSUME NEW d \in Manifests, NEW f, IsLayers(d, f, Plugins), NEW U \in SUBSET Plugins,
         \A C \in SUBSET U : ~Blocked(d, C)
  PROVE  Len(f[U]) = Cardinality(U)
<1> DEFINE Bad == {W \in SUBSET U : Len(f[W]) # Cardinality(W)}
<1>1. SUFFICES ASSUME Bad # {} PROVE FALSE
  OBVIOUS
<1>2. PICK W : Minimal(W, Bad)
  <2>1. Bad \subseteq SUBSET Plugins /\ Bad # {} /\ IsFiniteSet(Plugins)
    BY <1>1, PluginAssumption
  <2> HIDE DEF Bad
  <2>2. QED BY <2>1, Smallest
<1>3. W \in SUBSET U /\ W \in Bad /\ \A Y \in Bad : Y \subseteq W => Y = W
  BY <1>2 DEF Minimal
<1>4. f[W] = Layer(d, f, W)
  BY <1>3 DEF IsLayers
<1>5. CASE W = {}
  <2>1. Free(d, W) = {} /\ Cardinality(W) = 0
    BY <1>5, FS_EmptySet DEF Free
  <2>2. QED BY <1>3, <1>4, <2>1 DEF Layer
<1>6. CASE W # {}
  <2> DEFINE F == Free(d, W)
             R == W \ F
  <2>1. F # {} /\ F \subseteq W
    BY <1>3, <1>6 DEF Blocked, Free
  <2>2. R \in SUBSET U /\ R \subseteq W /\ R # W
    BY <1>3, <2>1
  <2>3. Len(f[R]) = Cardinality(R)
    BY <1>3, <2>2
  <2>4. IsFiniteSet(W) /\ IsFiniteSet(F) /\ F \in SUBSET Nat
    BY <1>3, <2>1, FS_Subset, PluginAssumption
  <2>5. Sorted(F) \in Seq(F) /\ Len(Sorted(F)) = Cardinality(F)
    BY <2>4, SortedLists
  <2>6. f[R] \in Seq(R)
    BY <2>2, LayersOrder DEF Orders
  <2>7. f[W] = Sorted(F) \o f[R]
    BY <1>4, <2>1 DEF Layer
  <2>8. Cardinality(W) = Cardinality(F) + Cardinality(R)
    <3>1. W \cap F = F
      BY <2>1
    <3>2. Cardinality(R) = Cardinality(W) - Cardinality(F)
      BY <2>4, <3>1, FS_Difference
    <3>3. Cardinality(W) \in Nat /\ Cardinality(F) \in Nat
      BY <2>4, FS_CardinalityType
    <3>4. QED BY <3>2, <3>3
  <2> HIDE DEF F, R
  <2>9. Len(f[W]) = Len(Sorted(F)) + Len(f[R])
    BY <2>5, <2>6, <2>7
  <2>10. QED BY <1>3, <2>3, <2>5, <2>8, <2>9
<1>7. QED BY <1>5, <1>6

\* Where all plugins are in order there is no cycle: its first plugin would wait for nobody.
LEMMA CycleBlocks ==
  ASSUME NEW d \in Manifests, NEW s, Complete(s, d), NEW C \in SUBSET Plugins
  PROVE  ~Blocked(d, C)
<1> SUFFICES ASSUME Blocked(d, C) PROVE FALSE
  OBVIOUS
<1> DEFINE N == Cardinality(Plugins)
           J == {j \in 0 .. N : s[N - j] \in C /\ N - j \in 1 .. N}
<1>1. N \in Nat
  BY PluginAssumption, FS_CardinalityType
<1>2. \A i \in 1 .. N : s[i] \in C => N - i \in J
  <2> SUFFICES ASSUME NEW i \in 1 .. N, s[i] \in C PROVE N - i \in J
    OBVIOUS
  <2>1. N - i \in 0 .. N /\ N - (N - i) = i
    BY <1>1
  <2>2. QED BY <2>1
<1>3. J # {}
  <2>1. PICK p \in C : TRUE
    BY DEF Blocked
  <2>2. PICK i \in 1 .. N : s[i] = p
    BY <2>1 DEF Complete
  <2>3. QED BY <1>2, <2>1, <2>2
<1>4. J \in SUBSET Nat /\ IsFiniteSet(J)
  <2>1. J \in SUBSET Nat /\ \A j \in J : j <= N
    BY <1>1
  <2> HIDE DEF J
  <2>2. QED BY <1>1, <2>1, FS_BoundedSetOfNaturals
<1>5. PICK j \in J : \A k \in J : k <= j
  <2> HIDE DEF J
  <2>1. QED BY <1>3, <1>4, Largest
<1> DEFINE i == N - j
<1>6. i \in 1 .. N /\ s[i] \in C /\ j \in Nat
  BY <1>4, <1>5
<1>7. PICK q \in d[s[i]] : q \in C
  BY <1>6 DEF Blocked
<1>8. PICK h \in 1 .. N : h < i /\ s[h] = q
  BY <1>6, <1>7 DEF Complete
<1>9. N - h \in J
  BY <1>2, <1>7, <1>8
<1>10. N - h <= N - i
  BY <1>1, <1>5, <1>6, <1>9
<1>11. QED BY <1>1, <1>6, <1>8, <1>10

-----------------------------------------------------------------------------
(* The invariant of the host.                                              *)

\* How far the host is with a plugin.
Untouched(p) == entry[p] = "none" /\ doing[p] = "nothing" /\ stops[p] = 0
SettingUp(p) == entry[p] = "stopped" /\ doing[p] \in {"connecting", "listing"} /\ stops[p] = 0
SetUp(p) == entry[p] = "stopped" /\ doing[p] = "nothing" /\ stops[p] = 0
BeingStarted(p) == entry[p] = "stopped" /\ doing[p] = "starting" /\ stops[p] = 0
Ready(p) == entry[p] = "ready" /\ doing[p] = "nothing" /\ stops[p] = 0
BeingStopped(p) == entry[p] = "stopped" /\ doing[p] \in {"terminating", "closing"} /\ stops[p] = 1
Ended(p) == entry[p] = "stopped" /\ doing[p] = "nothing" /\ stops[p] = 1

Places == 1 .. Cardinality(Plugins)

OrderInv == IF host.at = "refused" THEN order = <<>> ELSE Complete(order, deps)

SetupInv == host.at = "setup" =>
  /\ host.next \in Places
  /\ \A i \in Places :
       /\ i < host.next => SetUp(order[i])
       /\ i = host.next => Untouched(order[i]) \/ SettingUp(order[i])
       /\ i > host.next => Untouched(order[i])

StartInv == host.at = "start" =>
  /\ host.next \in Places
  /\ \A i \in Places :
       /\ i < host.next => Ready(order[i])
       /\ i = host.next => SetUp(order[i]) \/ BeingStarted(order[i])
       /\ i > host.next => SetUp(order[i])

OpenInv == host.at = "open" => \A p \in Plugins : Ready(p)

StopInv == Stopping =>
  /\ host.next \in 0 .. Cardinality(Plugins)
  /\ \A i \in Places :
       /\ i < host.next => SetUp(order[i]) \/ Ready(order[i])
       /\ i = host.next => SetUp(order[i]) \/ Ready(order[i]) \/ BeingStopped(order[i])
       /\ i > host.next => Ended(order[i]) \/ (host.at = "rollback" /\ Untouched(order[i]))

EndInv ==
  /\ host.at = "refused" => \A p \in Plugins : Untouched(p)
  /\ host.at = "thrown" => \A p \in Plugins : Untouched(p) \/ Ended(p)
  /\ host.at = "closed" => \A p \in Plugins : Ended(p)

\* Who is ready comes before who is not.
ReadyInv == host.at # "refused" =>
  \A i, j \in Places : i < j /\ entry[order[j]] = "ready" => entry[order[i]] = "ready"

SessionInv == \A p \in conn : entry[p] # "none" /\ (Ended(p) => p \in errors)
NamesInv == \A t, u \in tools : t.name = u.name => t.owner = u.owner

HostIInv ==
  /\ HostTypeOK /\ OrderInv
  /\ SetupInv /\ StartInv /\ OpenInv /\ StopInv /\ EndInv
  /\ ReadyInv /\ SessionInv /\ NamesInv

-----------------------------------------------------------------------------
(* The invariant of the daemon.                                            *)

ClosesRuntime == runtime \in {"admissions", "runs", "worker", "plugins", "database", "closed"}

\* Whose turn it is, of daemon, runtime and host.
StageInv ==
  /\ daemon \in {"booting", "failing"} => runtime = "unmade"
  /\ daemon = "serving" => runtime # "unmade"
  /\ daemon = "booting" => host.at \notin {"closing", "closed"} /\ cause = "none" /\ ~db
  /\ daemon = "failing" => host.at \in {"closing", "closed"}
  /\ runtime \in {"open", "admissions", "runs", "worker"} => host.at = "open"
  /\ runtime = "plugins" => host.at \in {"closing", "closed"}
  /\ runtime \in {"database", "closed"} => host.at = "closed"

\* Nobody asks before there is a server; when the runtime closes no client is left whose
\* request is in progress, and once the runs are aborted nobody is admitted.
ClientInv ==
  /\ runtime = "unmade" => \A q \in Requests : req[q] = "none"
  /\ \A q \in connected : req[q] \in {"inspecting", "admitting"}
  /\ ClosesRuntime => Drained /\ \E s \in Signals : sig[s] \in {"awaiting", "done"}
  /\ ClosesRuntime /\ runtime # "admissions" => \A q \in Requests : req[q] # "admitting"
  /\ \A q \in Inspections : \A p \in Plugins : check[q][p] = "out" => req[q] = "inspecting"
  /\ \A s \in Signals : /\ sig[s] # "none" => runtime # "unmade"
                        /\ sig[s] = "awaiting" => runtime # "open"

\* A tool is called by a run that is under way.
RunInv ==
  /\ \A r \in Runs, p \in Plugins : <<r, p>> \in calls => run[r] = "driver"
  /\ runtime = "unmade" => \A r \in Runs : run[r] = "none"
  /\ runtime \in {"worker", "plugins", "database", "closed"} => RunsAreOver

\* What close has met.
ErrorInv ==
  /\ runtime = "unmade" /\ db => cause # "none"
  /\ runtime \in {"database", "closed"} => errors = {} \/ failures
  /\ runtime = "closed" => (db => failures)
  /\ code = "ok" => runtime = "closed" /\ ~failures

DaemonIInv ==
  /\ TypeOK /\ HostIInv
  /\ StageInv /\ ClientInv /\ RunInv /\ ErrorInv
  /\ LeftOpenForCause

-----------------------------------------------------------------------------
(* The steps of the host and of the plugins.                               *)

\* There are as many places as plugins, and they can be counted.
LEMMA CountOfPlugins == Cardinality(Plugins) \in Nat
BY PluginAssumption, FS_CardinalityType

\* A host is in order before it begins.
LEMMA HostStarts == HostInit => HostIInv
<1> SUFFICES ASSUME HostInit PROVE HostIInv
  OBVIOUS
<1> USE DEF HostInit
<1>1. Cardinality(Plugins) \in Nat
  BY CountOfPlugins
<1>2. deps \in Manifests /\ OrderOf(deps) \in Seq(Plugins)
  BY OrderOrders DEF Orders
<1>3. OrderInv
  <2>1. CASE Unorderable(deps)
    BY <2>1 DEF OrderInv
  <2>2. CASE ~Unorderable(deps)
    <3>1. Complete(order, deps)
      BY <2>2, <1>2, OrderIsComplete
    <3>2. host.at # "refused"
      BY <2>2
    <3>3. QED BY <3>1, <3>2 DEF OrderInv
  <2>3. QED BY <2>1, <2>2
<1>4. \A p \in Plugins : Untouched(p)
  BY DEF Untouched
<1>5. host.at \in {"refused", "open", "setup"} /\ (host.at = "open" => Plugins = {}) /\ host.next = 1
      /\ (host.at = "setup" => Plugins # {})
  OBVIOUS
<1>6. HostTypeOK
  <2>1. order \in Seq(Plugins)
    BY <1>2
  <2>2. host \in [at : Positions, next : 0 .. Cardinality(Plugins) + 1]
    BY <1>1 DEF Positions
  <2>3. QED BY <2>1, <2>2 DEF HostTypeOK, Waits
<1>7. SetupInv
  <2> SUFFICES ASSUME host.at = "setup"
               PROVE  1 \in Places /\ \A i \in Places : Untouched(order[i]) /\ ~(i < 1)
    BY <1>5 DEF SetupInv
  <2>1. Complete(order, deps)
    BY <1>3 DEF OrderInv
  <2>2. Cardinality(Plugins) # 0
    BY <1>5, PluginAssumption, FS_EmptySet
  <2>3. QED BY <2>1, <2>2, <1>1, <1>4 DEF Places, Complete
<1>8. StartInv /\ OpenInv /\ StopInv /\ EndInv
  BY <1>4, <1>5 DEF StartInv, OpenInv, StopInv, EndInv, Stopping
<1>9. ReadyInv /\ SessionInv /\ NamesInv
  <2>1. ReadyInv
    <3> SUFFICES ASSUME host.at # "refused", NEW j \in Places, entry[order[j]] = "ready" PROVE FALSE
      BY DEF ReadyInv
    <3>1. order[j] \in Plugins
      BY <1>3 DEF OrderInv, Complete, Places
    <3>2. QED BY <3>1
  <2>2. QED BY <2>1 DEF SessionInv, NamesInv
<1>10. QED BY <1>3, <1>6, <1>7, <1>8, <1>9 DEF HostIInv

\* The plugins have their places, but for those of a host that is refused.
LEMMA PlacesOfPlugins ==
  ASSUME HostIInv, host.at # "refused"
  PROVE  /\ \A i \in Places : order[i] \in Plugins
         /\ \A i, j \in Places : order[i] = order[j] => i = j
         /\ \A p \in Plugins : \E i \in Places : order[i] = p
         /\ Len(order) = Cardinality(Plugins)
         /\ \A i \in Places : \A q \in deps[order[i]] : \E j \in Places : j < i /\ order[j] = q
BY DEF HostIInv, OrderInv, Complete, Places

\* The host waits for one plugin, the one its position says.
LEMMA Busy ==
  ASSUME HostIInv, NEW p \in Plugins, doing[p] # "nothing"
  PROVE  /\ host.next \in Places /\ order[host.next] = p
         /\ \/ host.at = "setup" /\ SettingUp(p)
            \/ host.at = "start" /\ BeingStarted(p)
            \/ Stopping /\ BeingStopped(p)
<1> USE DEF Untouched, SettingUp, SetUp, BeingStarted, Ready, BeingStopped, Ended
<1>1. host.at \notin {"refused", "thrown", "open", "closed"}
  BY DEF HostIInv, OpenInv, EndInv
<1>2. PICK i \in Places : order[i] = p
  BY <1>1, PlacesOfPlugins
<1>3. i \in Nat /\ (i < host.next \/ i = host.next \/ i > host.next)
  BY CountOfPlugins DEF HostIInv, HostTypeOK, Places
<1>4. host.at \in {"setup", "start", "rollback", "closing"}
  BY <1>1 DEF HostIInv, HostTypeOK, Positions
<1>5. CASE host.at = "setup"
  BY <1>2, <1>3, <1>5 DEF HostIInv, SetupInv
<1>6. CASE host.at = "start"
  BY <1>2, <1>3, <1>6 DEF HostIInv, StartInv
<1>7. CASE Stopping
  BY <1>2, <1>3, <1>7 DEF HostIInv, StopInv
<1>8. QED BY <1>4, <1>5, <1>6, <1>7 DEF Stopping

\* A plugin gets its entry, with which its set-up begins.
LEMMA BeginSetupKeeps == ASSUME HostIInv, NEW p \in Plugins, BeginSetup(p) PROVE HostIInv'
<1> USE DEF BeginSetup, Waiting
<1>1. host.at = "setup" /\ host.next \in Places /\ order[host.next] = p /\ Untouched(p)
  BY DEF HostIInv, SetupInv, Settled, SettingUp, Untouched
<1>2. \A i \in Places : order[i] \in Plugins /\ (i # host.next => order[i] # p)
  BY <1>1, PlacesOfPlugins
<1>3. HostTypeOK'
  BY DEF HostIInv, HostTypeOK, Waits, Registrations
<1>4. OrderInv' /\ StartInv' /\ OpenInv' /\ StopInv' /\ EndInv' /\ NamesInv'
  BY <1>1 DEF HostIInv, OrderInv, StartInv, OpenInv, StopInv, Stopping, EndInv, NamesInv
<1>5. SetupInv'
  <2>1. SettingUp(p)'
    BY <1>1 DEF HostIInv, HostTypeOK, SettingUp, Untouched
  <2>2. \A q \in Plugins : q # p => UNCHANGED <<entry[q], doing[q], stops[q]>>
    BY DEF HostIInv, HostTypeOK
  <2>3. QED BY <1>1, <1>2, <2>1, <2>2 DEF HostIInv, SetupInv, SetUp, Untouched, SettingUp, Places
<1>6. ReadyInv'
  BY <1>1, <1>2 DEF HostIInv, HostTypeOK, ReadyInv, SetupInv, SetUp, Untouched, SettingUp
<1>7. SessionInv'
  BY <1>1 DEF HostIInv, HostTypeOK, SessionInv, Ended, Untouched
<1>8. QED BY <1>3, <1>4, <1>5, <1>6, <1>7 DEF HostIInv

\* A plugin goes on with its set-up, its start or its stop.
LEMMA GoesOnKeeps ==
  ASSUME HostIInv, NEW p \in Plugins,
         Connected(p) \/ BeginStart(p) \/ \E fails \in BOOLEAN : Terminated(p, fails)
  PROVE  HostIInv'
<1> USE DEF Connected, BeginStart, Terminated, Waiting
<1>1. /\ host.next \in Places /\ order[host.next] = p
      /\ entry[p] = "stopped" /\ doing[p] \in Waits
      /\ \/ host.at = "setup" /\ SettingUp(p) /\ doing' = [doing EXCEPT ![p] = "listing"]
         \/ host.at = "start" /\ SetUp(p) /\ doing' = [doing EXCEPT ![p] = "starting"]
         \/ Stopping /\ BeingStopped(p) /\ doing' = [doing EXCEPT ![p] = "closing"]
  <2>1. CASE BeginStart(p)
    BY <2>1 DEF HostIInv, HostTypeOK, StartInv, Settled, SetUp, BeingStarted
  <2>2. CASE Connected(p) \/ \E fails \in BOOLEAN : Terminated(p, fails)
    BY <2>2, Busy DEF HostIInv, HostTypeOK, SettingUp, BeingStarted, BeingStopped
  <2>3. QED BY <2>1, <2>2
<1>2. \A i \in Places : order[i] \in Plugins /\ (i # host.next => order[i] # p)
  BY <1>1, PlacesOfPlugins DEF Stopping
<1>3. UNCHANGED <<deps, namespace, order, host, entry, stops, lifecycle, tools>>
  OBVIOUS
<1>4. /\ conn' \in {conn, conn \cup {p}} /\ errors' \in {errors, errors \cup {p}}
      /\ doing' \in [Plugins -> Waits]
      /\ \A q \in Plugins : q # p => doing'[q] = doing[q]
      /\ doing'[p] # "nothing"
  BY <1>1 DEF HostIInv, HostTypeOK, Waits
<1>5. HostTypeOK'
  BY <1>3, <1>4 DEF HostIInv, HostTypeOK, Registrations
<1>6. OrderInv' /\ ReadyInv' /\ NamesInv'
  BY <1>3 DEF HostIInv, OrderInv, ReadyInv, NamesInv
<1>7. \A q \in Plugins : q # p =>
        /\ UNCHANGED <<Untouched(q), SettingUp(q), SetUp(q), BeingStarted(q), Ready(q)>>
        /\ UNCHANGED <<BeingStopped(q), Ended(q)>>
  BY <1>3, <1>4
     DEF Untouched, SettingUp, SetUp, BeingStarted, Ready, BeingStopped, Ended
<1>8. /\ host.at = "setup" => SettingUp(p)'
      /\ host.at = "start" => BeingStarted(p)'
      /\ Stopping => BeingStopped(p)'
  BY <1>1, <1>3 DEF Stopping, HostIInv, HostTypeOK, SettingUp, SetUp, BeingStarted, BeingStopped
<1>9. SetupInv' /\ StartInv' /\ StopInv'
  <2>1. SetupInv'
    BY <1>1, <1>2, <1>3, <1>7, <1>8 DEF HostIInv, SetupInv, Places
  <2>2. StartInv'
    BY <1>1, <1>2, <1>3, <1>7, <1>8 DEF HostIInv, StartInv, Places
  <2>3. StopInv'
    BY <1>1, <1>2, <1>3, <1>7, <1>8 DEF HostIInv, StopInv, Stopping, Places
  <2>4. QED BY <2>1, <2>2, <2>3
<1>10. OpenInv' /\ EndInv'
  BY <1>1, <1>3 DEF OpenInv, EndInv, Stopping
<1>11. SessionInv'
  BY <1>1, <1>3, <1>4 DEF HostIInv, HostTypeOK, SessionInv, Ended
<1>12. QED BY <1>5, <1>6, <1>9, <1>10, <1>11 DEF HostIInv

\* The entries there are when the host is given up: those up to its position in the set-up,
\* and all of them in the start.
LEMMA CountOfEntries ==
  ASSUME HostIInv, host.at # "refused", NEW k \in Nat, k <= Cardinality(Plugins),
         \A i \in Places : entry[order[i]] # "none" <=> i <= k
  PROVE  Cardinality(Entries) = k
<1> DEFINE f == [i \in 1 .. k |-> order[i]]
<1>1. 1 .. k \subseteq Places
  BY CountOfPlugins DEF Places
<1>2. f \in [1 .. k -> Entries]
  BY <1>1, PlacesOfPlugins DEF Entries
<1>3. \A p \in Entries : \E i \in 1 .. k : f[i] = p
  <2> SUFFICES ASSUME NEW p \in Entries PROVE \E i \in 1 .. k : f[i] = p
    OBVIOUS
  <2>1. PICK i \in Places : order[i] = p
    BY PlacesOfPlugins DEF Entries
  <2>2. i \in 1 .. k
    BY <2>1, CountOfPlugins DEF Entries, Places
  <2>3. QED BY <2>1, <2>2
<1>4. \A i, j \in 1 .. k : f[i] = f[j] => i = j
  BY <1>1, PlacesOfPlugins
<1> HIDE DEF f
<1>5. f \in Bijection(1 .. k, Entries)
  BY <1>2, <1>3, <1>4 DEF Bijection, Injection, Surjection, IsInjective
<1>6. QED BY <1>5, FS_CountingElements DEF ExistsBijection

\* The set-up or the start of a plugin fails, and the host is given up.
LEMMA FailureKeeps ==
  ASSUME HostIInv, NEW p \in Plugins, doing[p] \in {"connecting", "listing", "starting"},
         Waiting(p, "nothing"), GiveUp,
         UNCHANGED <<deps, namespace, order, entry, conn, lifecycle, stops, errors, tools>>
  PROVE  HostIInv'
<1> USE DEF Waiting
<1>1. /\ host.next \in Places /\ order[host.next] = p
      /\ \/ host.at = "setup" /\ SettingUp(p)
         \/ host.at = "start" /\ BeingStarted(p)
  BY Busy DEF BeingStopped
<1>2. \A i \in Places : order[i] \in Plugins /\ (i # host.next => order[i] # p)
  BY <1>1, PlacesOfPlugins
<1>3. SetUp(p)'
  BY <1>1 DEF HostIInv, HostTypeOK, SetUp, SettingUp, BeingStarted
<1>4. \A q \in Plugins : q # p => UNCHANGED <<Untouched(q), SetUp(q), Ready(q)>>
  BY DEF HostIInv, HostTypeOK, Untouched, SetUp, Ready
<1>5. \E k \in 0 .. Cardinality(Plugins) :
        /\ host' = [at |-> "rollback", next |-> k]
        /\ \A i \in Places : /\ i <= k => SetUp(order[i])' \/ Ready(order[i])'
                             /\ i > k => Untouched(order[i])'
  <2>1. CASE host.at = "setup"
    <3> DEFINE k == host.next
    <3>1. k \in Nat /\ k <= Cardinality(Plugins)
      BY <1>1, CountOfPlugins DEF Places
    <3>2. \A i \in Places :
            /\ i < k => SetUp(order[i])
            /\ i = k => SettingUp(order[i])
            /\ i > k => Untouched(order[i])
            /\ i \in Nat
      BY <1>1, <2>1 DEF HostIInv, SetupInv, Places
    <3>3. \A i \in Places : entry[order[i]] # "none" <=> i <= k
      BY <3>1, <3>2 DEF SetUp, SettingUp, Untouched
    <3>4. Cardinality(Entries) = k
      BY <2>1, <3>1, <3>3, CountOfEntries
    <3>5. \A i \in Places : /\ i <= k => SetUp(order[i])'
                            /\ i > k => Untouched(order[i])'
      BY <1>1, <1>2, <1>3, <1>4, <3>1, <3>2
    <3>6. QED BY <3>1, <3>4, <3>5 DEF GiveUp, HostGoto
  <2>2. CASE host.at = "start"
    <3> DEFINE k == Cardinality(Plugins)
    <3>1. k \in Nat
      BY CountOfPlugins
    <3>2. \A i \in Places : i \in Nat /\ i <= k
      BY <3>1 DEF Places
    <3>3. \A i \in Places : i # host.next => SetUp(order[i]) \/ Ready(order[i])
      BY <1>1, <2>2, <3>1 DEF HostIInv, StartInv, Places
    <3>4. \A i \in Places : entry[order[i]] # "none"
      BY <1>1, <2>2, <3>3 DEF SetUp, Ready, BeingStarted
    <3>5. Cardinality(Entries) = k
      BY <2>2, <3>1, <3>2, <3>4, CountOfEntries
    <3>6. \A i \in Places : SetUp(order[i])' \/ Ready(order[i])'
      BY <1>1, <1>2, <1>3, <1>4, <3>3
    <3>7. k \in 0 .. k /\ \A i \in Places : ~(i > k)
      BY <3>1, <3>2
    <3>8. QED BY <3>5, <3>6, <3>7 DEF GiveUp, HostGoto
  <2>3. QED BY <1>1, <2>1, <2>2
<1>6. PICK k \in 0 .. Cardinality(Plugins) :
        /\ host' = [at |-> "rollback", next |-> k]
        /\ \A i \in Places : /\ i <= k => SetUp(order[i])' \/ Ready(order[i])'
                             /\ i > k => Untouched(order[i])'
  BY <1>5
<1>7. host'.at = "rollback" /\ host'.next = k
  BY <1>6
<1>8. HostTypeOK'
  <2>1. host' \in [at : Positions, next : 0 .. Cardinality(Plugins) + 1]
    BY <1>6, CountOfPlugins DEF Positions
  <2>2. doing' \in [Plugins -> Waits]
    BY DEF HostIInv, HostTypeOK, Waits
  <2>3. QED BY <2>1, <2>2 DEF HostIInv, HostTypeOK, Registrations
<1>9. OrderInv' /\ ReadyInv' /\ NamesInv'
  BY <1>1, <1>7 DEF HostIInv, OrderInv, ReadyInv, NamesInv
<1>10. SetupInv' /\ StartInv' /\ OpenInv' /\ EndInv'
  BY <1>7 DEF SetupInv, StartInv, OpenInv, EndInv
<1>11. StopInv'
  <2>1. \A i \in Places : i \in Nat
    BY DEF Places
  <2>2. QED BY <1>6, <1>7, <2>1, CountOfPlugins DEF StopInv, Places
<1>12. SessionInv'
  BY <1>3 DEF HostIInv, HostTypeOK, SessionInv, Ended, SetUp
<1>13. QED BY <1>8, <1>9, <1>10, <1>11, <1>12 DEF HostIInv

\* The tools of a plugin are registered, and the host goes on to the next or to the start.
LEMMA ListedKeeps ==
  ASSUME HostIInv, NEW p \in Plugins, NEW listed \in Servers, Listed(p, listed) PROVE HostIInv'
<1> USE DEF Waiting
<1>1. CASE GiveUp /\ UNCHANGED tools
  BY <1>1, FailureKeeps DEF Listed
<1>2. CASE ~Conflicts(p) /\ tools' = tools \cup Registrations(p) /\ AfterSetup
  <2>1. /\ doing[p] = "listing" /\ doing' = [doing EXCEPT ![p] = "nothing"]
        /\ UNCHANGED <<deps, namespace, order, entry, conn, lifecycle, stops, errors>>
    BY DEF Listed
  <2>2. host.next \in Places /\ order[host.next] = p /\ host.at = "setup" /\ SettingUp(p)
    BY <2>1, Busy DEF BeingStarted, BeingStopped
  <2>3. \A i \in Places : order[i] \in Plugins /\ (i # host.next => order[i] # p)
    BY <2>2, PlacesOfPlugins
  <2>4. SetUp(p)'
    BY <2>1, <2>2 DEF HostIInv, HostTypeOK, SetUp, SettingUp
  <2>5. \A q \in Plugins : q # p => (Untouched(q) => Untouched(q)') /\ (SetUp(q) => SetUp(q)')
    BY <2>1 DEF HostIInv, HostTypeOK, Untouched, SetUp
  <2>6. Len(order) = Cardinality(Plugins) /\ Cardinality(Plugins) \in Nat
    BY <2>2, PlacesOfPlugins, CountOfPlugins
  <2>7. \A i \in Places : /\ i <= host.next => SetUp(order[i])'
                          /\ i > host.next => Untouched(order[i])'
    <3>1. \A i \in Places : i \in Nat /\ host.next \in Nat
      BY <2>2, <2>6 DEF Places
    <3>2. \A i \in Places : /\ i < host.next => SetUp(order[i])
                            /\ i > host.next => Untouched(order[i])
      BY <2>2 DEF HostIInv, SetupInv
    <3>3. \A i \in Places : i # host.next =>
            (Untouched(order[i]) => Untouched(order[i])') /\ (SetUp(order[i]) => SetUp(order[i])')
      BY <2>1, <2>3, <2>5
    <3>4. \A i \in Places : i = host.next => SetUp(order[i])'
      BY <2>1, <2>2, <2>4
    <3>5. QED BY <2>2, <3>1, <3>2, <3>3, <3>4
  <2>8. \/ host.next < Len(order) /\ host' = [at |-> "setup", next |-> host.next + 1]
        \/ host.next = Len(order) /\ host' = [at |-> "start", next |-> 1]
    BY <1>2, <2>2, <2>6 DEF AfterSetup, HostGoto, Places
  <2>9. host'.at \in {"setup", "start"} /\ host' \in [at : Positions, next : 0 .. Cardinality(Plugins) + 1]
    BY <2>2, <2>6, <2>8 DEF Positions, Places
  <2>10. HostTypeOK'
    <3>1. tools' \subseteq [owner : Plugins, name : UNION {{t.name : t \in Registrations(q)} : q \in Plugins}]
      <4>1. Registrations(p) \subseteq
              [owner : Plugins, name : UNION {{t.name : t \in Registrations(q)} : q \in Plugins}]
        BY DEF Registrations
      <4> HIDE DEF Registrations
      <4>2. QED BY <1>2, <4>1 DEF HostIInv, HostTypeOK
    <3>2. doing' \in [Plugins -> Waits]
      BY <2>1 DEF HostIInv, HostTypeOK, Waits
    <3>3. \A q \in Plugins : Registrations(q)' = Registrations(q)
      BY <2>1 DEF Registrations
    <3>4. QED BY <2>1, <2>9, <3>1, <3>2, <3>3 DEF HostIInv, HostTypeOK
  <2>11. OrderInv' /\ ReadyInv'
    BY <2>1, <2>2, <2>9 DEF HostIInv, OrderInv, ReadyInv
  <2>12. OpenInv' /\ StopInv' /\ EndInv'
    BY <2>9 DEF OpenInv, StopInv, EndInv, Stopping
  <2>13. SetupInv' /\ StartInv'
    <3>1. \A i \in Places : i \in Nat /\ i <= Cardinality(Plugins) /\ i >= 1
      BY <2>6 DEF Places
    <3>2. CASE host.next < Len(order) /\ host' = [at |-> "setup", next |-> host.next + 1]
      <4>1. host'.next = host.next + 1 /\ host'.next \in Places /\ host'.at = "setup"
        BY <2>2, <2>6, <3>2 DEF Places
      <4>2. \A i \in Places : /\ i < host.next + 1 => SetUp(order[i])'
                              /\ i >= host.next + 1 => Untouched(order[i])'
        BY <2>2, <2>7, <3>1
      <4>3. SetupInv'
        BY <2>1, <3>1, <4>1, <4>2 DEF SetupInv, Places
      <4>4. QED BY <4>1, <4>3 DEF StartInv
    <3>3. CASE host.next = Len(order) /\ host' = [at |-> "start", next |-> 1]
      <4>1. host'.next = 1 /\ 1 \in Places /\ host'.at = "start"
        BY <2>2, <2>6, <3>3 DEF Places
      <4>2. \A i \in Places : SetUp(order[i])' /\ ~(i < 1)
        BY <2>6, <2>7, <3>1, <3>3
      <4>3. StartInv'
        BY <2>1, <4>1, <4>2 DEF StartInv, Places
      <4>4. QED BY <4>1, <4>3 DEF SetupInv
    <3>4. QED BY <2>8, <3>2, <3>3
  <2>14. SessionInv'
    BY <2>1, <2>4 DEF HostIInv, HostTypeOK, SessionInv, Ended, SetUp
  <2>15. NamesInv'
    <3>1. \A t \in Registrations(p) : t.owner = p
      BY DEF Registrations
    <3>2. \A t \in Registrations(p), u \in tools : t.name # u.name
      BY <1>2 DEF Conflicts
    <3>3. QED BY <1>2, <3>1, <3>2 DEF HostIInv, NamesInv
  <2>16. QED BY <2>10, <2>11, <2>12, <2>13, <2>14, <2>15 DEF HostIInv
<1>3. QED BY <1>1, <1>2 DEF Listed

\* A plugin has started, and the host goes on to the next, or is open.
LEMMA StartedKeeps == ASSUME HostIInv, NEW p \in Plugins, Started(p) PROVE HostIInv'
<1> USE DEF Waiting
<1>1. /\ doing[p] = "starting" /\ doing' = [doing EXCEPT ![p] = "nothing"]
      /\ entry' = [entry EXCEPT ![p] = "ready"]
      /\ UNCHANGED <<deps, namespace, order, conn, lifecycle, stops, errors, tools>>
  BY DEF Started
<1>2. host.next \in Places /\ order[host.next] = p /\ host.at = "start" /\ BeingStarted(p)
  BY <1>1, Busy DEF SettingUp, BeingStopped
<1>3. \A i \in Places : order[i] \in Plugins /\ (i # host.next => order[i] # p)
  BY <1>2, PlacesOfPlugins
<1>4. Ready(p)'
  BY <1>1, <1>2 DEF HostIInv, HostTypeOK, Ready, BeingStarted
<1>5. \A q \in Plugins : q # p => (Ready(q) => Ready(q)') /\ (SetUp(q) => SetUp(q)')
  BY <1>1 DEF HostIInv, HostTypeOK, Ready, SetUp
<1>6. Len(order) = Cardinality(Plugins) /\ Cardinality(Plugins) \in Nat
  BY <1>2, PlacesOfPlugins, CountOfPlugins
<1>7. \A i \in Places : i \in Nat /\ i <= Cardinality(Plugins) /\ i >= 1
  BY <1>6 DEF Places
<1>8. \A i \in Places : /\ i <= host.next => Ready(order[i])'
                        /\ i > host.next => SetUp(order[i])'
  <2>1. \A i \in Places : /\ i < host.next => Ready(order[i])
                          /\ i > host.next => SetUp(order[i])
    BY <1>2 DEF HostIInv, StartInv
  <2>2. \A i \in Places : i # host.next =>
          (Ready(order[i]) => Ready(order[i])') /\ (SetUp(order[i]) => SetUp(order[i])')
    BY <1>1, <1>3, <1>5
  <2>3. \A i \in Places : i = host.next => Ready(order[i])'
    BY <1>1, <1>2, <1>4
  <2>4. QED BY <1>2, <1>7, <2>1, <2>2, <2>3
<1>9. \/ host.next < Len(order) /\ host' = [at |-> "start", next |-> host.next + 1]
      \/ host.next = Len(order) /\ host' = [at |-> "open", next |-> host.next]
  BY <1>2, <1>6 DEF Started, HostGoto, Places
<1>10. host'.at \in {"start", "open"} /\ host' \in [at : Positions, next : 0 .. Cardinality(Plugins) + 1]
  BY <1>2, <1>6, <1>9 DEF Positions, Places
<1>11. HostTypeOK'
  BY <1>1, <1>10 DEF HostIInv, HostTypeOK, Registrations, Waits
<1>12. OrderInv' /\ NamesInv'
  BY <1>1, <1>2, <1>10 DEF HostIInv, OrderInv, NamesInv
<1>13. SetupInv' /\ StopInv' /\ EndInv'
  BY <1>10 DEF SetupInv, StopInv, EndInv, Stopping
<1>14. StartInv' /\ OpenInv'
  <2>1. CASE host.next < Len(order) /\ host' = [at |-> "start", next |-> host.next + 1]
    <3>1. host'.next = host.next + 1 /\ host'.next \in Places /\ host'.at = "start"
      BY <1>2, <1>6, <2>1 DEF Places
    <3>2. \A i \in Places : /\ i < host.next + 1 => Ready(order[i])'
                            /\ i >= host.next + 1 => SetUp(order[i])'
      BY <1>2, <1>7, <1>8
    <3>3. StartInv'
      BY <1>1, <1>7, <3>1, <3>2 DEF StartInv, Places
    <3>4. QED BY <3>1, <3>3 DEF OpenInv
  <2>2. CASE host.next = Len(order) /\ host' = [at |-> "open", next |-> host.next]
    <3>1. host'.at = "open"
      BY <2>2
    <3>2. \A i \in Places : Ready(order[i])'
      BY <1>6, <1>7, <1>8, <2>2
    <3>3. \A q \in Plugins : \E i \in Places : order[i] = q
      BY <1>2, PlacesOfPlugins
    <3>4. \A q \in Plugins : Ready(q)'
      BY <1>1, <3>2, <3>3
    <3>5. QED BY <3>1, <3>4 DEF StartInv, OpenInv
  <2>3. QED BY <1>9, <2>1, <2>2
<1>15. ReadyInv'
  <2>1. \A i \in Places : entry'[order[i]] = "ready" <=> i <= host.next
    <3>1. \A i \in Places : i <= host.next \/ i > host.next
      BY <1>2, <1>7
    <3>2. QED BY <1>1, <1>8, <3>1 DEF Ready, SetUp
  <2>2. QED BY <1>1, <1>2, <1>7, <2>1 DEF ReadyInv, Places
<1>16. SessionInv'
  BY <1>1, <1>2 DEF HostIInv, HostTypeOK, SessionInv, Ended, BeingStarted
<1>17. QED BY <1>11, <1>12, <1>13, <1>14, <1>15, <1>16 DEF HostIInv

\* A plugin is told to stop.
LEMMA BeginStopKeeps == ASSUME HostIInv, NEW p \in Plugins, BeginStop(p) PROVE HostIInv'
<1> USE DEF BeginStop, Waiting, StopPosition
<1>1. /\ Stopping /\ host.next \in Places /\ order[host.next] = p
      /\ SetUp(p) \/ Ready(p)
  <2>1. host.next \in Places
    BY CountOfPlugins DEF HostIInv, StopInv, Places
  <2>2. QED BY <2>1 DEF HostIInv, StopInv, Settled, BeingStopped
<1>2. \A i \in Places : order[i] \in Plugins /\ (i # host.next => order[i] # p)
  BY <1>1, PlacesOfPlugins DEF Stopping
<1>3. UNCHANGED <<deps, namespace, order, host, conn, errors, tools>>
  OBVIOUS
<1>4. BeingStopped(p)'
  BY <1>1 DEF HostIInv, HostTypeOK, BeingStopped, SetUp, Ready
<1>5. \A q \in Plugins : q # p =>
        UNCHANGED <<entry[q], doing[q], stops[q]>>
  BY DEF HostIInv, HostTypeOK
<1>6. HostTypeOK'
  BY DEF HostIInv, HostTypeOK, Registrations, Waits
<1>7. OrderInv' /\ NamesInv'
  BY <1>3 DEF HostIInv, OrderInv, NamesInv
<1>8. SetupInv' /\ StartInv' /\ OpenInv' /\ EndInv'
  BY <1>1, <1>3 DEF SetupInv, StartInv, OpenInv, EndInv, Stopping
<1>9. \A q \in Plugins : q # p => /\ (SetUp(q) <=> SetUp(q)') /\ (Ready(q) <=> Ready(q)')
                                  /\ (Ended(q) <=> Ended(q)') /\ (Untouched(q) <=> Untouched(q)')
  BY <1>5 DEF SetUp, Ready, Ended, Untouched
<1>10. StopInv'
  BY <1>1, <1>2, <1>3, <1>4, <1>9 DEF HostIInv, StopInv, Stopping, Places
<1>11. ReadyInv'
  <2>1. \A i \in Places : i > host.next => entry[order[i]] # "ready"
    BY <1>1 DEF HostIInv, StopInv, Ended, Untouched
  <2>2. \A i \in Places : entry'[order[i]] = IF i = host.next THEN "stopped" ELSE entry[order[i]]
    BY <1>1, <1>2, <1>4, <1>5 DEF BeingStopped
  <2>3. \A i, j \in Places : i < j /\ entry[order[j]] = "ready" => entry[order[i]] = "ready"
    BY <1>1 DEF HostIInv, ReadyInv, Stopping
  <2> SUFFICES ASSUME NEW i \in Places, NEW j \in Places, i < j, entry'[order[j]] = "ready"
               PROVE  entry'[order[i]] = "ready"
    BY <1>3 DEF ReadyInv, Places
  <2>4. j # host.next /\ entry[order[j]] = "ready"
    BY <2>2
  <2>5. j < host.next
    BY <1>1, <2>1, <2>4 DEF Places
  <2>6. i # host.next
    BY <1>1, <2>5 DEF Places
  <2>7. QED BY <2>2, <2>3, <2>4, <2>6
<1>12. SessionInv'
  BY <1>3, <1>4, <1>5 DEF HostIInv, HostTypeOK, SessionInv, Ended, BeingStopped
<1>13. QED BY <1>6, <1>7, <1>8, <1>10, <1>11, <1>12 DEF HostIInv

\* A plugin has stopped: its session is over, or its error is kept.
LEMMA StoppedKeeps ==
  ASSUME HostIInv, NEW p \in Plugins, NEW fails \in BOOLEAN, Stopped(p, fails) PROVE HostIInv'
<1> USE DEF Waiting
<1>1. /\ doing[p] = "closing" /\ doing' = [doing EXCEPT ![p] = "nothing"]
      /\ host' = [at |-> host.at, next |-> host.next - 1]
      /\ UNCHANGED <<deps, namespace, order, entry, lifecycle, stops, tools>>
  BY DEF Stopped, HostGoto
<1>2. host.next \in Places /\ order[host.next] = p /\ Stopping /\ BeingStopped(p)
  BY <1>1, Busy DEF SettingUp, BeingStarted
<1>3. \A i \in Places : order[i] \in Plugins /\ (i # host.next => order[i] # p)
  BY <1>2, PlacesOfPlugins DEF Stopping
<1>4. Ended(p)'
  BY <1>1, <1>2 DEF HostIInv, HostTypeOK, Ended, BeingStopped
<1>5. \A q \in Plugins : q # p =>
        /\ SetUp(q) \/ Ready(q) => SetUp(q)' \/ Ready(q)'
        /\ (Ended(q) <=> Ended(q)') /\ (Untouched(q) => Untouched(q)')
  BY <1>1 DEF HostIInv, HostTypeOK, SetUp, Ready, Ended, Untouched
<1>6. /\ Cardinality(Plugins) \in Nat /\ host'.at = host.at /\ host'.next = host.next - 1
      /\ \A i \in Places : i \in Nat /\ i <= Cardinality(Plugins) /\ i >= 1
  BY <1>1, CountOfPlugins DEF Places
<1>7. HostTypeOK'
  <2>1. host' \in [at : Positions, next : 0 .. Cardinality(Plugins) + 1]
    <3>1. host.at \in Positions
      BY DEF HostIInv, HostTypeOK
    <3>2. host.next - 1 \in 0 .. Cardinality(Plugins) + 1
      BY <1>2, <1>6 DEF Places
    <3>3. QED BY <1>1, <3>1, <3>2
  <2>2. doing' \in [Plugins -> Waits] /\ conn' \subseteq Plugins /\ errors' \subseteq Plugins
    BY <1>1 DEF Stopped, HostIInv, HostTypeOK, Waits
  <2>3. QED BY <1>1, <2>1, <2>2 DEF HostIInv, HostTypeOK, Registrations
<1>8. OrderInv' /\ NamesInv' /\ ReadyInv'
  BY <1>1, <1>6 DEF HostIInv, OrderInv, NamesInv, ReadyInv
<1>9. SetupInv' /\ StartInv' /\ OpenInv' /\ EndInv'
  BY <1>2, <1>6 DEF SetupInv, StartInv, OpenInv, EndInv, Stopping
<1>10. StopInv'
  <2> DEFINE k == host.next
             Gone(q) == Ended(q) \/ (host.at = "rollback" /\ Untouched(q))
  <2>1. \A i \in Places : /\ i < k => SetUp(order[i]) \/ Ready(order[i])
                          /\ i > k => Gone(order[i])
    BY <1>2 DEF HostIInv, StopInv
  <2>2. \A i \in Places : /\ i < k => SetUp(order[i])' \/ Ready(order[i])'
                          /\ i > k => Gone(order[i])'
                          /\ i = k => Gone(order[i])'
    <3>1. \A i \in Places : i # k =>
            /\ SetUp(order[i]) \/ Ready(order[i]) => SetUp(order[i])' \/ Ready(order[i])'
            /\ Gone(order[i]) => Gone(order[i])'
      BY <1>1, <1>3, <1>5, <1>6
    <3>2. \A i \in Places : i = k => Gone(order[i])'
      BY <1>1, <1>2, <1>4
    <3> HIDE DEF Gone
    <3>3. QED BY <1>2, <1>6, <2>1, <3>1, <3>2
  <2> HIDE DEF Gone
  <2>3. k - 1 \in 0 .. Cardinality(Plugins)
    BY <1>2, <1>6
  <2>4. \A i \in Places : /\ i <= k - 1 => SetUp(order[i])' \/ Ready(order[i])'
                          /\ i > k - 1 => Gone(order[i])'
    BY <1>2, <1>6, <2>2
  <2>5. QED BY <1>1, <1>6, <2>3, <2>4 DEF StopInv, Places, Gone
<1>11. SessionInv'
  <2>1. conn' \subseteq conn
    BY DEF Stopped
  <2>2. p \in conn' => p \in errors'
    BY DEF Stopped
  <2>3. errors \subseteq errors'
    BY DEF Stopped
  <2>4. \A q \in Plugins : q # p => (Ended(q) <=> Ended(q)')
    BY <1>5
  <2>5. conn \subseteq Plugins
    BY DEF HostIInv, HostTypeOK
  <2>6. QED BY <1>1, <2>1, <2>2, <2>3, <2>4, <2>5 DEF HostIInv, SessionInv
<1>12. QED BY <1>7, <1>8, <1>9, <1>10, <1>11 DEF HostIInv

\* All entries are stopped: the host has thrown, or is closed.
LEMMA EndStopsKeeps == ASSUME HostIInv, EndStops PROVE HostIInv'
<1> USE DEF EndStops, HostGoto
<1>1. /\ \/ host.at = "rollback" /\ host' = [at |-> "thrown", next |-> 0]
         \/ host.at = "closing" /\ host' = [at |-> "closed", next |-> 0]
      /\ UNCHANGED <<deps, namespace, order, entry, doing, conn, lifecycle, stops, errors, tools>>
  BY DEF Stopping
<1>2. host'.at \in {"thrown", "closed"}
  BY <1>1
<1>3. \A q \in Plugins : Ended(q) \/ (host.at = "rollback" /\ Untouched(q))
  <2>1. \A i \in Places : i > 0 /\ i \in Nat
    BY CountOfPlugins DEF Places
  <2>2. \A i \in Places : Ended(order[i]) \/ (host.at = "rollback" /\ Untouched(order[i]))
    BY <2>1 DEF HostIInv, StopInv
  <2>3. \A q \in Plugins : \E i \in Places : order[i] = q
    BY PlacesOfPlugins DEF Stopping
  <2>4. QED BY <2>2, <2>3
<1>4. HostTypeOK'
  <2>1. host' \in [at : Positions, next : 0 .. Cardinality(Plugins) + 1]
    BY <1>1, CountOfPlugins DEF Positions
  <2>2. QED BY <1>1, <2>1 DEF HostIInv, HostTypeOK, Registrations
<1>5. OrderInv' /\ NamesInv' /\ ReadyInv' /\ SessionInv'
  BY <1>1, <1>2 DEF HostIInv, OrderInv, NamesInv, ReadyInv, SessionInv, Ended
<1>6. SetupInv' /\ StartInv' /\ OpenInv' /\ StopInv'
  BY <1>2 DEF SetupInv, StartInv, OpenInv, StopInv, Stopping
<1>7. EndInv'
  BY <1>1, <1>3 DEF EndInv, Ended, Untouched
<1>8. QED BY <1>4, <1>5, <1>6, <1>7 DEF HostIInv

\* The host is told to close.
LEMMA BeginCloseKeeps == ASSUME HostIInv, BeginClose PROVE HostIInv'
<1> USE DEF BeginClose, HostGoto
<1>1. /\ host.at = "open" /\ host'.at = "closing" /\ host'.next = Cardinality(Plugins)
      /\ host' = [at |-> "closing", next |-> Cardinality(Plugins)]
      /\ UNCHANGED <<deps, namespace, order, entry, doing, conn, lifecycle, stops, errors, tools>>
  BY PlacesOfPlugins
<1>2. \A i \in Places : Ready(order[i])
  BY <1>1, PlacesOfPlugins DEF HostIInv, OpenInv
<1>3. HostTypeOK'
  <2>1. host' \in [at : Positions, next : 0 .. Cardinality(Plugins) + 1]
    BY <1>1, CountOfPlugins DEF Positions
  <2>2. QED BY <1>1, <2>1 DEF HostIInv, HostTypeOK, Registrations
<1>4. OrderInv' /\ NamesInv' /\ ReadyInv' /\ SessionInv'
  BY <1>1 DEF HostIInv, OrderInv, NamesInv, ReadyInv, SessionInv, Ended
<1>5. SetupInv' /\ StartInv' /\ OpenInv' /\ EndInv'
  BY <1>1 DEF SetupInv, StartInv, OpenInv, EndInv
<1>6. StopInv'
  <2>1. \A i \in Places : i \in Nat /\ ~(i > Cardinality(Plugins))
    BY CountOfPlugins DEF Places
  <2>2. \A i \in Places : Ready(order[i])'
    BY <1>1, <1>2 DEF Ready
  <2>3. QED BY <1>1, <2>1, <2>2, CountOfPlugins DEF StopInv, Places
<1>7. QED BY <1>3, <1>4, <1>5, <1>6 DEF HostIInv

\* Every step of host and plugins keeps the host in order.
LEMMA HostSteps ==
  ASSUME HostIInv, HostStep \/ (\E p \in Plugins : PluginStep(p)) \/ BeginClose
  PROVE  HostIInv'
<1>1. ASSUME NEW p \in Plugins, SetupFails(p) \/ StartFails(p) PROVE HostIInv'
  BY <1>1, FailureKeeps DEF SetupFails, StartFails
<1>2. QED
  BY <1>1, BeginSetupKeeps, GoesOnKeeps, ListedKeeps, StartedKeeps, BeginStopKeeps, StoppedKeeps,
     EndStopsKeeps, BeginCloseKeeps DEF HostStep, PluginStep

-----------------------------------------------------------------------------
(* The steps of the daemon.                                                *)

\* A daemon is in order before it begins.
LEMMA DaemonStarts == Init => DaemonIInv
<1> SUFFICES ASSUME Init PROVE DaemonIInv
  OBVIOUS
<1>1. HostIInv
  BY HostStarts DEF Init
<1>2. TypeOK
  BY <1>1 DEF Init, TypeOK, HostIInv, RuntimeStates
<1>3. host.at \in {"refused", "open", "setup"}
  BY DEF Init, HostInit
<1>4. StageInv /\ RunInv /\ ErrorInv /\ LeftOpenForCause
  BY <1>3 DEF Init, StageInv, RunInv, ErrorInv, LeftOpenForCause, Over, RunsAreOver
<1>5. ClientInv
  BY DEF Init, ClientInv, ClosesRuntime, Drained, Requests
<1>6. QED BY <1>1, <1>2, <1>4, <1>5 DEF DaemonIInv

\* A host that is open, thrown or closed does nothing on its own.
LEMMA HostMoves ==
  ASSUME HostIInv, HostStep \/ \E p \in Plugins : PluginStep(p)
  PROVE  /\ host.at \in {"setup", "start", "rollback", "closing"}
         /\ host.at = "closing" => host'.at \in {"closing", "closed"}
         /\ host.at # "closing" => host'.at \notin {"closing", "closed"}
<1>1. CASE \E p \in Plugins : BeginSetup(p) \/ BeginStart(p) \/ BeginStop(p)
  BY <1>1 DEF BeginSetup, BeginStart, BeginStop, Stopping
<1>2. CASE EndStops
  BY <1>2 DEF EndStops, Stopping, HostGoto
<1>3. ASSUME NEW p \in Plugins, PluginStep(p)
      PROVE  /\ host.at \in {"setup", "start", "rollback", "closing"}
             /\ host.at = "closing" => host'.at \in {"closing", "closed"}
             /\ host.at # "closing" => host'.at \notin {"closing", "closed"}
  <2>1. doing[p] \in {"connecting", "listing", "starting", "terminating", "closing"}
    BY <1>3 DEF PluginStep, Connected, SetupFails, Listed, Started, StartFails, Terminated, Stopped
  <2>2. /\ doing[p] \in {"connecting", "listing"} => host.at = "setup"
        /\ doing[p] = "starting" => host.at = "start"
        /\ doing[p] \in {"terminating", "closing"} => host.at \in {"rollback", "closing"}
    BY <2>1, Busy DEF SettingUp, BeingStarted, BeingStopped, Stopping
  <2>3. CASE Connected(p) \/ SetupFails(p) \/ \E listed \in Servers : Listed(p, listed)
    <3>1. host.at = "setup"
      BY <2>2, <2>3 DEF Connected, SetupFails, Listed
    <3>2. host' = host \/ AfterSetup \/ GiveUp
      BY <2>3 DEF Connected, SetupFails, Listed
    <3>3. QED BY <3>1, <3>2 DEF AfterSetup, GiveUp, HostGoto
  <2>4. CASE Started(p) \/ StartFails(p)
    BY <2>2, <2>4 DEF Started, StartFails, GiveUp, HostGoto
  <2>5. CASE \E fails \in BOOLEAN : Terminated(p, fails) \/ Stopped(p, fails)
    BY <2>2, <2>5 DEF Terminated, Stopped, HostGoto
  <2>6. QED BY <1>3, <2>3, <2>4, <2>5 DEF PluginStep
<1>4. QED BY <1>1, <1>2, <1>3 DEF HostStep

\* A step that leaves the host alone keeps it in order.
LEMMA HostFrame == ASSUME HostIInv, UNCHANGED hostVars PROVE HostIInv'
<1> USE DEF hostVars
<1>1. HostTypeOK'
  BY DEF HostIInv, HostTypeOK, Registrations
<1>2. OrderInv' /\ NamesInv'
  BY DEF HostIInv, OrderInv, NamesInv
<1>3. \A q \in Plugins :
        /\ (Untouched(q) <=> Untouched(q)') /\ (SettingUp(q) <=> SettingUp(q)')
        /\ (SetUp(q) <=> SetUp(q)') /\ (BeingStarted(q) <=> BeingStarted(q)')
        /\ (Ready(q) <=> Ready(q)') /\ (BeingStopped(q) <=> BeingStopped(q)')
        /\ (Ended(q) <=> Ended(q)')
  BY DEF Untouched, SettingUp, SetUp, BeingStarted, Ready, BeingStopped, Ended
<1>4. host.at # "refused" => \A i \in Places : order[i] \in Plugins
  BY PlacesOfPlugins
<1>5. SetupInv' /\ StartInv'
  BY <1>3, <1>4 DEF HostIInv, SetupInv, StartInv, Places
<1>6. OpenInv' /\ EndInv'
  BY <1>3 DEF HostIInv, OpenInv, EndInv
<1>7. StopInv'
  BY <1>3, <1>4 DEF HostIInv, StopInv, Stopping, Places
<1>8. ReadyInv' /\ SessionInv'
  BY DEF HostIInv, ReadyInv, SessionInv, Ended, Places
<1>9. QED BY <1>1, <1>2, <1>5, <1>6, <1>7, <1>8 DEF HostIInv

\* The host and the plugins at work.
LEMMA WorkKeeps ==
  ASSUME DaemonIInv, HostWorks \/ \E p \in Plugins : PluginWorks(p) PROVE DaemonIInv'
<1>1. /\ ~Over /\ (HostStep \/ \E p \in Plugins : PluginStep(p))
      /\ UNCHANGED <<lifeVars, clientVars, runVars>>
  BY DEF HostWorks, PluginWorks
<1>2. HostIInv'
  BY <1>1, HostSteps DEF DaemonIInv
<1>3. /\ UNCHANGED <<daemon, cause, runtime, failures, db>>
      /\ UNCHANGED <<sig, code, req, check, connected, run, calls, aborted>>
  BY <1>1 DEF lifeVars, closeVars, clientVars, runVars
<1>4. TypeOK'
  BY <1>2, <1>3 DEF DaemonIInv, HostIInv, TypeOK
<1>5. ClientInv' /\ RunInv'
  BY <1>3 DEF DaemonIInv, ClientInv, ClosesRuntime, Drained, RunInv, RunsAreOver
<1>6. /\ host.at \in {"setup", "start", "rollback", "closing"}
      /\ host.at = "closing" => host'.at \in {"closing", "closed"}
      /\ host.at # "closing" => host'.at \notin {"closing", "closed"}
  BY <1>1, HostMoves DEF DaemonIInv
<1>7. StageInv'
  BY <1>3, <1>6 DEF DaemonIInv, StageInv
<1>8. runtime \notin {"database", "closed"}
  BY <1>6 DEF DaemonIInv, StageInv
<1>9. ErrorInv'
  BY <1>3, <1>8 DEF DaemonIInv, ErrorInv
<1>10. LeftOpenForCause'
  BY <1>1, <1>3 DEF LeftOpenForCause, Over
<1>11. QED BY <1>2, <1>4, <1>5, <1>7, <1>9, <1>10 DEF DaemonIInv

\* The daemon starts, or fails to.
LEMMA StartKeeps == ASSUME DaemonIInv, Starting PROVE DaemonIInv'
<1>1. HostIInv'
  <2>1. UNCHANGED hostVars \/ BeginClose
    BY DEF Starting, NoHost, Serve, GiveUpStart, NoRuntime, NoServer
  <2>2. QED BY <2>1, HostFrame, HostSteps DEF DaemonIInv
<1>2. runtime = "unmade" /\ code # "ok"
  BY DEF Starting, NoHost, Serve, GiveUpStart, NoRuntime, NoServer, DaemonIInv, StageInv, ErrorInv
<1>3. UNCHANGED <<failures, sig, code, req, check, connected, run, calls, aborted, errors>>
  BY DEF Starting, NoHost, Serve, GiveUpStart, NoRuntime, NoServer, BeginClose, hostVars, closeVars,
     clientVars, runVars
<1>4. /\ daemon' \in {"over", "serving", "failing"} /\ runtime' \in {"unmade", "open"}
      /\ db' \in BOOLEAN /\ cause' \in {"none", "recovery", "origins", "port", "signal"}
  BY <1>2 DEF Starting, NoHost, Serve, GiveUpStart, NoRuntime, NoServer, closeVars, Dies, DaemonIInv,
     TypeOK
<1>5. TypeOK'
  BY <1>1, <1>3, <1>4 DEF DaemonIInv, HostIInv, TypeOK, RuntimeStates
<1>6. ClientInv'
  <2>1. \A s \in Signals : sig[s] = "none"
    BY <1>2 DEF DaemonIInv, ClientInv
  <2>2. /\ \A q \in Requests : req[q] = "none"
        /\ \A q \in connected : req[q] \in {"inspecting", "admitting"}
        /\ \A q \in Inspections : \A p \in Plugins : check[q][p] = "out" => req[q] = "inspecting"
    BY <1>2 DEF DaemonIInv, ClientInv
  <2>3. ~ClosesRuntime'
    BY <1>4 DEF ClosesRuntime
  <2>4. QED BY <1>3, <2>1, <2>2, <2>3 DEF ClientInv
<1>7. RunInv'
  BY <1>2, <1>3, <1>4 DEF DaemonIInv, RunInv, RunsAreOver
<1>8. StageInv'
  BY <1>2 DEF DaemonIInv, StageInv, Starting, NoHost, Serve, GiveUpStart, NoRuntime, NoServer, Dies,
     BeginClose, HostGoto, closeVars, hostVars
<1>9. ErrorInv'
  <2>1. runtime' = "unmade" /\ db' => cause' # "none"
    BY <1>2 DEF DaemonIInv, ErrorInv, StageInv, Starting, NoHost, Serve, GiveUpStart, NoRuntime,
       NoServer, Dies, closeVars
  <2>2. QED BY <1>2, <1>3, <1>4, <2>1 DEF ErrorInv
<1>10. LeftOpenForCause'
  <2> SUFFICES ASSUME daemon' = "over", cause' = "none"
               PROVE  /\ db' => failures'
                      /\ \A p \in Entries' : stops'[p] = 1
                      /\ conn' \subseteq errors'
    BY DEF LeftOpenForCause, Over
  <2>1. /\ host.at \in {"refused", "thrown", "closed"} /\ UNCHANGED <<hostVars, db, runtime, cause>>
    BY DEF Starting, NoHost, Serve, GiveUpStart, NoRuntime, NoServer, Dies, closeVars
  <2>2. \A p \in Plugins : Untouched(p) \/ Ended(p)
    BY <2>1 DEF DaemonIInv, HostIInv, EndInv
  <2>3. ~db
    BY <1>2, <2>1 DEF DaemonIInv, ErrorInv
  <2>4. \A p \in Entries : stops[p] = 1
    BY <2>2 DEF Entries, Untouched, Ended
  <2>5. conn \subseteq errors
    BY <2>2 DEF DaemonIInv, HostIInv, HostTypeOK, SessionInv, Untouched
  <2>6. QED BY <2>1, <2>3, <2>4, <2>5 DEF hostVars, Entries
<1>11. QED BY <1>1, <1>5, <1>6, <1>7, <1>8, <1>9, <1>10 DEF DaemonIInv

\* Requests are accepted and answered.
LEMMA ServeKeeps == ASSUME DaemonIInv, Serving PROVE DaemonIInv'
<1>1. /\ UNCHANGED <<hostVars, lifeVars>> /\ UNCHANGED <<calls, aborted>> /\ ~Over
      /\ run' = run \/ \E q \in Submissions : Admitted(q)
  BY DEF Serving, Inspect, Inspected, HealthSettles, HealthTimesOut, Submit, Admitted, Drop,
     runVars, Accepting, Over
<1>2. HostIInv'
  BY <1>1, HostFrame DEF DaemonIInv
<1>3. UNCHANGED <<daemon, cause, runtime, failures, db, sig, code, errors, host>>
  BY <1>1 DEF lifeVars, closeVars, hostVars
<1>4. StageInv' /\ ErrorInv' /\ LeftOpenForCause'
  BY <1>1, <1>3 DEF DaemonIInv, StageInv, ErrorInv, LeftOpenForCause, Over
<1>5. ASSUME NEW q \in Inspections, Inspect(q) PROVE ClientInv' /\ TypeOK' /\ UNCHANGED run
  <2>1. /\ req' = [req EXCEPT ![q] = "inspecting"] /\ connected' = connected \cup {q}
        /\ q \in Requests /\ UNCHANGED run /\ req[q] = "none"
    BY <1>5 DEF Inspect, Handle, Requests, runVars
  <2>2. check' \in [Inspections -> [Plugins -> {"none", "out", "late", "answered"}]]
        /\ \A r \in Inspections : r # q => check'[r] = check[r]
    BY <1>5 DEF Inspect, DaemonIInv, TypeOK
  <2>3. runtime \notin {"unmade"} /\ ~ClosesRuntime
    BY <1>5 DEF Inspect, Accepting, DaemonIInv, StageInv, ClientInv
  <2>4. TypeOK'
    BY <1>1, <1>2, <1>3, <2>1, <2>2 DEF DaemonIInv, HostIInv, TypeOK
  <2>5. \A r \in Inspections : \A p \in Plugins : check'[r][p] = "out" => req'[r] = "inspecting"
    BY <2>1, <2>2 DEF DaemonIInv, ClientInv, TypeOK, Requests
  <2>6. \A r \in connected' : req'[r] \in {"inspecting", "admitting"}
    BY <2>1 DEF DaemonIInv, ClientInv, TypeOK
  <2>7. ClientInv'
    BY <1>3, <2>3, <2>5, <2>6 DEF DaemonIInv, ClientInv, ClosesRuntime
  <2>8. QED BY <2>1, <2>4, <2>7
<1>6. ASSUME NEW q \in Submissions, Submit(q) PROVE ClientInv' /\ TypeOK' /\ UNCHANGED run
  <2>1. /\ req' = [req EXCEPT ![q] = "admitting"] /\ connected' = connected \cup {q}
        /\ q \in Requests /\ UNCHANGED <<run, check>> /\ req[q] = "none"
    BY <1>6 DEF Submit, Handle, Requests, runVars
  <2>2. runtime \notin {"unmade"} /\ ~ClosesRuntime
    BY <1>6 DEF Submit, Accepting, DaemonIInv, StageInv, ClientInv
  <2>3. TypeOK'
    BY <1>1, <1>2, <1>3, <2>1 DEF DaemonIInv, HostIInv, TypeOK
  <2>4. \A r \in Inspections : \A p \in Plugins : check'[r][p] = "out" => req'[r] = "inspecting"
    BY <2>1 DEF DaemonIInv, ClientInv, TypeOK, Requests
  <2>5. \A r \in connected' : req'[r] \in {"inspecting", "admitting"}
    BY <2>1 DEF DaemonIInv, ClientInv, TypeOK
  <2>6. ClientInv'
    BY <1>3, <2>2, <2>4, <2>5 DEF DaemonIInv, ClientInv, ClosesRuntime
  <2>7. QED BY <2>1, <2>3, <2>6
<1>7. ASSUME NEW q \in Inspections, NEW p \in Plugins, HealthSettles(q, p) \/ HealthTimesOut(q, p)
      PROVE  ClientInv' /\ TypeOK' /\ UNCHANGED run
  <2>1. UNCHANGED <<req, connected, run>>
        /\ \E to \in {"late", "answered"} : check' = [check EXCEPT ![q][p] = to]
    BY <1>7 DEF HealthSettles, HealthTimesOut, runVars
  <2>2. check' \in [Inspections -> [Plugins -> {"none", "out", "late", "answered"}]]
        /\ \A r \in Inspections, s \in Plugins : check'[r][s] = "out" => check[r][s] = "out"
    BY <2>1 DEF DaemonIInv, TypeOK
  <2>3. TypeOK'
    BY <1>1, <1>2, <1>3, <2>1, <2>2 DEF DaemonIInv, HostIInv, TypeOK
  <2>4. ClientInv'
    BY <1>3, <2>1, <2>2 DEF DaemonIInv, ClientInv, ClosesRuntime, Drained
  <2>5. QED BY <2>1, <2>3, <2>4
<1>8. ASSUME NEW q \in Requests,
             (q \in Inspections /\ Inspected(q)) \/ (q \in Submissions /\ Admitted(q))
      PROVE  ClientInv' /\ TypeOK'
  <2>1. /\ req' = [req EXCEPT ![q] = "answered"] /\ connected' = connected \ {q}
        /\ UNCHANGED check /\ req[q] # "none"
    BY <1>8 DEF Inspected, Admitted, Answer
  <2>2. q \in Inspections => \A p \in Plugins : check[q][p] # "out"
    BY <1>8 DEF Inspected, Admitted, DaemonIInv, ClientInv
  <2>3. run' \in [Runs -> {"none", "driver", "dispatching", "over"}]
    BY <1>8 DEF Inspected, Admitted, DaemonIInv, TypeOK, runVars
  <2>4. TypeOK'
    BY <1>1, <1>2, <1>3, <2>1, <2>3 DEF DaemonIInv, HostIInv, TypeOK
  <2>5. runtime # "unmade" /\ \A r \in Requests : r # q => req'[r] = req[r]
    BY <2>1 DEF DaemonIInv, ClientInv, TypeOK
  <2>6. req'[q] = "answered"
    BY <2>1 DEF DaemonIInv, TypeOK
  <2>7. /\ ClosesRuntime => Drained' /\ \E s \in Signals : sig[s] \in {"awaiting", "done"}
        /\ \A r \in connected' : req'[r] \in {"inspecting", "admitting"}
    BY <2>1, <2>5 DEF DaemonIInv, ClientInv, Drained, TypeOK
  <2>8. \A r \in Inspections : \A p \in Plugins : check'[r][p] = "out" => req'[r] = "inspecting"
    BY <2>1, <2>2, <2>5 DEF DaemonIInv, ClientInv, Requests
  <2>9. ClientInv'
    BY <1>3, <2>5, <2>6, <2>7, <2>8 DEF DaemonIInv, ClientInv, ClosesRuntime
  <2>10. QED BY <2>4, <2>9
<1>9. ASSUME NEW q \in Requests, Drop(q) PROVE ClientInv' /\ TypeOK'
  <2>1. connected' \subseteq connected /\ UNCHANGED <<req, check, run>>
    BY <1>9 DEF Drop, runVars
  <2>2. TypeOK'
    BY <1>1, <1>2, <1>3, <2>1 DEF DaemonIInv, HostIInv, TypeOK
  <2>3. ClientInv'
    BY <1>3, <2>1 DEF DaemonIInv, ClientInv, ClosesRuntime, Drained
  <2>4. QED BY <2>2, <2>3
<1>10. RunInv'
  <2>1. CASE UNCHANGED run
    BY <1>1, <1>3, <2>1 DEF DaemonIInv, RunInv, RunsAreOver
  <2>2. ASSUME NEW q \in Submissions, Admitted(q) PROVE RunInv'
    <3>1. req[q] = "admitting" /\ q \in Requests
      BY <2>2 DEF Admitted, Requests
    <3>2. runtime \notin {"unmade", "worker", "plugins", "database", "closed"}
      BY <3>1 DEF DaemonIInv, ClientInv, ClosesRuntime, Drained
    <3>3. \A r \in Runs : run[r] = "driver" => run'[r] = "driver"
      BY <2>2 DEF Admitted, DaemonIInv, TypeOK
    <3>4. QED BY <1>1, <1>3, <3>2, <3>3 DEF DaemonIInv, RunInv
  <2>3. QED BY <1>1, <2>1, <2>2
<1>11. ClientInv' /\ TypeOK'
  BY <1>5, <1>6, <1>7, <1>8, <1>9 DEF Serving, Requests
<1>12. QED BY <1>2, <1>4, <1>10, <1>11 DEF DaemonIInv

\* Runs go on, and call tools of plugins.
LEMMA RunKeeps == ASSUME DaemonIInv, Running PROVE DaemonIInv'
<1>1. PICK r \in Runs : \/ Cancel(r) \/ Dispatch(r) \/ CallTool(r) \/ RunEnds(r)
                        \/ \E p \in Plugins : CallSettles(r, p)
  BY DEF Running
<1>2. UNCHANGED <<hostVars, lifeVars, clientVars>> /\ ~Over
  BY <1>1 DEF Cancel, Dispatch, CallTool, RunEnds, CallSettles, Accepting, Over
<1>3. HostIInv'
  BY <1>2, HostFrame DEF DaemonIInv
<1>4. UNCHANGED <<daemon, cause, runtime, failures, db, sig, code, errors, host, req, check, connected>>
  BY <1>2 DEF lifeVars, closeVars, hostVars, clientVars
<1>5. StageInv' /\ ErrorInv' /\ LeftOpenForCause'
  BY <1>2, <1>4 DEF DaemonIInv, StageInv, ErrorInv, LeftOpenForCause, Over
<1>6. ClientInv'
  BY <1>4 DEF DaemonIInv, ClientInv, ClosesRuntime, Drained
<1>7. /\ run' \in [Runs -> {"none", "driver", "dispatching", "over"}]
      /\ calls' \subseteq Runs \X Plugins /\ aborted' \subseteq Runs
  <2>1. \A t \in tools : t.owner \in Plugins
    BY DEF DaemonIInv, HostIInv, HostTypeOK
  <2>2. run' = run \/ \E at \in {"driver", "dispatching", "over"} : run' = [run EXCEPT ![r] = at]
    BY <1>1 DEF Cancel, Dispatch, CallTool, RunEnds, CallSettles
  <2>3. calls' \subseteq calls \/ \E t \in tools : calls' = calls \cup {<<r, t.owner>>}
    BY <1>1 DEF Cancel, Dispatch, CallTool, RunEnds, CallSettles
  <2>4. aborted' \subseteq aborted \cup {r}
    BY <1>1 DEF Cancel, Dispatch, CallTool, RunEnds, CallSettles
  <2>5. QED BY <2>1, <2>2, <2>3, <2>4 DEF DaemonIInv, TypeOK
<1>8. TypeOK'
  BY <1>3, <1>4, <1>7 DEF DaemonIInv, HostIInv, TypeOK
<1>9. RunInv'
  <2>1. CASE Cancel(r) \/ \E p \in Plugins : CallSettles(r, p)
    <3>1. UNCHANGED run /\ calls' \subseteq calls
      BY <2>1 DEF Cancel, CallSettles
    <3>2. QED BY <1>4, <3>1 DEF DaemonIInv, RunInv, RunsAreOver
  <2>2. CASE Dispatch(r) \/ CallTool(r) \/ RunEnds(r)
    <3>1. /\ run[r] \in {"driver", "dispatching"}
          /\ \A s \in Runs : s # r => run'[s] = run[s]
      BY <2>2 DEF Dispatch, CallTool, RunEnds, DaemonIInv, TypeOK
    <3>2. runtime \notin {"unmade", "worker", "plugins", "database", "closed"}
      BY <3>1 DEF DaemonIInv, RunInv, RunsAreOver
    <3>3. \A s \in Runs, p \in Plugins : <<s, p>> \in calls' => run'[s] = "driver"
      <4>1. CASE Dispatch(r) \/ RunEnds(r)
        <5>1. UNCHANGED calls /\ ~Calling(r)
          BY <4>1 DEF Dispatch, RunEnds
        <5>2. QED BY <3>1, <5>1 DEF Calling, DaemonIInv, RunInv
      <4>2. CASE CallTool(r)
        <5>1. run'[r] = "driver"
          BY <4>2 DEF CallTool, DaemonIInv, TypeOK
        <5>2. \A s \in Runs, p \in Plugins : s # r /\ <<s, p>> \in calls' => <<s, p>> \in calls
          BY <4>2 DEF CallTool
        <5>3. QED BY <3>1, <5>1, <5>2 DEF DaemonIInv, RunInv
      <4>3. QED BY <2>2, <4>1, <4>2
    <3>4. QED BY <1>4, <3>2, <3>3 DEF RunInv
  <2>3. QED BY <1>1, <2>1, <2>2
<1>10. QED BY <1>3, <1>5, <1>6, <1>8, <1>9 DEF DaemonIInv

\* A signal is handled, or ends the process.
LEMMA SignalKeeps == ASSUME DaemonIInv, NEW s \in Signals, Signal(s) PROVE DaemonIInv'
<1>1. /\ UNCHANGED <<hostVars, closeVars, code, clientVars, runVars>>
      /\ \/ /\ daemon = "serving" /\ sig[s] = "none"
            /\ sig' = [sig EXCEPT ![s] = "draining"] /\ UNCHANGED <<daemon, cause>>
         \/ daemon' = "over" /\ cause' = "signal" /\ UNCHANGED sig
  BY DEF Signal, Dies
<1>2. UNCHANGED <<runtime, failures, db, code, errors, host, req, check, connected, run, calls, aborted>>
  BY <1>1 DEF closeVars, hostVars, clientVars, runVars
<1>3. HostIInv'
  BY <1>1, HostFrame DEF DaemonIInv
<1>4. TypeOK'
  BY <1>1, <1>2, <1>3 DEF DaemonIInv, HostIInv, TypeOK
<1>5. StageInv' /\ ErrorInv' /\ LeftOpenForCause' /\ RunInv'
  <2>1. ErrorInv' /\ RunInv' /\ StageInv'
    BY <1>1, <1>2 DEF DaemonIInv, StageInv, ErrorInv, RunInv, RunsAreOver
  <2>2. LeftOpenForCause'
    BY <1>1 DEF LeftOpenForCause, Over
  <2>3. QED BY <2>1, <2>2
<1>6. ClientInv'
  <2>1. \A t \in Signals : sig[t] \in {"awaiting", "done"} => sig'[t] = sig[t]
    BY <1>1 DEF DaemonIInv, TypeOK
  <2>2. \A t \in Signals : /\ sig'[t] = "awaiting" => sig[t] = "awaiting"
                           /\ sig'[t] # "none" => sig[t] # "none" \/ runtime # "unmade"
    BY <1>1 DEF DaemonIInv, TypeOK, StageInv
  <2>3. QED BY <1>2, <2>1, <2>2 DEF DaemonIInv, ClientInv, ClosesRuntime, Drained
<1>7. QED BY <1>3, <1>4, <1>5, <1>6 DEF DaemonIInv

\* The server and the runtime are closed.
LEMMA CloseKeeps == ASSUME DaemonIInv, Closing PROVE DaemonIInv'
<1>1. HostIInv'
  <2>1. UNCHANGED hostVars \/ BeginClose
    BY DEF Closing, AbortRuns, PluginsClosed, Exit, RunsSettled, WorkerClosed, DatabaseClosed,
       ServerClosed, CloseReturns
  <2>2. QED BY <2>1, HostFrame, HostSteps DEF DaemonIInv
<1>2. CASE AbortRuns
  <2>1. /\ UNCHANGED <<hostVars, daemon, cause, failures, db, sig, code, clientVars, run, calls>>
        /\ runtime = "admissions" /\ runtime' = "runs" /\ ~Over
        /\ aborted' = aborted \cup {r \in Runs : run[r] \notin {"none", "over"}}
    BY <1>2 DEF AbortRuns
  <2>2. UNCHANGED <<errors, host, req, check, connected>>
    BY <2>1 DEF hostVars, clientVars
  <2>3. TypeOK'
    BY <1>1, <2>1, <2>2 DEF DaemonIInv, HostIInv, TypeOK, RuntimeStates
  <2>4. StageInv' /\ ErrorInv' /\ LeftOpenForCause' /\ RunInv'
    BY <2>1, <2>2 DEF DaemonIInv, StageInv, ErrorInv, LeftOpenForCause, Over, RunInv
  <2>5. ClientInv'
    <3>1. \A q \in Requests : req[q] # "admitting"
      BY <1>2 DEF AbortRuns
    <3>2. QED BY <2>1, <2>2, <3>1 DEF DaemonIInv, ClientInv, ClosesRuntime, Drained
  <2>6. QED BY <1>1, <2>3, <2>4, <2>5 DEF DaemonIInv
<1>3. ASSUME NEW fails \in BOOLEAN, RunsSettled(fails) PROVE DaemonIInv'
  <2>1. /\ UNCHANGED <<hostVars, daemon, cause, db, sig, code, clientVars, runVars>>
        /\ runtime = "runs" /\ runtime' = "worker" /\ ~Over /\ RunsAreOver /\ failures' \in BOOLEAN
    BY <1>3 DEF RunsSettled, DaemonIInv, TypeOK
  <2>2. UNCHANGED <<errors, host, req, check, connected, run, calls, aborted>>
    BY <2>1 DEF hostVars, clientVars, runVars
  <2>3. TypeOK'
    BY <1>1, <2>1, <2>2 DEF DaemonIInv, HostIInv, TypeOK, RuntimeStates
  <2>4. StageInv' /\ ErrorInv' /\ LeftOpenForCause' /\ RunInv'
    BY <2>1, <2>2 DEF DaemonIInv, StageInv, ErrorInv, LeftOpenForCause, Over, RunInv, RunsAreOver
  <2>5. ClientInv'
    BY <2>1, <2>2 DEF DaemonIInv, ClientInv, ClosesRuntime, Drained
  <2>6. QED BY <1>1, <2>3, <2>4, <2>5 DEF DaemonIInv
<1>4. ASSUME NEW fails \in BOOLEAN, WorkerClosed(fails) PROVE DaemonIInv'
  <2>1. /\ UNCHANGED <<daemon, cause, db, sig, code, clientVars, runVars>>
        /\ runtime = "worker" /\ runtime' = "plugins" /\ ~Over /\ failures' \in BOOLEAN
        /\ host'.at = "closing"
    BY <1>4 DEF WorkerClosed, BeginClose, HostGoto, DaemonIInv, TypeOK
  <2>2. UNCHANGED <<req, check, connected, run, calls, aborted>>
    BY <2>1 DEF clientVars, runVars
  <2>3. TypeOK'
    BY <1>1, <2>1, <2>2 DEF DaemonIInv, HostIInv, TypeOK, RuntimeStates
  <2>4. StageInv' /\ ErrorInv' /\ LeftOpenForCause' /\ RunInv'
    BY <2>1, <2>2 DEF DaemonIInv, StageInv, ErrorInv, LeftOpenForCause, Over, RunInv, RunsAreOver
  <2>5. ClientInv'
    BY <2>1, <2>2 DEF DaemonIInv, ClientInv, ClosesRuntime, Drained
  <2>6. QED BY <1>1, <2>3, <2>4, <2>5 DEF DaemonIInv
<1>5. CASE PluginsClosed
  <2>1. /\ UNCHANGED <<hostVars, daemon, cause, db, sig, code, clientVars, runVars>>
        /\ runtime = "plugins" /\ runtime' = "database" /\ ~Over /\ host.at = "closed"
        /\ failures' = (failures \/ errors # {})
    BY <1>5 DEF PluginsClosed
  <2>2. UNCHANGED <<errors, host, req, check, connected, run, calls, aborted>> /\ failures' \in BOOLEAN
    BY <2>1 DEF hostVars, clientVars, runVars, DaemonIInv, TypeOK
  <2>3. TypeOK'
    BY <1>1, <2>1, <2>2 DEF DaemonIInv, HostIInv, TypeOK, RuntimeStates
  <2>4. StageInv' /\ ErrorInv' /\ LeftOpenForCause' /\ RunInv'
    BY <2>1, <2>2 DEF DaemonIInv, StageInv, ErrorInv, LeftOpenForCause, Over, RunInv, RunsAreOver
  <2>5. ClientInv'
    BY <2>1, <2>2 DEF DaemonIInv, ClientInv, ClosesRuntime, Drained
  <2>6. QED BY <1>1, <2>3, <2>4, <2>5 DEF DaemonIInv
<1>6. ASSUME NEW fails \in BOOLEAN, DatabaseClosed(fails) PROVE DaemonIInv'
  <2>1. /\ UNCHANGED <<hostVars, daemon, cause, sig, code, clientVars, runVars>>
        /\ runtime = "database" /\ runtime' = "closed" /\ ~Over
        /\ db' = fails /\ failures' = (failures \/ fails)
    BY <1>6 DEF DatabaseClosed
  <2>2. UNCHANGED <<errors, host, req, check, connected, run, calls, aborted>> /\ failures' \in BOOLEAN
    BY <2>1 DEF hostVars, clientVars, runVars, DaemonIInv, TypeOK
  <2>3. TypeOK'
    BY <1>1, <2>1, <2>2 DEF DaemonIInv, HostIInv, TypeOK, RuntimeStates
  <2>4. StageInv' /\ ErrorInv' /\ LeftOpenForCause' /\ RunInv'
    BY <2>1, <2>2 DEF DaemonIInv, StageInv, ErrorInv, LeftOpenForCause, Over, RunInv, RunsAreOver
  <2>5. ClientInv'
    BY <2>1, <2>2 DEF DaemonIInv, ClientInv, ClosesRuntime, Drained
  <2>6. QED BY <1>1, <2>3, <2>4, <2>5 DEF DaemonIInv
<1>7. ASSUME NEW s \in Signals, ServerClosed(s) PROVE DaemonIInv'
  <2>1. /\ UNCHANGED <<hostVars, daemon, cause, failures, db, code, clientVars, runVars>>
        /\ sig[s] = "draining" /\ sig' = [sig EXCEPT ![s] = "awaiting"] /\ ~Over /\ Drained
        /\ runtime' = IF runtime = "open" THEN "admissions" ELSE runtime
    BY <1>7 DEF ServerClosed
  <2>2. UNCHANGED <<errors, host, req, check, connected, run, calls, aborted>>
    BY <2>1 DEF hostVars, clientVars, runVars
  <2>3. sig'[s] = "awaiting" /\ runtime' # "open" /\ (\A t \in Signals : t # s => sig'[t] = sig[t])
    BY <2>1 DEF DaemonIInv, TypeOK
  <2>4. TypeOK'
    BY <1>1, <2>1, <2>2 DEF DaemonIInv, HostIInv, TypeOK, RuntimeStates
  <2>5. StageInv' /\ ErrorInv' /\ LeftOpenForCause' /\ RunInv'
    BY <2>1, <2>2 DEF DaemonIInv, StageInv, ErrorInv, LeftOpenForCause, Over, RunInv, RunsAreOver
  <2>6. ClientInv'
    BY <2>1, <2>2, <2>3 DEF DaemonIInv, ClientInv, ClosesRuntime, Drained
  <2>7. QED BY <1>1, <2>4, <2>5, <2>6 DEF DaemonIInv
<1>8. ASSUME NEW s \in Signals, CloseReturns(s) PROVE DaemonIInv'
  <2>1. /\ UNCHANGED <<hostVars, daemon, cause, closeVars, clientVars, runVars>>
        /\ sig[s] = "awaiting" /\ sig' = [sig EXCEPT ![s] = "done"] /\ ~Over /\ runtime = "closed"
        /\ code' = IF failures THEN "failed" ELSE "ok"
    BY <1>8 DEF CloseReturns, HasReturned
  <2>2. UNCHANGED <<runtime, failures, db, errors, host, req, check, connected, run, calls, aborted>>
    BY <2>1 DEF hostVars, closeVars, clientVars, runVars
  <2>3. sig'[s] = "done" /\ (\A t \in Signals : t # s => sig'[t] = sig[t])
    BY <2>1 DEF DaemonIInv, TypeOK
  <2>4. TypeOK'
    BY <1>1, <2>1, <2>2 DEF DaemonIInv, HostIInv, TypeOK
  <2>5. StageInv' /\ ErrorInv' /\ LeftOpenForCause' /\ RunInv'
    BY <2>1, <2>2 DEF DaemonIInv, StageInv, ErrorInv, LeftOpenForCause, Over, RunInv, RunsAreOver
  <2>6. ClientInv'
    BY <2>1, <2>2, <2>3 DEF DaemonIInv, ClientInv, ClosesRuntime, Drained
  <2>7. QED BY <1>1, <2>4, <2>5, <2>6 DEF DaemonIInv
<1>9. CASE Exit
  <2>1. /\ UNCHANGED <<hostVars, cause, closeVars, sig, code, clientVars, runVars>>
        /\ runtime = "closed" /\ daemon' = "over"
    BY <1>9 DEF Exit
  <2>2. UNCHANGED <<runtime, failures, db, errors, host, req, check, connected, run, calls, aborted>>
    BY <2>1 DEF hostVars, closeVars, clientVars, runVars
  <2>3. TypeOK'
    BY <1>1, <2>1, <2>2 DEF DaemonIInv, HostIInv, TypeOK
  <2>4. StageInv' /\ ErrorInv' /\ RunInv'
    BY <2>1, <2>2 DEF DaemonIInv, StageInv, ErrorInv, RunInv, RunsAreOver
  <2>5. ClientInv'
    BY <2>1, <2>2 DEF DaemonIInv, ClientInv, ClosesRuntime, Drained
  <2>6. LeftOpenForCause'
    <3>1. db => failures
      BY <2>1 DEF DaemonIInv, ErrorInv
    <3>2. \A p \in Plugins : Ended(p)
      BY <2>1 DEF DaemonIInv, StageInv, HostIInv, EndInv
    <3>3. \A p \in Entries : stops[p] = 1
      BY <3>2 DEF Entries, Ended
    <3>4. conn \subseteq errors
      BY <3>2 DEF DaemonIInv, HostIInv, HostTypeOK, SessionInv
    <3>5. QED BY <2>1, <2>2, <3>1, <3>3, <3>4 DEF LeftOpenForCause, Entries, hostVars
  <2>7. QED BY <1>1, <2>3, <2>4, <2>5, <2>6 DEF DaemonIInv
<1>10. QED BY <1>2, <1>3, <1>4, <1>5, <1>6, <1>7, <1>8, <1>9 DEF Closing

\* A step that changes nothing keeps the daemon in order.
LEMMA DaemonFrame == ASSUME DaemonIInv, UNCHANGED vars PROVE DaemonIInv'
<1>1. UNCHANGED hostVars /\ UNCHANGED <<lifeVars, clientVars, runVars>>
  BY DEF vars
<1>2. HostIInv'
  BY <1>1, HostFrame DEF DaemonIInv
<1>3. /\ UNCHANGED <<daemon, cause, runtime, failures, db, errors, host>>
      /\ UNCHANGED <<sig, code, req, check, connected, run, calls, aborted, entry, stops, conn>>
  BY <1>1 DEF lifeVars, closeVars, clientVars, runVars, hostVars
<1>4. TypeOK'
  BY <1>2, <1>3 DEF DaemonIInv, HostIInv, TypeOK
<1>5. StageInv' /\ ErrorInv' /\ RunInv' /\ LeftOpenForCause'
  BY <1>3 DEF DaemonIInv, StageInv, ErrorInv, RunInv, RunsAreOver, LeftOpenForCause, Over, Entries
<1>6. ClientInv'
  BY <1>3 DEF DaemonIInv, ClientInv, ClosesRuntime, Drained
<1>7. QED BY <1>2, <1>4, <1>5, <1>6 DEF DaemonIInv

\* Every step keeps the daemon in order.
LEMMA DaemonSteps == DaemonIInv /\ [Next]_vars => DaemonIInv'
BY WorkKeeps, StartKeeps, ServeKeeps, RunKeeps, CloseKeeps, SignalKeeps, DaemonFrame DEF Next

-----------------------------------------------------------------------------
(* The theorems.                                                           *)

\* orderPlugins finds an order - every plugin once, each after its dependencies - of every set of
\* plugins but those with an absent dependency or a cycle, which it refuses (plugins.ts:192-230).
THEOREM OrderIsFound ==
  \A d \in Manifests :
    /\ ~Unorderable(d) => Complete(OrderOf(d), d)
    /\ Unorderable(d) <=> \/ \E p \in Plugins : ~(d[p] \subseteq Plugins)
                          \/ \E C \in SUBSET Plugins : Blocked(d, C)
<1> SUFFICES ASSUME NEW d \in Manifests
             PROVE  /\ ~Unorderable(d) => Complete(OrderOf(d), d)
                    /\ Unorderable(d) <=> \/ \E p \in Plugins : ~(d[p] \subseteq Plugins)
                                          \/ \E C \in SUBSET Plugins : Blocked(d, C)
  OBVIOUS
<1>1. ~Unorderable(d) => Complete(OrderOf(d), d)
  BY OrderIsComplete
<1>2. ASSUME NEW p \in Plugins, p \in d[p] PROVE {p} \in SUBSET Plugins /\ Blocked(d, {p})
  BY <1>2 DEF Blocked
<1>3. ASSUME \A C \in SUBSET Plugins : ~Blocked(d, C) PROVE ~(Len(OrderOf(d)) < Cardinality(Plugins))
  <2>1. PICK f : IsLayers(d, f, Plugins) /\ OrderOf(d) = f[Plugins]
    BY LayersOf
  <2>2. Len(OrderOf(d)) = Cardinality(Plugins)
    BY <1>3, <2>1, LayersList
  <2>3. QED BY <2>2, CountOfPlugins
<1>4. Unorderable(d) => \/ \E p \in Plugins : ~(d[p] \subseteq Plugins)
                        \/ \E C \in SUBSET Plugins : Blocked(d, C)
  BY <1>2, <1>3 DEF Unorderable
<1>5. ASSUME NEW C \in SUBSET Plugins, Blocked(d, C) PROVE Unorderable(d)
  BY <1>1, <1>5, CycleBlocks
<1>6. ASSUME NEW p \in Plugins, ~(d[p] \subseteq Plugins) PROVE Unorderable(d)
  BY <1>6 DEF Unorderable
<1>7. QED BY <1>1, <1>4, <1>5, <1>6

\* The inductive invariant holds: where the host is with every plugin, and how far daemon, runtime
\* and host are with one another.
THEOREM DaemonIsInOrder == Spec => []DaemonIInv
<1>1. Init => DaemonIInv
  BY DaemonStarts
<1>2. DaemonIInv /\ [Next]_vars => DaemonIInv'
  BY DaemonSteps
<1>3. QED BY <1>1, <1>2, PTL DEF Spec

\* Wherever the host is, no plugin was stopped twice.
LEMMA StoppedOnce == DaemonIInv => \A p \in Plugins : stops[p] <= 1
<1> SUFFICES ASSUME DaemonIInv, NEW p \in Plugins PROVE stops[p] <= 1
  OBVIOUS
<1> USE DEF Untouched, SettingUp, SetUp, BeingStarted, Ready, BeingStopped, Ended
<1>1. HostIInv
  BY DEF DaemonIInv
<1>2. CASE host.at \in {"refused", "thrown", "open", "closed"}
  BY <1>1, <1>2 DEF HostIInv, OpenInv, EndInv
<1>3. CASE host.at \in {"setup", "start", "rollback", "closing"}
  <2>1. PICK i \in Places : order[i] = p
    BY <1>1, <1>3, PlacesOfPlugins
  <2>2. i < host.next \/ i = host.next \/ i > host.next
    BY <1>1, CountOfPlugins DEF HostIInv, HostTypeOK, Places
  <2>3. CASE host.at = "setup"
    BY <1>1, <2>1, <2>2, <2>3 DEF HostIInv, SetupInv
  <2>4. CASE host.at = "start"
    BY <1>1, <2>1, <2>2, <2>4 DEF HostIInv, StartInv
  <2>5. CASE Stopping
    BY <1>1, <2>1, <2>2, <2>5 DEF HostIInv, StopInv
  <2>6. QED BY <1>3, <2>3, <2>4, <2>5 DEF Stopping
<1>4. QED BY <1>1, <1>2, <1>3 DEF HostIInv, HostTypeOK, Positions

\* A tool name has one owner, and no plugin is stopped twice, whoever closes it.
THEOREM DaemonIsSound == Spec => []DaemonInv
<1>1. DaemonIInv => DaemonInv
  BY StoppedOnce DEF DaemonIInv, HostIInv, DaemonInv, HostInv, NamesInv
<1>2. QED BY <1>1, DaemonIsInOrder, PTL

\* From its set-up to the end of its stop, what a plugin depends on is there for it, also when it
\* is a failure in the middle that is cleaned up (plugins.ts:135-141, 250-258).
THEOREM DependenciesAreThere == Spec => []DependenciesServe
<1>1. ASSUME DaemonIInv, NEW p \in Plugins, NEW d \in deps[p]
      PROVE  /\ Relies(p) => Serves(d)
             /\ entry[p] = "ready" \/ doing[p] = "starting" => entry[d] = "ready"
  <2> USE DEF Untouched, SettingUp, SetUp, BeingStarted, Ready, BeingStopped, Ended
  <2> SUFFICES ASSUME Relies(p)
               PROVE  /\ Serves(d)
                      /\ entry[p] = "ready" \/ doing[p] = "starting" => entry[d] = "ready"
    BY DEF Relies
  <2>1. HostIInv
    BY <1>1 DEF DaemonIInv
  <2>2. host.at \notin {"refused", "thrown", "closed"}
    BY <2>1 DEF HostIInv, EndInv, Relies
  <2>3. PICK i \in Places : order[i] = p
    BY <2>1, <2>2, PlacesOfPlugins
  <2>4. PICK j \in Places : j < i /\ order[j] = d
    BY <1>1, <2>1, <2>2, <2>3, PlacesOfPlugins
  <2>5. d \in Plugins
    BY <2>1, <2>2, <2>4, PlacesOfPlugins
  <2>6. i \in Nat /\ j \in Nat /\ host.next \in Nat
    BY <2>1, CountOfPlugins DEF HostIInv, HostTypeOK, Places
  <2>7. i < host.next \/ i = host.next \/ i > host.next
    BY <2>6
  <2>8. i <= host.next => j < host.next
    BY <2>4, <2>6
  <2>9. entry[p] = "ready" => entry[d] = "ready"
    BY <2>1, <2>2, <2>3, <2>4 DEF HostIInv, ReadyInv
  <2>10. CASE host.at = "setup"
    <3>1. i <= host.next /\ SettingUp(order[i])
      <4>1. i < host.next => SetUp(p)
        BY <2>1, <2>3, <2>10 DEF HostIInv, SetupInv
      <4>2. i > host.next => Untouched(p)
        BY <2>1, <2>3, <2>10 DEF HostIInv, SetupInv
      <4>3. i = host.next => Untouched(p) \/ SettingUp(p)
        BY <2>1, <2>3, <2>10 DEF HostIInv, SetupInv
      <4>4. QED BY <2>3, <2>6, <2>7, <4>1, <4>2, <4>3 DEF Relies
    <3>2. SetUp(d)
      BY <2>1, <2>4, <2>8, <2>10, <3>1 DEF HostIInv, SetupInv
    <3>3. QED BY <2>3, <2>9, <3>1, <3>2 DEF Serves
  <2>11. CASE host.at = "start"
    <3>1. i <= host.next
      <4>1. i > host.next => SetUp(p)
        BY <2>1, <2>3, <2>11 DEF HostIInv, StartInv
      <4>2. QED BY <2>6, <2>7, <4>1 DEF Relies
    <3>2. Ready(d)
      BY <2>1, <2>4, <2>8, <2>11, <3>1 DEF HostIInv, StartInv
    <3>3. QED BY <3>2 DEF Serves
  <2>12. CASE host.at = "open"
    BY <2>1, <2>5, <2>12, <2>9 DEF HostIInv, OpenInv, Serves
  <2>13. CASE Stopping
    <3>1. i <= host.next
      <4>1. i > host.next => Ended(p) \/ Untouched(p)
        BY <2>1, <2>3, <2>13 DEF HostIInv, StopInv
      <4>2. QED BY <2>6, <2>7, <4>1 DEF Relies
    <3>2. SetUp(d) \/ Ready(d)
      BY <2>1, <2>4, <2>8, <2>13, <3>1 DEF HostIInv, StopInv
    <3>3. doing[p] # "starting"
      BY <2>1, <2>13, Busy DEF Stopping
    <3>4. QED BY <2>9, <3>2, <3>3 DEF Serves
  <2>14. QED BY <2>1, <2>2, <2>10, <2>11, <2>12, <2>13 DEF HostIInv, HostTypeOK, Positions, Stopping
<1>2. DaemonIInv => DependenciesServe
  BY <1>1 DEF DependenciesServe
<1>3. QED BY <1>2, DaemonIsInOrder, PTL

\* When a plugin is stopped, no tool call to it is under way, and a health check only for a client
\* that has gone: connections, admissions and runs come before the resources (main.ts:459,
\* runtime.ts:285-293).
THEOREM NothingIsInFlight == Spec => []NothingInFlight
<1>1. ASSUME DaemonIInv, NEW p \in Plugins, doing[p] \in {"terminating", "closing"}
      PROVE  /\ \A r \in Runs : <<r, p>> \notin calls
             /\ \A q \in Inspections : check[q][p] = "out" => q \notin connected
  <2>1. Stopping
    BY <1>1, Busy DEF DaemonIInv, SettingUp, BeingStarted
  <2>2. runtime \in {"unmade", "plugins"}
    BY <1>1, <2>1 DEF DaemonIInv, StageInv, Stopping, TypeOK, RuntimeStates
  <2>3. \A r \in Runs : run[r] # "driver"
    BY <1>1, <2>2 DEF DaemonIInv, RunInv, RunsAreOver
  <2>4. runtime = "unmade" => \A q \in Inspections : req[q] # "inspecting"
    BY <1>1 DEF DaemonIInv, ClientInv, Requests
  <2>5. runtime = "plugins" => connected = {}
    BY <1>1 DEF DaemonIInv, ClientInv, ClosesRuntime, Drained
  <2>6. QED BY <1>1, <2>2, <2>3, <2>4, <2>5 DEF DaemonIInv, RunInv, ClientInv
<1>2. DaemonIInv => NothingInFlight
  BY <1>1 DEF NothingInFlight
<1>3. QED BY <1>2, DaemonIsInOrder, PTL

\* A process that ended left nothing open but for the known causes (main.ts:36-46, 454).
THEOREM NothingIsLeftOpen == Spec => []LeftOpenForCause
<1>1. DaemonIInv => LeftOpenForCause
  BY DEF DaemonIInv
<1>2. QED BY <1>1, DaemonIsInOrder, PTL

\* The exit code says success only if everything is closed and nothing failed, also when both
\* handlers wait for the close (main.ts:458-466).
THEOREM ExitIsTrue == Spec => []ExitTellsTruth
<1>1. DaemonIInv => ExitTellsTruth
  <2> SUFFICES ASSUME DaemonIInv, code = "ok"
               PROVE  ~db /\ ~failures /\ errors = {} /\ conn = {} /\ \A p \in Plugins : stops[p] = 1
    BY DEF ExitTellsTruth
  <2>1. runtime = "closed" /\ ~failures /\ ~db /\ errors = {}
    BY DEF DaemonIInv, ErrorInv
  <2>2. \A p \in Plugins : Ended(p)
    BY <2>1 DEF DaemonIInv, StageInv, HostIInv, EndInv
  <2>3. conn = {}
    BY <2>1, <2>2 DEF DaemonIInv, HostIInv, HostTypeOK, SessionInv
  <2>4. QED BY <2>1, <2>2, <2>3 DEF Ended
<1>2. QED BY <1>1, DaemonIsInOrder, PTL
=============================================================================
