-------------------------- MODULE AviDemuxer_proofs --------------------------
(***************************************************************************)
(* What the demuxer does with every file of chunk headers, whole or cut,   *)
(* over every order of reads and seeks: it keeps to its segments, comes to *)
(* an answer, returns whole packets only and lands on keyframes its        *)
(* indexes list.                                                           *)
(*                                                                         *)
(* Its walks and sums are recursive functions, which have a value only if  *)
(* a function that satisfies the recursion exists: the first parts show    *)
(* that they do.  Then come the tables, the segments, the turns of         *)
(* next_packet, the searches and the seeks, and at the end the invariant   *)
(* of the state machine.                                                   *)
(***************************************************************************)
EXTENDS AviDemuxer, FiniteSetTheorems, SequenceTheorems, WellFoundedInduction, TLAPS

-----------------------------------------------------------------------------
(* Recursive functions exist                                               *)

\* A set of numbers that is not empty has a least one.
LEMMA NatLeast ==
  ASSUME NEW T, T \subseteq Nat, T # {}
  PROVE  \E x \in T : \A y \in T : x <= y
<1>1. \A i, j \in Nat : <<i, j>> \in OpToRel(<, Nat) <=> i < j
  BY DEF OpToRel
<1>2. PICK x \in T : \A y \in T : ~(<<y, x>> \in OpToRel(<, Nat))
  BY NatLessThanWellFounded, WFMin
<1>3. \A y \in T : ~(y < x) BY <1>1, <1>2
<1> QED BY <1>3

\* a holds the first n values of the iteration of G from base, base included.
Prefix(a, n, V, base, G) ==
  /\ a \in [0 .. n -> V]
  /\ a[0] = base
  /\ \A i \in 1 .. n : a[i] = G[i][a[i - 1]]

\* Two runs of a recursion agree as far as both go.
LEMMA PrefixesAgree ==
  ASSUME NEW V, NEW base, NEW G, NEW n \in Nat, NEW m \in Nat, n <= m,
         NEW a, Prefix(a, n, V, base, G), NEW b, Prefix(b, m, V, base, G)
  PROVE  \A i \in 0 .. n : a[i] = b[i]
<1> DEFINE Bad == {i \in 0 .. n : a[i] # b[i]}
<1>1. Bad = {}
  <2> SUFFICES ASSUME Bad # {} PROVE FALSE
    OBVIOUS
  <2>1. PICK i \in Bad : \A j \in Bad : i <= j
    <3>1. Bad \subseteq Nat OBVIOUS
    <3> HIDE DEF Bad
    <3> QED BY <3>1, NatLeast
  <2>2. i # 0 BY DEF Prefix
  <2>3. i \in 1 .. n /\ i \in 1 .. m /\ i - 1 \in 0 .. n /\ ~(i <= i - 1) BY <2>2
  <2>4. a[i - 1] = b[i - 1] BY <2>1, <2>3
  <2>5. a[i] = G[i][a[i - 1]] /\ b[i] = G[i][b[i - 1]] BY <2>3 DEF Prefix
  <2> QED BY <2>1, <2>4, <2>5
<1> QED BY <1>1

Iterates(h, V, base, G) ==
  /\ h \in [Nat -> V]
  /\ h[0] = base
  /\ \A n \in Nat : h[n + 1] = G[n + 1][h[n]]

\* Iteration defines a function on the numbers.
LEMMA Iteration ==
  ASSUME NEW V, NEW base \in V, NEW G \in [Nat -> [V -> V]]
  PROVE  \E h : Iterates(h, V, base, G)
<1> DEFINE P(a, n) == Prefix(a, n, V, base, G)
           Bad == {n \in Nat : ~ \E a : P(a, n)}
<1>1. Bad = {}
  <2> SUFFICES ASSUME Bad # {} PROVE FALSE
    OBVIOUS
  <2>1. PICK n \in Bad : \A j \in Bad : n <= j
    <3>1. Bad \subseteq Nat OBVIOUS
    <3> HIDE DEF Bad
    <3> QED BY <3>1, NatLeast
  <2>2. n # 0
    <3>1. P([i \in 0 .. 0 |-> base], 0) BY DEF Prefix
    <3> QED BY <3>1
  <2>3. n - 1 \in Nat /\ ~(n <= n - 1) BY <2>2
  <2>4. PICK a : P(a, n - 1) BY <2>1, <2>3
  <2> DEFINE b == [i \in 0 .. n |-> IF i = n THEN G[n][a[n - 1]] ELSE a[i]]
  <2>5. P(b, n)
    <3>1. a \in [0 .. n - 1 -> V] /\ a[0] = base
          /\ \A i \in 1 .. n - 1 : a[i] = G[i][a[i - 1]]
      BY <2>4 DEF Prefix
    <3>2. G[n][a[n - 1]] \in V
      <4>1. a[n - 1] \in V BY <2>3, <3>1
      <4>2. G[n] \in [V -> V] OBVIOUS
      <4> QED BY <4>1, <4>2
    <3>3. b \in [0 .. n -> V] BY <3>1, <3>2
    <3>4. b[0] = base BY <2>2, <3>1
    <3>5. \A i \in 1 .. n : b[i] = G[i][b[i - 1]] BY <3>1
    <3> HIDE DEF b
    <3> QED BY <3>3, <3>4, <3>5 DEF Prefix
  <2> QED BY <2>1, <2>5
<1>2. \A n \in Nat : \E a : P(a, n) BY <1>1
<1> DEFINE A(n) == CHOOSE a : P(a, n)
           h == [n \in Nat |-> A(n)[n]]
<1>3. \A n \in Nat : P(A(n), n) BY <1>2
<1> HIDE DEF A, Bad
<1>4. \A n \in Nat : h[n] \in V
  <2>1. \A n \in Nat : n \in 0 .. n OBVIOUS
  <2> QED BY <1>3, <2>1 DEF Prefix
<1>5. h \in [Nat -> V] BY <1>4
<1>6. h[0] = base BY <1>3 DEF Prefix
<1>7. ASSUME NEW n \in Nat PROVE h[n + 1] = G[n + 1][h[n]]
  <2> DEFINE m == n + 1
  <2>1. m \in Nat /\ m \in 1 .. m /\ m - 1 = n /\ n <= m /\ n \in 0 .. n OBVIOUS
  <2> HIDE DEF m
  <2>2. A(m)[m] = G[m][A(m)[n]] BY <1>3, <2>1 DEF Prefix
  <2>3. A(n)[n] = A(m)[n] BY <1>3, <2>1, PrefixesAgree
  <2>4. h[m] = A(m)[m] /\ h[n] = A(n)[n] BY <2>1
  <2> QED BY <2>2, <2>3, <2>4 DEF m
<1> HIDE DEF h
<1> QED BY <1>5, <1>6, <1>7 DEF Iterates

-----------------------------------------------------------------------------
(* Walks over the headers of a file                                        *)

\* v lists, for every offset, the members of M a walk from it visits: the walk
\* goes on through D by next.
Walks(v, D, M, next) ==
  \A at \in Nat : v[at] = IF at \in D THEN (M \cap {at}) \cup v[next[at]] ELSE {}

Forward(D, M, next, top) ==
  /\ D \subseteq Nat /\ M \subseteq D
  /\ \A at \in D : at < top
  /\ next \in [D -> Nat]
  /\ \A at \in D : next[at] > at

\* A walk that only goes forward comes to an end: the recursion is defined.
LEMMA WalkExists ==
  ASSUME NEW D, NEW M, NEW next, NEW top \in Nat, Forward(D, M, next, top)
  PROVE  \E v \in [Nat -> SUBSET M] : Walks(v, D, M, next)
<1> DEFINE V == [Nat -> SUBSET M]
           More(v) == [at \in Nat |-> IF at \in D THEN (M \cap {at}) \cup v[next[at]] ELSE {}]
           G == [n \in Nat |-> [v \in V |-> More(v)]]
           none == [at \in Nat |-> {}]
<1>1. \A v \in V : More(v) \in V
  <2> SUFFICES ASSUME NEW v \in V, NEW at \in Nat
               PROVE  (IF at \in D THEN (M \cap {at}) \cup v[next[at]] ELSE {}) \in SUBSET M
    OBVIOUS
  <2> QED BY DEF Forward
<1>2. none \in V OBVIOUS
<1> HIDE DEF V, More
<1>3. G \in [Nat -> [V -> V]] BY <1>1
<1> HIDE DEF G, none
<1>4. PICK h : Iterates(h, V, none, G) BY <1>2, <1>3, Iteration
<1>5. ASSUME NEW n \in Nat PROVE h[n + 1] = More(h[n])
  <2>1. h[n + 1] = G[n + 1][h[n]] /\ n + 1 \in Nat /\ h[n] \in V BY <1>4 DEF Iterates
  <2> QED BY <2>1 DEF G
<1> DEFINE Bad == {n \in 0 .. top : \E at \in Nat : at >= top - n /\ h[n + 1][at] # h[n][at]}
<1>6. Bad = {}
  <2> SUFFICES ASSUME Bad # {} PROVE FALSE
    OBVIOUS
  <2>1. PICK n \in Bad : \A j \in Bad : n <= j
    <3>1. Bad \subseteq Nat OBVIOUS
    <3> HIDE DEF Bad
    <3> QED BY <3>1, NatLeast
  <2>2. PICK at \in Nat : at >= top - n /\ h[n + 1][at] # h[n][at] OBVIOUS
  <2> n \in Nat OBVIOUS
  <2> HIDE DEF Bad
  <2>3. h[n + 1][at] = IF at \in D THEN (M \cap {at}) \cup h[n][next[at]] ELSE {}
    BY <1>5 DEF More
  <2>4. CASE n = 0
    <3>1. at \notin D BY <2>2, <2>4 DEF Forward
    <3>2. h[n][at] = {} BY <1>4, <2>4 DEF none, Iterates
    <3> QED BY <2>2, <2>3, <3>1, <3>2
  <2>5. CASE n # 0
    <3>1. n - 1 \in 0 .. top /\ n - 1 \in Nat /\ n - 1 + 1 = n /\ ~(n <= n - 1) BY <2>5 DEF Bad
    <3>2. h[n][at] = IF at \in D THEN (M \cap {at}) \cup h[n - 1][next[at]] ELSE {}
      <4> DEFINE m == n - 1
      <4>1. m \in Nat /\ m + 1 = n BY <3>1
      <4> HIDE DEF m
      <4>2. h[m + 1] = More(h[m]) BY <1>5, <4>1
      <4>3. h[n][at] = IF at \in D THEN (M \cap {at}) \cup h[m][next[at]] ELSE {}
        BY <4>1, <4>2 DEF More
      <4> QED BY <4>3 DEF m
    <3>3. CASE at \in D
      <4>1. next[at] \in Nat /\ next[at] >= top - (n - 1) BY <2>2, <3>3 DEF Forward
      <4>2. n - 1 \notin Bad BY <2>1, <3>1
      <4>3. h[n][next[at]] = h[n - 1][next[at]] BY <3>1, <4>1, <4>2 DEF Bad
      <4> QED BY <2>2, <2>3, <3>2, <3>3, <4>3
    <3>4. CASE at \notin D BY <2>2, <2>3, <3>2, <3>4
    <3> QED BY <3>3, <3>4
  <2> QED BY <2>4, <2>5
<1>7. \A at \in Nat : h[top + 1][at] = h[top][at]
  <2>1. top \notin Bad /\ top \in 0 .. top /\ \A at \in Nat : at >= top - top BY <1>6
  <2> QED BY <2>1
<1>8. Walks(h[top], D, M, next)
  <2>1. \A at \in Nat : h[top + 1][at] = IF at \in D THEN (M \cap {at}) \cup h[top][next[at]]
                                         ELSE {}
    BY <1>5 DEF More
  <2> QED BY <1>7, <2>1 DEF Walks
<1>9. h[top] \in [Nat -> SUBSET M] BY <1>4 DEF V, Iterates
<1> QED BY <1>8, <1>9

\* What a walk visits: members of M from where it starts, each behind the end
\* of those before it.
LEMMA WalkFacts ==
  ASSUME NEW D, NEW M, NEW next, NEW top \in Nat, Forward(D, M, next, top),
         NEW v, Walks(v, D, M, next)
  PROVE  \A at \in Nat : /\ v[at] \subseteq M
                         /\ \A b \in v[at] : at <= b
                         /\ \A a, b \in v[at] : a < b => next[a] <= b
                         /\ at \in M => at \in v[at]
                         /\ \A a \in v[at] : next[a] \in M => next[a] \in v[at]
<1> DEFINE Well(at) == /\ v[at] \subseteq M
                       /\ \A b \in v[at] : at <= b
                       /\ \A a, b \in v[at] : a < b => next[a] <= b
                       /\ at \in M => at \in v[at]
                       /\ \A a \in v[at] : next[a] \in M => next[a] \in v[at]
           Bad == {n \in Nat : \E at \in Nat : at >= top - n /\ ~Well(at)}
<1>1. Bad = {}
  <2> SUFFICES ASSUME Bad # {} PROVE FALSE
    OBVIOUS
  <2>1. PICK n \in Bad : \A j \in Bad : n <= j
    <3>1. Bad \subseteq Nat OBVIOUS
    <3> HIDE DEF Bad
    <3> QED BY <3>1, NatLeast
  <2>2. PICK at \in Nat : at >= top - n /\ ~Well(at) BY <2>1
  <2>3. at \in D
    <3>1. at \notin D => v[at] = {} BY DEF Walks
    <3>2. M \subseteq D BY DEF Forward
    <3> QED BY <2>2, <3>1, <3>2
  <2>4. v[at] = (M \cap {at}) \cup v[next[at]] BY <2>3 DEF Walks
  <2>5. at < top /\ next[at] \in Nat /\ next[at] > at BY <2>3 DEF Forward
  <2>6. n # 0 BY <2>2, <2>5
  <2>7. n - 1 \in Nat /\ ~(n <= n - 1) /\ next[at] >= top - (n - 1) BY <2>2, <2>5, <2>6
  <2>8. Well(next[at]) BY <2>1, <2>5, <2>7
  <2>9. M \subseteq Nat BY DEF Forward
  <2>10. Well(at)
    <3> HIDE DEF Bad
    <3>1. v[at] \subseteq M BY <2>4, <2>8
    <3>2. ASSUME NEW b \in v[at] PROVE at <= b /\ b \in Nat /\ (b # at => b \in v[next[at]])
      <4>1. b \in Nat BY <2>9, <3>1
      <4> QED BY <2>4, <2>5, <2>8, <4>1
    <3>3. ASSUME NEW a \in v[at], NEW b \in v[at], a < b PROVE next[a] <= b
      <4>1. b \in v[next[at]] BY <3>2, <3>3
      <4>2. CASE a = at BY <2>8, <4>1, <4>2
      <4>3. CASE a # at BY <2>8, <3>2, <3>3, <4>1, <4>3
      <4> QED BY <4>2, <4>3
    <3>4. at \in M => at \in v[at] BY <2>4
    <3>5. ASSUME NEW a \in v[at], next[a] \in M PROVE next[a] \in v[at]
      BY <2>4, <2>8, <3>5
    <3> QED BY <3>1, <3>2, <3>3, <3>4, <3>5
  <2> QED BY <2>2, <2>10
<1>2. ASSUME NEW at \in Nat PROVE Well(at)
  <2>1. top \in Nat /\ at >= top - top OBVIOUS
  <2> QED BY <1>1, <2>1
<1> QED BY <1>2

-----------------------------------------------------------------------------
(* Folds over a finite set                                                 *)

\* g is the fold of G over the subsets of S that takes the elements in the
\* order ch gives.
Folds(g, S, V, base, ch, G) ==
  /\ g \in [SUBSET S -> V]
  /\ \A T \in SUBSET S : g[T] = IF T = {} THEN base ELSE G[ch[T]][g[T \ {ch[T]}]]

\* There is a function that folds a finite set by taking out one element after another.
LEMMA FoldExists ==
  ASSUME NEW S, IsFiniteSet(S), NEW V, NEW base \in V,
         NEW ch, \A T \in SUBSET S : T # {} => ch[T] \in T, NEW G \in [S -> [V -> V]]
  PROVE  \E g : Folds(g, S, V, base, ch, G)
<1> DEFINE W == [SUBSET S -> V]
           Value(g, T) == IF T = {} THEN base ELSE G[ch[T]][g[T \ {ch[T]}]]
           More(g) == [T \in SUBSET S |-> Value(g, T)]
           H == [n \in Nat |-> [g \in W |-> More(g)]]
           none == [T \in SUBSET S |-> base]
<1>1. \A g \in W : More(g) \in W
  <2> SUFFICES ASSUME NEW g \in W, NEW T \in SUBSET S PROVE Value(g, T) \in V
    OBVIOUS
  <2>1. CASE T = {} BY <2>1
  <2>2. CASE T # {}
    <3>1. ch[T] \in S /\ T \ {ch[T]} \in SUBSET S BY <2>2
    <3>2. G[ch[T]] \in [V -> V] /\ g[T \ {ch[T]}] \in V BY <3>1
    <3> QED BY <2>2, <3>2
  <2> QED BY <2>1, <2>2
<1>2. none \in W OBVIOUS
<1> HIDE DEF W, More
<1>3. H \in [Nat -> [W -> W]] BY <1>1
<1> HIDE DEF H, none
<1>4. PICK h : Iterates(h, W, none, H) BY <1>2, <1>3, Iteration
<1>5. ASSUME NEW n \in Nat PROVE h[n + 1] = More(h[n])
  <2>1. h[n + 1] = H[n + 1][h[n]] /\ n + 1 \in Nat /\ h[n] \in W BY <1>4 DEF Iterates
  <2> QED BY <2>1 DEF H
<1> HIDE DEF Value
<1>6. \A T \in SUBSET S : IsFiniteSet(T) /\ Cardinality(T) \in Nat
  BY FS_Subset, FS_CardinalityType
<1> DEFINE Bad == {n \in Nat : \E T \in SUBSET S : Cardinality(T) <= n /\ h[n + 1][T] # h[n][T]}
<1>7. Bad = {}
  <2> SUFFICES ASSUME Bad # {} PROVE FALSE
    OBVIOUS
  <2>1. PICK n \in Bad : \A j \in Bad : n <= j
    <3>1. Bad \subseteq Nat OBVIOUS
    <3> HIDE DEF Bad
    <3> QED BY <3>1, NatLeast
  <2>2. PICK T \in SUBSET S : Cardinality(T) <= n /\ h[n + 1][T] # h[n][T] OBVIOUS
  <2> n \in Nat OBVIOUS
  <2> HIDE DEF Bad
  <2>3. h[n + 1][T] = Value(h[n], T) BY <1>5 DEF More
  <2>4. CASE n = 0
    <3>1. T = {} BY <1>6, <2>2, <2>4, FS_EmptySet
    <3>2. h[n][T] = base BY <1>4, <2>4 DEF none, Iterates
    <3> QED BY <2>2, <2>3, <3>1, <3>2 DEF Value
  <2>5. CASE n # 0
    <3> DEFINE m == n - 1
    <3>1. m \in Nat /\ m + 1 = n /\ ~(n <= m) BY <2>5
    <3> HIDE DEF m
    <3>2. h[m + 1] = More(h[m]) BY <1>5, <3>1
    <3>3. h[n][T] = Value(h[m], T) BY <3>1, <3>2 DEF More
    <3>4. CASE T = {} BY <2>2, <2>3, <3>3, <3>4 DEF Value
    <3>5. CASE T # {}
      <4> DEFINE R == T \ {ch[T]}
      <4>1. ch[T] \in T BY <3>5
      <4>2. R \in SUBSET S OBVIOUS
      <4>3. Cardinality(R) = Cardinality(T) - 1 BY <1>6, <4>1, FS_RemoveElement
      <4>4. Cardinality(R) <= m BY <1>6, <2>2, <3>1, <4>3
      <4> HIDE DEF R
      <4>5. h[m + 1][R] = h[m][R] BY <2>1, <3>1, <4>2, <4>4 DEF Bad
      <4>6. Value(h[n], T) = G[ch[T]][h[n][R]] /\ Value(h[m], T) = G[ch[T]][h[m][R]]
        BY <3>5 DEF Value, R
      <4> QED BY <2>2, <2>3, <3>1, <3>3, <4>5, <4>6
    <3> QED BY <3>4, <3>5
  <2> QED BY <2>4, <2>5
<1> DEFINE n == Cardinality(S)
           g == h[n]
<1>8. n \in Nat BY <1>6
<1>9. \A T \in SUBSET S : g[T] = Value(g, T)
  <2> SUFFICES ASSUME NEW T \in SUBSET S PROVE g[T] = Value(g, T)
    OBVIOUS
  <2>1. Cardinality(T) <= n BY FS_Subset
  <2> HIDE DEF n
  <2>2. h[n + 1][T] = h[n][T] BY <1>7, <1>8, <2>1
  <2>3. h[n + 1][T] = Value(h[n], T) BY <1>5, <1>8 DEF More
  <2> QED BY <2>2, <2>3
<1>10. g \in [SUBSET S -> V] BY <1>4, <1>8 DEF W, Iterates
<1> HIDE DEF g
<1> QED BY <1>9, <1>10 DEF Folds, Value

\* h gives every subset of S the sum of f over it.
Sums(h, f, S) ==
  /\ h \in [SUBSET S -> Nat]
  /\ h[{}] = 0
  /\ \A T \in SUBSET S : \A x \in T : h[T] = f[x] + h[T \ {x}]

\* The recursive function in SumFunctionOnSet, which takes elements out by
\* CHOOSE.
IsSum(g, f, S) ==
  g = [T \in SUBSET S |-> IF T = {} THEN 0
                          ELSE LET x == CHOOSE x \in T : TRUE
                               IN f[x] + g[T \ {x}]]

\* SumFunctionOnSet is the recursive function chosen.
LEMMA SumIsChosen ==
  ASSUME NEW f, NEW S
  PROVE  SumFunctionOnSet(f, S) = (CHOOSE g : IsSum(g, f, S))[S]
BY Zenon DEF SumFunctionOnSet, FoldFunctionOnSet, MapThenFoldSet, IsSum

\* That function exists for numbers summed over a finite set.
LEMMA SumExists ==
  ASSUME NEW S, IsFiniteSet(S), NEW f, \A x \in S : f[x] \in Nat
  PROVE  \E g \in [SUBSET S -> Nat] : IsSum(g, f, S)
<1> DEFINE ch == [T \in SUBSET S |-> CHOOSE x \in T : TRUE]
           G == [x \in S |-> [n \in Nat |-> f[x] + n]]
<1>1. \A T \in SUBSET S : T # {} => ch[T] \in T OBVIOUS
<1>2. G \in [S -> [Nat -> Nat]] OBVIOUS
<1>3. 0 \in Nat OBVIOUS
<1> HIDE DEF ch, G
<1>4. PICK g : Folds(g, S, Nat, 0, ch, G)
  BY <1>1, <1>2, <1>3, FoldExists
<1>5. ASSUME NEW T \in SUBSET S
      PROVE  g[T] = IF T = {} THEN 0 ELSE LET x == CHOOSE x \in T : TRUE IN f[x] + g[T \ {x}]
  <2>1. CASE T = {} BY <1>4, <2>1 DEF Folds
  <2>2. CASE T # {}
    <3>1. ch[T] = CHOOSE x \in T : TRUE BY DEF ch
    <3>2. ch[T] \in S /\ T \ {ch[T]} \in SUBSET S BY <1>1, <2>2
    <3>3. g[T] = G[ch[T]][g[T \ {ch[T]}]] BY <1>4, <2>2 DEF Folds
    <3>4. g[T \ {ch[T]}] \in Nat BY <1>4, <3>2 DEF Folds
    <3>5. g[T] = f[ch[T]] + g[T \ {ch[T]}] BY <3>2, <3>3, <3>4 DEF G
    <3> QED BY <2>2, <3>1, <3>5
  <2> QED BY <2>1, <2>2
<1>6. g \in [SUBSET S -> Nat] /\ g = [T \in SUBSET S |-> g[T]] BY <1>4 DEF Folds
<1> QED BY <1>5, <1>6 DEF IsSum

\* The recursive function takes out one element; the sum is the same
\* whichever is taken.
LEMMA SumIsAdditive ==
  ASSUME NEW S, IsFiniteSet(S), NEW f, \A x \in S : f[x] \in Nat,
         NEW g \in [SUBSET S -> Nat], IsSum(g, f, S)
  PROVE  Sums(g, f, S)
<1>1. \A T \in SUBSET S : IsFiniteSet(T) /\ Cardinality(T) \in Nat
  BY FS_Subset, FS_CardinalityType
<1>2. g[{}] = 0 BY DEF IsSum
<1> DEFINE Bad == {n \in Nat : \E T \in SUBSET S : \E x \in T :
                     Cardinality(T) = n /\ g[T] # f[x] + g[T \ {x}]}
<1>3. Bad = {}
  <2> SUFFICES ASSUME Bad # {} PROVE FALSE
    OBVIOUS
  <2>1. PICK n \in Bad : \A j \in Bad : n <= j
    <3>1. Bad \subseteq Nat OBVIOUS
    <3> HIDE DEF Bad
    <3> QED BY <3>1, NatLeast
  <2>a. PICK T \in SUBSET S : \E x \in T : Cardinality(T) = n /\ g[T] # f[x] + g[T \ {x}]
    OBVIOUS
  <2>2. PICK x \in T : Cardinality(T) = n /\ g[T] # f[x] + g[T \ {x}] BY <2>a
  <2> n \in Nat OBVIOUS
  <2> HIDE DEF Bad
  <2> DEFINE c == CHOOSE y \in T : TRUE
             R == T \ {c}
  <2>3. c \in T OBVIOUS
  <2>4. g[T] = f[c] + g[R] BY <2>3 DEF IsSum
  <2> HIDE DEF c
  <2>5. c # x BY <2>2, <2>4
  <2>6. R \in SUBSET S /\ x \in R /\ T \ {x} \in SUBSET S /\ c \in T \ {x} BY <2>3, <2>5
  <2>7. Cardinality(R) = n - 1 /\ Cardinality(T \ {x}) = n - 1
    BY <1>1, <2>2, <2>3, FS_RemoveElement
  <2>8. n - 1 \in Nat /\ ~(n <= n - 1) BY <1>1, <2>6, <2>7
  <2>9. n - 1 \notin Bad BY <2>1, <2>8
  <2> DEFINE Q == T \ {x}
  <2>10. g[R] = f[x] + g[R \ {x}] BY <2>6, <2>7, <2>8, <2>9 DEF Bad
  <2>11. g[Q] = f[c] + g[Q \ {c}]
    <3>1. Q \in SUBSET S /\ c \in Q /\ Cardinality(Q) = n - 1 BY <2>6, <2>7
    <3> HIDE DEF Q
    <3> QED BY <2>8, <2>9, <3>1 DEF Bad
  <2>12. R \ {x} = Q \ {c} /\ R \ {x} \in SUBSET S BY <2>6
  <2>13. f[c] \in Nat /\ f[x] \in Nat /\ g[R \ {x}] \in Nat BY <2>3, <2>12
  <2> HIDE DEF R, Q
  <2>14. g[T] = f[c] + (f[x] + g[R \ {x}]) /\ g[Q] = f[c] + g[R \ {x}]
    BY <2>4, <2>10, <2>11, <2>12
  <2>15. g[T] = f[x] + g[Q] BY <2>13, <2>14
  <2> QED BY <2>2, <2>15 DEF Q
<1>4. ASSUME NEW T \in SUBSET S, NEW x \in T PROVE g[T] = f[x] + g[T \ {x}]
  BY <1>1, <1>3
<1> QED BY <1>2, <1>4 DEF Sums

\* One additive function gives the sums over all subsets.
LEMMA SumsOver ==
  ASSUME NEW S, IsFiniteSet(S), NEW f, \A x \in S : f[x] \in Nat
  PROVE  \E h : Sums(h, f, S) /\ \A T \in SUBSET S : SumFunctionOnSet(f, T) = h[T]
<1>1. PICK h \in [SUBSET S -> Nat] : IsSum(h, f, S) BY SumExists
<1>2. Sums(h, f, S) BY <1>1, SumIsAdditive
<1>3. ASSUME NEW T \in SUBSET S PROVE SumFunctionOnSet(f, T) = h[T]
  <2> DEFINE g == CHOOSE g : IsSum(g, f, T)
  <2>1. IsFiniteSet(T) /\ \A x \in T : f[x] \in Nat BY FS_Subset
  <2>2. \E k : IsSum(k, f, T) BY <2>1, SumExists
  <2>3. IsSum(g, f, T) BY <2>2
  <2>4. SumFunctionOnSet(f, T) = g[T] BY SumIsChosen
  <2> HIDE DEF g
  <2>5. \A R \in SUBSET T : IsFiniteSet(R) /\ Cardinality(R) \in Nat
    BY <2>1, FS_Subset, FS_CardinalityType
  <2> DEFINE Bad == {n \in Nat : \E R \in SUBSET T : Cardinality(R) = n /\ g[R] # h[R]}
  <2>6. Bad = {}
    <3> SUFFICES ASSUME Bad # {} PROVE FALSE
      OBVIOUS
    <3>1. PICK n \in Bad : \A j \in Bad : n <= j
      <4>1. Bad \subseteq Nat OBVIOUS
      <4> HIDE DEF Bad
      <4> QED BY <4>1, NatLeast
    <3>2. PICK R \in SUBSET T : Cardinality(R) = n /\ g[R] # h[R] OBVIOUS
    <3> n \in Nat OBVIOUS
    <3> HIDE DEF Bad
    <3>3. R # {} /\ R \in SUBSET S BY <1>1, <2>3, <3>2 DEF IsSum
    <3> DEFINE c == CHOOSE y \in R : TRUE
               Q == R \ {c}
    <3>4. c \in R BY <3>3
    <3>5. g[R] = f[c] + g[Q] /\ h[R] = f[c] + h[Q] BY <1>1, <2>3, <3>3 DEF IsSum
    <3> HIDE DEF c
    <3>6. Q \in SUBSET T /\ Cardinality(Q) = n - 1 BY <2>5, <3>2, <3>4, FS_RemoveElement
    <3>7. n - 1 \in Nat /\ ~(n <= n - 1) BY <2>5, <3>6
    <3> HIDE DEF Q
    <3>8. g[Q] = h[Q] BY <3>1, <3>6, <3>7 DEF Bad
    <3> QED BY <3>2, <3>5, <3>8
  <2> QED BY <2>4, <2>5, <2>6
<1> QED BY <1>2, <1>3

\* More summands, no smaller a sum.
LEMMA SumGrows ==
  ASSUME NEW U, IsFiniteSet(U), NEW f, \A x \in U : f[x] \in Nat, NEW T \in SUBSET U
  PROVE  /\ SumFunctionOnSet(f, T) \in Nat /\ SumFunctionOnSet(f, U) \in Nat
         /\ SumFunctionOnSet(f, T) <= SumFunctionOnSet(f, U)
<1>1. PICK h : Sums(h, f, U) /\ \A R \in SUBSET U : SumFunctionOnSet(f, R) = h[R]
  BY SumsOver
<1>2. \A R \in SUBSET U : IsFiniteSet(R) /\ Cardinality(R) \in Nat
  BY FS_Subset, FS_CardinalityType
<1>3. \A R \in SUBSET U : h[R] \in Nat BY <1>1 DEF Sums
<1> DEFINE Bad == {n \in Nat : \E R \in SUBSET U : T \subseteq R /\ Cardinality(R) = n /\ h[R] < h[T]}
<1>4. Bad = {}
  <2> SUFFICES ASSUME Bad # {} PROVE FALSE
    OBVIOUS
  <2>1. PICK n \in Bad : \A j \in Bad : n <= j
    <3>1. Bad \subseteq Nat OBVIOUS
    <3> HIDE DEF Bad
    <3> QED BY <3>1, NatLeast
  <2>2. PICK R \in SUBSET U : T \subseteq R /\ Cardinality(R) = n /\ h[R] < h[T] OBVIOUS
  <2> n \in Nat OBVIOUS
  <2> HIDE DEF Bad
  <2>3. T # R BY <1>3, <2>2
  <2>4. PICK x \in R : x \notin T BY <2>2, <2>3
  <2> DEFINE Q == R \ {x}
  <2>5. Q \in SUBSET U /\ T \subseteq Q /\ Cardinality(Q) = n - 1
    BY <1>2, <2>2, <2>4, FS_RemoveElement
  <2>6. n - 1 \in Nat /\ ~(n <= n - 1) BY <1>2, <2>5
  <2>7. h[R] = f[x] + h[Q] BY <1>1 DEF Sums
  <2> HIDE DEF Q
  <2>8. h[R] \in Nat /\ h[Q] \in Nat /\ f[x] \in Nat /\ h[T] \in Nat BY <1>3, <2>5
  <2>9. h[Q] < h[T] BY <2>2, <2>7, <2>8
  <2> QED BY <2>1, <2>5, <2>6, <2>9 DEF Bad
<1>5. U \in SUBSET U OBVIOUS
<1>6. h[U] \in Nat /\ h[T] \in Nat /\ ~(h[U] < h[T]) BY <1>2, <1>3, <1>4, <1>5
<1> QED BY <1>1, <1>5, <1>6

-----------------------------------------------------------------------------
(* Numbers in order                                                        *)

Under(S, n) == {k \in S : k < n}

\* The number of elements below one grows with it.
LEMMA RankGrows ==
  ASSUME NEW S, S \subseteq Nat, IsFiniteSet(S), NEW a \in S
  PROVE  /\ Cardinality(Under(S, a)) \in Nat /\ Cardinality(Under(S, a)) < Cardinality(S)
         /\ \A b \in S : a < b => Cardinality(Under(S, a)) < Cardinality(Under(S, b))
<1>1. \A T \in SUBSET S : IsFiniteSet(T) /\ Cardinality(T) \in Nat
  BY FS_Subset, FS_CardinalityType
<1>2. \A n : Under(S, n) \in SUBSET S BY DEF Under
<1>3. ASSUME NEW T \in SUBSET S, Under(S, a) \subseteq T, a \in T
      PROVE  Cardinality(Under(S, a)) < Cardinality(T)
  <2>1. a \notin Under(S, a) BY DEF Under
  <2>2. Cardinality(Under(S, a)) <= Cardinality(T) /\ Cardinality(Under(S, a)) # Cardinality(T)
    BY <1>1, <1>3, <2>1, FS_Subset
  <2> QED BY <1>1, <1>2, <2>2
<1>4. Cardinality(Under(S, a)) < Cardinality(S) BY <1>2, <1>3
<1>5. ASSUME NEW b \in S, a < b PROVE Cardinality(Under(S, a)) < Cardinality(Under(S, b))
  <2>1. a \in Under(S, b) BY <1>5 DEF Under
  <2>2. Under(S, a) \subseteq Under(S, b)
    <3>1. ASSUME NEW k \in S, k < a PROVE k < b
      <4>1. k \in Nat /\ a \in Nat /\ b \in Nat OBVIOUS
      <4> QED BY <1>5, <3>1, <4>1
    <3> QED BY <3>1 DEF Under
  <2> QED BY <1>2, <1>3, <2>1, <2>2
<1> QED BY <1>1, <1>2, <1>4, <1>5

\* A finite set of numbers has a largest one.
LEMMA MostOf ==
  ASSUME NEW S, S \subseteq Nat, S # {}, IsFiniteSet(S)
  PROVE  \E p \in S : \A b \in S : b <= p
<1> DEFINE K == {Cardinality(Under(S, a)) : a \in S}
           L == {Cardinality(S) - k : k \in K}
<1>1. \A k \in K : k \in Nat /\ Cardinality(S) - k \in Nat
  <2> SUFFICES ASSUME NEW a \in S
               PROVE  /\ Cardinality(Under(S, a)) \in Nat
                      /\ Cardinality(S) - Cardinality(Under(S, a)) \in Nat
    OBVIOUS
  <2>1. Cardinality(S) \in Nat BY FS_CardinalityType
  <2>2. Cardinality(Under(S, a)) \in Nat /\ Cardinality(Under(S, a)) < Cardinality(S)
    BY RankGrows
  <2> QED BY <2>1, <2>2
<1>2. L \subseteq Nat /\ L # {} BY <1>1
<1>3. PICK l \in L : \A j \in L : l <= j
  <2> HIDE DEF L
  <2> QED BY <1>2, NatLeast
<1>4. PICK a \in S : l = Cardinality(S) - Cardinality(Under(S, a)) OBVIOUS
<1>5. ASSUME NEW b \in S, a < b PROVE FALSE
  <2>1. Cardinality(Under(S, a)) < Cardinality(Under(S, b)) BY <1>5, RankGrows
  <2>2. Cardinality(Under(S, a)) \in Nat /\ Cardinality(Under(S, b)) \in Nat BY RankGrows
  <2>3. Cardinality(S) \in Nat BY FS_CardinalityType
  <2>4. l <= Cardinality(S) - Cardinality(Under(S, b)) BY <1>3
  <2> QED BY <1>4, <2>1, <2>2, <2>3, <2>4
<1>6. \A b \in S : a \in Nat /\ b \in Nat /\ ~(a < b) BY <1>5
<1> QED BY <1>6

\* Every rank is taken: by induction on the number of members.
LEMMA RanksTaken ==
  ASSUME NEW S, S \subseteq Nat, IsFiniteSet(S)
  PROVE  \A i \in 1 .. Cardinality(S) : \E a \in S : Cardinality(Under(S, a)) = i - 1
<1> DEFINE Taken(T) == \A i \in 1 .. Cardinality(T) : \E a \in T : Cardinality(Under(T, a)) = i - 1
           Bad == {n \in Nat : \E T \in SUBSET S : Cardinality(T) = n /\ ~Taken(T)}
<1>1. \A T \in SUBSET S : IsFiniteSet(T) /\ Cardinality(T) \in Nat /\ T \subseteq Nat
  BY FS_Subset, FS_CardinalityType
<1>2. Bad = {}
  <2> SUFFICES ASSUME Bad # {} PROVE FALSE
    OBVIOUS
  <2>1. PICK n \in Bad : \A k \in Bad : n <= k
    <3>1. Bad \subseteq Nat OBVIOUS
    <3> HIDE DEF Bad
    <3> QED BY <3>1, NatLeast
  <2>2. PICK T \in SUBSET S : Cardinality(T) = n /\ ~Taken(T) BY <2>1
  <2>3. IsFiniteSet(T) /\ n \in Nat /\ T \subseteq Nat BY <1>1, <2>2
  <2>4. T # {}
    <3>1. Cardinality({}) = 0 /\ 1 .. 0 = {} BY FS_EmptySet
    <3> QED BY <2>2, <3>1
  <2>5. PICK p \in T : \A b \in T : b <= p BY <2>3, <2>4, MostOf
  <2> DEFINE U == T \ {p}
  <2>6. U \in SUBSET S /\ Cardinality(U) = n - 1 /\ n - 1 \in Nat /\ ~(n <= n - 1)
    <3>1. U \in SUBSET S OBVIOUS
    <3>2. Cardinality(U) = n - 1 BY <2>2, <2>3, <2>5, FS_RemoveElement
    <3> QED BY <1>1, <2>3, <3>1, <3>2
  <2>7. Taken(U) BY <2>1, <2>6
  <2>8. Under(T, p) = U
    <3>1. ASSUME NEW b PROVE b \in Under(T, p) <=> b \in U
      <4>1. b \in T => (b < p <=> b # p) BY <2>3, <2>5
      <4> QED BY <4>1 DEF Under
    <3> QED BY <3>1
  <2>9. ASSUME NEW a \in U PROVE Under(T, a) = Under(U, a)
    <3>1. ~(p < a) BY <2>3, <2>5
    <3> QED BY <3>1 DEF Under
  <2>10. ASSUME NEW i \in 1 .. n PROVE \E a \in T : Cardinality(Under(T, a)) = i - 1
    <3>1. CASE i = n BY <2>5, <2>6, <2>8, <3>1
    <3>2. CASE i # n
      <4>1. i \in 1 .. n - 1 BY <2>3, <3>2
      <4>2. PICK a \in U : Cardinality(Under(U, a)) = i - 1 BY <2>6, <2>7, <4>1
      <4> QED BY <2>9, <4>2
    <3> QED BY <3>1, <3>2
  <2> QED BY <2>2, <2>10
<1> QED BY <1>1, <1>2

\* InOrder lists every member once, from the least up.
LEMMA InOrderLists ==
  ASSUME NEW S, S \subseteq Nat, IsFiniteSet(S)
  PROVE  LET O == InOrder(S) IN
         /\ O \in [1 .. Cardinality(S) -> S] /\ Cardinality(S) \in Nat
         /\ \A i, j \in DOMAIN O : i < j => O[i] < O[j]
         /\ \A a \in S : \E i \in DOMAIN O : O[i] = a
<1> DEFINE O == InOrder(S)
           n == Cardinality(S)
<1>1. n \in Nat BY FS_CardinalityType
<1>2. DOMAIN O = 1 .. n BY DEF InOrder
<1>3. ASSUME NEW i \in 1 .. n PROVE O[i] \in S /\ Cardinality(Under(S, O[i])) = i - 1
  <2>1. O[i] = CHOOSE a \in S : Cardinality(Under(S, a)) = i - 1 BY DEF InOrder, Under
  <2>2. \E a \in S : Cardinality(Under(S, a)) = i - 1 BY RanksTaken
  <2> HIDE DEF O
  <2> QED BY <2>1, <2>2
<1>4. O = [i \in 1 .. n |-> O[i]]
  <2> DEFINE c(i) == CHOOSE a \in S : Cardinality({k \in S : k < a}) = i - 1
  <2>1. O = [i \in 1 .. n |-> c(i)] BY DEF InOrder
  <2> HIDE DEF c, O, n
  <2> QED BY <2>1
<1> HIDE DEF O
<1>5. O \in [1 .. n -> S] BY <1>3, <1>4
<1>6. ASSUME NEW i \in 1 .. n, NEW j \in 1 .. n, i < j PROVE O[i] < O[j]
  <2>1. O[i] \in Nat /\ O[j] \in Nat BY <1>3
  <2>2. O[j] # O[i] BY <1>3, <1>6
  <2>3. O[j] < O[i] => j - 1 < i - 1 BY <1>3, RankGrows
  <2> QED BY <1>6, <2>1, <2>2, <2>3
<1>7. ASSUME NEW a \in S PROVE \E i \in 1 .. n : O[i] = a
  <2> DEFINE i == Cardinality(Under(S, a)) + 1
  <2>1. i \in 1 .. n /\ i - 1 = Cardinality(Under(S, a))
    <3>1. Cardinality(Under(S, a)) \in Nat /\ Cardinality(Under(S, a)) < n BY RankGrows
    <3> QED BY <1>1, <3>1
  <2>2. O[i] \in S /\ Cardinality(Under(S, O[i])) = i - 1 BY <1>3, <2>1
  <2> HIDE DEF i
  <2>3. ~(O[i] < a) /\ ~(a < O[i])
    <3>1. Cardinality(Under(S, O[i])) \in Nat BY <2>2, RankGrows
    <3>2. O[i] < a => Cardinality(Under(S, O[i])) < Cardinality(Under(S, a))
      BY <2>2, RankGrows
    <3>3. a < O[i] => Cardinality(Under(S, a)) < Cardinality(Under(S, O[i]))
      BY <2>2, RankGrows
    <3> QED BY <2>1, <2>2, <3>1, <3>2, <3>3
  <2>4. O[i] \in Nat /\ a \in Nat BY <2>2
  <2>5. O[i] = a BY <2>3, <2>4
  <2> QED BY <2>1, <2>5
<1> QED BY <1>1, <1>2, <1>5, <1>6, <1>7 DEF O

-----------------------------------------------------------------------------
(* Sequences                                                               *)

\* What Kept keeps, by the indices that pass its test.
At(s, I) == [n \in DOMAIN InOrder(I) |-> s[InOrder(I)[n]]]

\* Kept keeps the elements of a set of places, in their order.
LEMMA KeptFacts ==
  ASSUME NEW X, NEW s \in Seq(X), NEW I \in SUBSET DOMAIN s
  PROVE  /\ At(s, I) \in Seq({s[i] : i \in I})
         /\ \A m, n \in DOMAIN At(s, I) : m < n =>
              \E i, j \in I : i < j /\ At(s, I)[m] = s[i] /\ At(s, I)[n] = s[j]
         /\ \A i \in I : \E n \in DOMAIN At(s, I) : At(s, I)[n] = s[i]
<1> DEFINE O == InOrder(I)
<1>1. DOMAIN s = 1 .. Len(s) /\ Len(s) \in Nat BY LenProperties
<1>2. IsFiniteSet(DOMAIN s) BY <1>1, FS_Interval
<1>3. I \subseteq Nat /\ IsFiniteSet(I) BY <1>1, <1>2, FS_Subset
<1>4. /\ O \in [1 .. Cardinality(I) -> I] /\ Cardinality(I) \in Nat
      /\ \A i, j \in DOMAIN O : i < j => O[i] < O[j]
      /\ \A a \in I : \E i \in DOMAIN O : O[i] = a
  BY <1>3, InOrderLists
<1> HIDE DEF O
<1>5. At(s, I) = [n \in 1 .. Cardinality(I) |-> s[O[n]]] BY <1>4 DEF At, O
<1>6. At(s, I) \in [1 .. Cardinality(I) -> {s[i] : i \in I}] BY <1>4, <1>5
<1>7. At(s, I) \in Seq({s[i] : i \in I})
  <2> DEFINE Y == {s[i] : i \in I}
             n == Cardinality(I)
  <2>1. At(s, I) \in [1 .. n -> Y] /\ n \in Nat BY <1>4, <1>6
  <2> HIDE DEF Y, n
  <2>2. At(s, I) \in Seq(Y) BY <2>1, SeqDef
  <2> QED BY <2>2 DEF Y
<1>8. DOMAIN At(s, I) = DOMAIN O /\ \A n \in DOMAIN O : At(s, I)[n] = s[O[n]] /\ O[n] \in I
  BY <1>4, <1>5
<1> QED BY <1>4, <1>7, <1>8

\* A flattened sequence of sequences over X is one over X, of their elements.
LEMMA FlattenFacts ==
  ASSUME NEW X, NEW ss \in Seq(Seq(X))
  PROVE  /\ FlattenSeq(ss) \in Seq(X)
         /\ Range(FlattenSeq(ss)) = UNION {Range(ss[k]) : k \in DOMAIN ss}
<1> DEFINE V == Seq(X)
           L == Len(ss)
           Next1(n, v) == IF n = 1 THEN ss[n] ELSE v \o ss[n]
           G == [n \in Nat |-> [v \in V |-> IF n \in 1 .. L THEN Next1(n, v) ELSE v]]
           Flat(f) == f = [i \in 1 .. L |-> IF i = 1 THEN ss[i] ELSE f[i - 1] \o ss[i]]
<1>1. L \in Nat /\ \A n \in 1 .. L : ss[n] \in V BY ElementOfSeq, LenProperties
<1>2. CASE L = 0
  <2>1. FlattenSeq(ss) = ss /\ ss = <<>> BY <1>2, EmptySeq DEF FlattenSeq
  <2>2. DOMAIN ss = {} BY <2>1
  <2>3. Range(ss) = {} BY <2>2 DEF Range
  <2> QED BY <2>1, <2>2, <2>3
<1>3. CASE L # 0
  <2>1. <<>> \in V OBVIOUS
  <2>2. \A v, w \in V : v \o w \in V BY ConcatProperties
  <2> HIDE DEF V, L
  <2>3. G \in [Nat -> [V -> V]] BY <1>1, <2>2
  <2> DEFINE e == <<>>
  <2>4. e \in V BY <2>1
  <2> HIDE DEF G, e
  <2>5. PICK h : Iterates(h, V, e, G) BY <2>3, <2>4, Iteration
  <2> DEFINE f == [i \in 1 .. L |-> h[i]]
  <2>6. ASSUME NEW i \in 1 .. L
        PROVE  h[i] = (IF i = 1 THEN ss[i] ELSE h[i - 1] \o ss[i]) /\ h[i] \in V
    <3> DEFINE k == i - 1
    <3>1. i \in Nat /\ k \in Nat /\ k + 1 = i BY <1>1
    <3> HIDE DEF k
    <3>2. h[k + 1] = G[k + 1][h[k]] /\ h[k] \in V /\ h[k + 1] \in V
      BY <2>5, <3>1 DEF Iterates
    <3>3. h[i] = Next1(i, h[k]) BY <3>1, <3>2 DEF G
    <3> QED BY <3>1, <3>2, <3>3 DEF k
  <2>7. Flat(f)
    <3>1. \A i \in 1 .. L : i # 1 => i - 1 \in 1 .. L BY <1>1
    <3> QED BY <2>6, <3>1
  <2> DEFINE g == CHOOSE g : Flat(g)
  <2>8. Flat(g) BY <2>7
  <2>9. FlattenSeq(ss) = g[L] BY <1>3 DEF FlattenSeq, L
  <2> HIDE DEF f, g
  <2> DEFINE Bad == {i \in 1 .. L : g[i] # h[i]}
  <2>10. Bad = {}
    <3> SUFFICES ASSUME Bad # {} PROVE FALSE
      OBVIOUS
    <3>1. PICK i \in Bad : \A j \in Bad : i <= j
      <4>1. Bad \subseteq Nat BY <1>1
      <4> HIDE DEF Bad
      <4> QED BY <4>1, NatLeast
    <3>2. i # 1 BY <2>6, <2>8
    <3>3. i - 1 \in 1 .. L /\ ~(i <= i - 1) BY <1>1, <3>2
    <3>4. g[i] = g[i - 1] \o ss[i] /\ h[i] = h[i - 1] \o ss[i] BY <2>6, <2>8, <3>2
    <3>5. g[i - 1] = h[i - 1] BY <3>1, <3>3
    <3> QED BY <3>4, <3>5
  <2>11. L \in 1 .. L BY <1>1, <1>3
  <2> DEFINE R(k) == UNION {Range(ss[j]) : j \in 1 .. k}
             Odd == {k \in 1 .. L : Range(h[k]) # R(k)}
  <2>12. Odd = {}
    <3> SUFFICES ASSUME Odd # {} PROVE FALSE
      OBVIOUS
    <3>1. PICK k \in Odd : \A j \in Odd : k <= j
      <4>1. Odd \subseteq Nat BY <1>1
      <4> HIDE DEF Odd
      <4> QED BY <4>1, NatLeast
    <3>2. k \in 1 .. L /\ Range(h[k]) # R(k) OBVIOUS
    <3>3. k # 1
      <4>0. 1 \in 1 .. L BY <1>1, <2>11
      <4>1. h[1] = ss[1] BY <2>6, <4>0
      <4>2. R(1) = Range(ss[1])
        <5>1. 1 .. 1 = {1} OBVIOUS
        <5> QED BY <5>1
      <4> HIDE DEF R
      <4> QED BY <3>2, <4>1, <4>2
    <3> DEFINE i == k - 1
    <3>4. i \in 1 .. L /\ ~(k <= i) /\ 1 .. k = (1 .. i) \cup {k}
      <4>1. k \in Nat /\ k \in 1 .. L /\ k # 1 BY <1>1, <3>2, <3>3
      <4> HIDE DEF R, Odd, L
      <4>2. i \in 1 .. L /\ ~(k <= i) BY <1>1, <4>1
      <4>3. 1 .. k = (1 .. i) \cup {k} BY <4>1
      <4> QED BY <4>2, <4>3
    <3>5. h[k] = h[i] \o ss[k] /\ h[i] \in Seq(X) /\ ss[k] \in Seq(X)
      BY <1>1, <2>6, <3>2, <3>3, <3>4 DEF V
    <3>6. Range(h[i]) = R(i) BY <3>1, <3>4
    <3>7. R(k) = R(i) \cup Range(ss[k]) BY <3>4
    <3> HIDE DEF R, i
    <3> QED BY <3>2, <3>5, <3>6, <3>7, RangeConcatenation
  <2>13. FlattenSeq(ss) = h[L] /\ h[L] \in Seq(X) BY <2>6, <2>9, <2>10, <2>11 DEF V
  <2>14. Range(h[L]) = R(L) BY <2>11, <2>12
  <2>15. DOMAIN ss = 1 .. L BY LenProperties DEF L
  <2> QED BY <2>13, <2>14, <2>15
<1> QED BY <1>2, <1>3

-----------------------------------------------------------------------------
(* Index entries and their timestamps                                      *)

\* Entries of an index before WithPts, as far as their pts depend on them.
Sizes(s, n) == DOMAIN s = 1 .. n /\ \A i \in 1 .. n : s[i].trk \in Streams => s[i].len \in Nat

\* A chunk takes a number of ticks.
LEMMA TimeDeltaType ==
  ASSUME NEW t \in Streams, NEW n \in Nat
  PROVE  TimeDelta(t, n) \in Nat
<1>1. Divisor[t] \in Nat BY ReaderAssumption DEF Streams
<1>2. ASSUME NEW k \in Nat, k # 0 PROVE n \div k \in Nat BY <1>2, SMT
<1> QED BY <1>1, <1>2 DEF TimeDelta

\* The entries of a stream get timestamps that never decrease.
LEMMA WithPtsFacts ==
  ASSUME NEW n \in Nat, NEW s, Sizes(s, n)
  PROVE  LET w == WithPts(s) IN
         /\ w = [i \in 1 .. n |->
                   [trk |-> s[i].trk, key |-> s[i].key, off |-> s[i].off,
                    len |-> s[i].len, id |-> s[i].id, pts |-> w[i].pts]]
         /\ \A i \in 1 .. n : s[i].trk \in Streams => w[i].pts \in Nat
         /\ \A i, j \in 1 .. n : i < j /\ s[i].trk \in Streams /\ s[i].trk = s[j].trk =>
              w[i].pts <= w[j].pts
<1> DEFINE ticks == [j \in DOMAIN s |-> TimeDelta(s[j].trk, s[j].len)]
           before(i) == {j \in 1 .. i - 1 : s[j].trk = s[i].trk}
           w == WithPts(s)
<1>1. w = [i \in 1 .. n |->
             [trk |-> s[i].trk, key |-> s[i].key, off |-> s[i].off, len |-> s[i].len,
              id |-> s[i].id, pts |-> SumFunctionOnSet(ticks, before(i))]]
  BY DEF WithPts, Sizes
<1>2. ASSUME NEW i \in 1 .. n, s[i].trk \in Streams
      PROVE  /\ IsFiniteSet(before(i))
             /\ \A j \in before(i) : ticks[j] \in Nat
  <2>1. IsFiniteSet(1 .. i - 1) BY FS_Interval
  <2>2. IsFiniteSet(before(i)) BY <2>1, FS_Subset
  <2>3. ASSUME NEW j \in before(i) PROVE ticks[j] \in Nat
    <3>1. j \in 1 .. n /\ s[j].trk \in Streams BY <1>2
    <3>2. s[j].len \in Nat BY <3>1 DEF Sizes
    <3>3. ticks[j] = TimeDelta(s[j].trk, s[j].len) BY <3>1 DEF Sizes
    <3> QED BY <3>1, <3>2, <3>3, TimeDeltaType
  <2> QED BY <2>2, <2>3
<1> DEFINE sum(i) == SumFunctionOnSet(ticks, before(i))
<1>3. \A i \in 1 .. n : w[i].pts = sum(i) BY <1>1
<1>4. ASSUME NEW i \in 1 .. n, NEW j \in 1 .. n, i <= j, s[i].trk \in Streams,
             s[i].trk = s[j].trk
      PROVE  sum(i) \in Nat /\ sum(j) \in Nat /\ sum(i) <= sum(j)
  <2>1. before(i) \in SUBSET before(j) BY <1>4
  <2>2. IsFiniteSet(before(j)) /\ \A k \in before(j) : ticks[k] \in Nat BY <1>2, <1>4
  <2> DEFINE T == before(i)
             U == before(j)
  <2> HIDE DEF before, ticks
  <2> QED BY <2>1, <2>2, SumGrows
<1> HIDE DEF sum
<1>5. \A i \in 1 .. n : s[i].trk \in Streams => w[i].pts \in Nat BY <1>3, <1>4
<1>6. \A i, j \in 1 .. n : i < j /\ s[i].trk \in Streams /\ s[i].trk = s[j].trk =>
         w[i].pts <= w[j].pts
  BY <1>3, <1>4
<1>7. w = [i \in 1 .. n |->
             [trk |-> s[i].trk, key |-> s[i].key, off |-> s[i].off, len |-> s[i].len,
              id |-> s[i].id, pts |-> w[i].pts]]
  BY <1>1
<1> HIDE DEF w
<1> QED BY <1>5, <1>6, <1>7 DEF w

\* A function on the first n numbers is a sequence.
LEMMA FunctionIsSeq ==
  ASSUME NEW X, NEW n \in Nat, NEW f \in [1 .. n -> X]
  PROVE  f \in Seq(X) /\ Len(f) = n
<1>1. f \in Seq(X) BY SeqDef
<1>2. Len(f) \in Nat /\ DOMAIN f = 1 .. Len(f) BY <1>1, LenProperties
<1>3. 1 .. Len(f) = 1 .. n BY <1>2
<1> QED BY <1>1, <1>2, <1>3

\* Entries before and after WithPts.
Ids == STRING \cup {"data"}      \* the provers know no member of STRING
RawEntries == [id : Ids, trk : Int, key : BOOLEAN, off : Int, len : Nat]
Entries == [trk : Streams, key : BOOLEAN, off : Int, len : Nat, id : Ids, pts : Nat]

\* The timestamps of each stream never decrease.
Rising(s) ==
  \A i, j \in DOMAIN s : i < j /\ s[i].trk = s[j].trk => s[i].pts <= s[j].pts

\* The entries of WithPts(s) that belong to a stream.
Owned(s) == {i \in DOMAIN WithPts(s) : WithPts(s)[i].trk \in Streams}

\* WithPts gives every entry a timestamp.
LEMMA StampedEntries ==
  ASSUME NEW s \in Seq(RawEntries)
  PROVE  LET w == WithPts(s) IN
         /\ DOMAIN w = 1 .. Len(s) /\ Len(s) \in Nat
         /\ \A i \in DOMAIN w : /\ w[i].trk = s[i].trk /\ w[i].key = s[i].key
                                /\ w[i].off = s[i].off /\ w[i].len = s[i].len
         /\ \A i \in Owned(s) : w[i] \in Entries
         /\ \A i, j \in Owned(s) : i < j /\ w[i].trk = w[j].trk => w[i].pts <= w[j].pts
<1> DEFINE w == WithPts(s)
           n == Len(s)
<1>1. n \in Nat /\ DOMAIN s = 1 .. n /\ \A i \in 1 .. n : s[i] \in RawEntries
  BY LenProperties, ElementOfSeq
<1>2. Sizes(s, n) BY <1>1 DEF Sizes, RawEntries
<1> HIDE DEF n
<1>3. /\ w = [i \in 1 .. n |->
                [trk |-> s[i].trk, key |-> s[i].key, off |-> s[i].off,
                 len |-> s[i].len, id |-> s[i].id, pts |-> w[i].pts]]
      /\ \A i \in 1 .. n : s[i].trk \in Streams => w[i].pts \in Nat
      /\ \A i, j \in 1 .. n : i < j /\ s[i].trk \in Streams /\ s[i].trk = s[j].trk =>
           w[i].pts <= w[j].pts
  BY <1>1, <1>2, WithPtsFacts
<1>4. Owned(s) = {i \in DOMAIN w : w[i].trk \in Streams} BY DEF Owned
<1> HIDE DEF w
<1>5. DOMAIN w = 1 .. n BY <1>3
<1>6. ASSUME NEW i \in 1 .. n
      PROVE  w[i] = [trk |-> s[i].trk, key |-> s[i].key, off |-> s[i].off,
                     len |-> s[i].len, id |-> s[i].id, pts |-> w[i].pts]
  <2> DEFINE r(k) == [trk |-> s[k].trk, key |-> s[k].key, off |-> s[k].off,
                      len |-> s[k].len, id |-> s[k].id, pts |-> w[k].pts]
  <2>1. w = [k \in 1 .. n |-> r(k)] BY <1>3
  <2> HIDE DEF r
  <2>2. w[i] = r(i) BY <2>1
  <2> QED BY <2>2 DEF r
<1>7. ASSUME NEW i \in 1 .. n
      PROVE  /\ w[i].trk = s[i].trk /\ w[i].key = s[i].key
             /\ w[i].off = s[i].off /\ w[i].len = s[i].len
             /\ s[i] \in RawEntries /\ s[i].trk \in Streams /\ w[i].pts \in Nat => w[i] \in Entries
  <2> DEFINE p == w[i].pts
             v == w[i]
  <2>1. v = [trk |-> s[i].trk, key |-> s[i].key, off |-> s[i].off,
             len |-> s[i].len, id |-> s[i].id, pts |-> p]
    BY <1>6
  <2> HIDE DEF p, v
  <2>2. v.trk = s[i].trk /\ v.key = s[i].key /\ v.off = s[i].off /\ v.len = s[i].len
    BY <2>1
  <2>3. s[i] \in RawEntries /\ s[i].trk \in Streams /\ p \in Nat => v \in Entries
    BY <2>1 DEF Entries, RawEntries
  <2> QED BY <2>2, <2>3 DEF p, v
<1>8. ASSUME NEW i \in Owned(s) PROVE w[i] \in Entries
  <2>1. i \in 1 .. n /\ s[i].trk \in Streams BY <1>4, <1>5, <1>7
  <2>2. w[i].pts \in Nat BY <1>3, <2>1
  <2>3. s[i] \in RawEntries BY <1>1, <2>1
  <2> QED BY <1>7, <2>1, <2>2, <2>3
<1>9. \A i, j \in Owned(s) : i < j /\ w[i].trk = w[j].trk => w[i].pts <= w[j].pts
  BY <1>3, <1>4, <1>5, <1>7
<1> QED BY <1>1, <1>5, <1>7, <1>8, <1>9 DEF w, n

\* A table in index order of entries with timestamps.
Tables == {s \in Seq(Entries) : Rising(s)}

\* What is kept of a table's entries is again a table.
LEMMA KeptOfTable ==
  ASSUME NEW s \in Seq(RawEntries), NEW I \in SUBSET Owned(s)
  PROVE  /\ At(WithPts(s), I) \in Tables
         /\ \A n \in DOMAIN At(WithPts(s), I) : \E i \in I :
              At(WithPts(s), I)[n] = WithPts(s)[i]
         /\ \A i \in I : \E n \in DOMAIN At(WithPts(s), I) :
              At(WithPts(s), I)[n] = WithPts(s)[i]
<1> DEFINE w == WithPts(s)
           a == At(w, I)
           n == Cardinality(I)
           O == InOrder(I)
<1>1. /\ DOMAIN w = 1 .. Len(s) /\ Len(s) \in Nat
      /\ \A i \in Owned(s) : w[i] \in Entries
      /\ \A i, j \in Owned(s) : i < j /\ w[i].trk = w[j].trk => w[i].pts <= w[j].pts
  BY StampedEntries
<1>2. I \subseteq DOMAIN w BY DEF Owned
<1>3. I \subseteq Nat BY <1>1, <1>2
<1>4. IsFiniteSet(I)
  <2>1. IsFiniteSet(1 .. Len(s)) BY <1>1, FS_Interval
  <2> QED BY <1>1, <1>2, <2>1, FS_Subset
<1>5. /\ O \in [1 .. n -> I] /\ n \in Nat
      /\ \A i, j \in DOMAIN O : i < j => O[i] < O[j]
      /\ \A i \in I : \E k \in DOMAIN O : O[k] = i
  BY <1>3, <1>4, InOrderLists
<1> HIDE DEF O, n, w
<1>6. a = [i \in 1 .. n |-> w[O[i]]] BY <1>5 DEF At, O
<1>7. a \in [1 .. n -> Entries] BY <1>1, <1>5, <1>6
<1>8. a \in Seq(Entries) BY <1>5, <1>7, FunctionIsSeq
<1>9. Rising(a)
  <2> SUFFICES ASSUME NEW i \in 1 .. n, NEW j \in 1 .. n, i < j, a[i].trk = a[j].trk
               PROVE  a[i].pts <= a[j].pts
    BY <1>6 DEF Rising
  <2>1. O[i] \in Owned(s) /\ O[j] \in Owned(s) /\ O[i] < O[j] BY <1>5
  <2>2. a[i] = w[O[i]] /\ a[j] = w[O[j]] BY <1>6
  <2> QED BY <1>1, <2>1, <2>2
<1>10. /\ \A k \in DOMAIN a : \E i \in I : a[k] = w[i]
       /\ \A i \in I : \E k \in DOMAIN a : a[k] = w[i]
  <2>1. DOMAIN a = 1 .. n /\ \A k \in 1 .. n : a[k] = w[O[k]] /\ O[k] \in I BY <1>5, <1>6
  <2>2. \A i \in I : \E k \in 1 .. n : O[k] = i BY <1>5
  <2> HIDE DEF a
  <2> QED BY <2>1, <2>2
<1> QED BY <1>8, <1>9, <1>10 DEF Tables, w

\* The entries of a table that pass a test form a table.
LEMMA PartOfTable ==
  ASSUME NEW s \in Tables, NEW I \in SUBSET DOMAIN s
  PROVE  /\ At(s, I) \in Tables
         /\ \A n \in DOMAIN At(s, I) : \E i \in I : At(s, I)[n] = s[i]
         /\ At(s, I) = <<>> <=> I = {}
<1> DEFINE a == At(s, I)
           n == Cardinality(I)
           O == InOrder(I)
<1>1. /\ s \in Seq(Entries) /\ Rising(s) /\ DOMAIN s = 1 .. Len(s) /\ Len(s) \in Nat
      /\ \A i \in DOMAIN s : s[i] \in Entries
  BY LenProperties, ElementOfSeq DEF Tables
<1>2. I \subseteq Nat /\ IsFiniteSet(I)
  <2>1. IsFiniteSet(1 .. Len(s)) BY <1>1, FS_Interval
  <2> QED BY <1>1, <2>1, FS_Subset
<1>3. /\ O \in [1 .. n -> I] /\ n \in Nat
      /\ \A i, j \in DOMAIN O : i < j => O[i] < O[j]
      /\ \A i \in I : \E k \in DOMAIN O : O[k] = i
  BY <1>2, InOrderLists
<1>4. n = 0 <=> I = {} BY <1>2, FS_EmptySet
<1> HIDE DEF O, n
<1>5. a = [i \in 1 .. n |-> s[O[i]]] BY <1>3 DEF At, O
<1>6. a \in [1 .. n -> Entries] BY <1>1, <1>3, <1>5
<1>7. a \in Seq(Entries) /\ Len(a) = n BY <1>3, <1>6, FunctionIsSeq
<1>8. Rising(a)
  <2> SUFFICES ASSUME NEW i \in 1 .. n, NEW j \in 1 .. n, i < j, a[i].trk = a[j].trk
               PROVE  a[i].pts <= a[j].pts
    BY <1>5 DEF Rising
  <2>1. O[i] \in DOMAIN s /\ O[j] \in DOMAIN s /\ O[i] < O[j] BY <1>3
  <2>2. a[i] = s[O[i]] /\ a[j] = s[O[j]] BY <1>5
  <2> QED BY <1>1, <2>1, <2>2 DEF Rising
<1>9. \A k \in DOMAIN a : \E i \in I : a[k] = s[i] BY <1>3, <1>5
<1>10. a = <<>> <=> n = 0 BY <1>7, EmptySeq
<1> QED BY <1>4, <1>7, <1>8, <1>9, <1>10 DEF Tables

-----------------------------------------------------------------------------
(* The lists and segments of a file                                        *)

\* The least of two numbers is one of them and at most each.
LEMMA LeastOfTwo ==
  ASSUME NEW a \in Int, NEW b \in Int
  PROVE  Least({a, b}) \in {a, b} /\ Least({a, b}) <= a /\ Least({a, b}) <= b
<1> DEFINE n == Least({a, b})
<1>1. \E m \in {a, b} : \A k \in {a, b} : m <= k
  <2>1. CASE a <= b BY <2>1
  <2>2. CASE b <= a BY <2>2
  <2> QED BY <2>1, <2>2
<1>2. n \in {a, b} /\ \A k \in {a, b} : n <= k BY <1>1 DEF Least
<1> HIDE DEF n
<1> QED BY <1>2 DEF n

\* The same of three.
LEMMA LeastOfThree ==
  ASSUME NEW a \in Int, NEW b \in Int, NEW c \in Int
  PROVE  /\ Least({a, b, c}) \in {a, b, c}
         /\ Least({a, b, c}) <= a /\ Least({a, b, c}) <= b /\ Least({a, b, c}) <= c
<1> DEFINE n == Least({a, b, c})
<1>1. \E m \in {a, b, c} : \A k \in {a, b, c} : m <= k
  <2>1. CASE a <= b /\ a <= c BY <2>1
  <2>2. CASE b <= a /\ b <= c BY <2>2
  <2>3. CASE c <= a /\ c <= b BY <2>3
  <2> QED BY <2>1, <2>2, <2>3
<1>2. n \in {a, b, c} /\ \A k \in {a, b, c} : n <= k BY <1>1 DEF Least
<1> HIDE DEF n
<1> QED BY <1>2 DEF n

\* What is known of a chunk header.
LEMMA CellFacts ==
  ASSUME NEW F, WellFormed(F), NEW at \in DOMAIN F.disk
  PROVE  /\ at \in Nat /\ at + 8 <= F.len /\ F.len \in Nat
         /\ F.disk[at].len \in Nat /\ F.disk[at].trk \in Int
         /\ F.disk[at].len % 2 \in 0 .. 1
         /\ Even(F.disk[at].len) \in Nat /\ F.disk[at].len <= Even(F.disk[at].len)
         /\ ListEnd(F, at) \in Nat /\ at + 12 <= ListEnd(F, at)
<1>1. /\ at \in Nat /\ at + 8 <= F.len /\ F.len \in Nat
      /\ F.disk[at].len \in Nat /\ F.disk[at].trk \in Int
  BY DEF WellFormed
<1> DEFINE n == F.disk[at].len
<1>2. n % 2 \in 0 .. 1 BY <1>1
<1> HIDE DEF n
<1> QED BY <1>1, <1>2 DEF Even, ListEnd, n

\* The next sibling of a chunk lies behind it.
LEMMA NextSiblingFacts ==
  ASSUME NEW F, WellFormed(F), NEW at \in DOMAIN F.disk, NEW end \in Int, at < end
  PROVE  /\ NextSibling(F, at, end) \in Nat /\ at < NextSibling(F, at, end)
         /\ F.disk[at].id \in ListIds =>
              Least({ListEnd(F, at), end, F.len}) <= NextSibling(F, at, end)
<1>1. /\ at \in Nat /\ at + 8 <= F.len /\ F.len \in Nat
      /\ F.disk[at].len % 2 \in 0 .. 1 /\ Even(F.disk[at].len) \in Nat
      /\ ListEnd(F, at) \in Nat /\ at + 12 <= ListEnd(F, at)
  BY CellFacts
<1> DEFINE m == Least({ListEnd(F, at), end, F.len})
<1>2. m \in {ListEnd(F, at), end, F.len}
  <2> DEFINE a == ListEnd(F, at)
             c == F.len
  <2>1. a \in Int /\ c \in Int BY <1>1
  <2> HIDE DEF a, c
  <2>2. Least({a, end, c}) \in {a, end, c} BY <2>1, LeastOfThree
  <2> QED BY <2>2 DEF a, c
<1> HIDE DEF m
<1>3. m \in Int /\ at < m BY <1>1, <1>2
<1>4. NextSibling(F, at, end) = IF F.disk[at].id \in ListIds
                                THEN m + (F.disk[at].len % 2) ELSE at + 8 + Even(F.disk[at].len)
  BY DEF NextSibling, m
<1> QED BY <1>1, <1>3, <1>4 DEF m

\* walk_riff_body visits headers of the file from the start of the body to its
\* end, each behind the whole of the one before it.
LEMMA ChildrenFacts ==
  ASSUME NEW F, WellFormed(F), NEW from \in Nat, NEW end \in Int
  PROVE  /\ Children(F, from, end) \subseteq DOMAIN F.disk
         /\ \A at \in Children(F, from, end) : from <= at /\ at < end
         /\ \A a, b \in Children(F, from, end) : a < b => NextSibling(F, a, end) <= b
<1> DEFINE D == {at \in DOMAIN F.disk : at < end}
           next == [at \in D |-> NextSibling(F, at, end)]
           Visit(v) == v = [at \in Nat |->
                              IF at < end /\ at \in DOMAIN F.disk
                              THEN {at} \cup v[NextSibling(F, at, end)] ELSE {}]
<1>1. Forward(D, D, next, F.len) /\ F.len \in Nat
  <2>1. ASSUME NEW at \in D
        PROVE  at \in Nat /\ at < F.len /\ F.len \in Nat /\ next[at] \in Nat /\ next[at] > at
    <3>1. at \in DOMAIN F.disk /\ at < end OBVIOUS
    <3>2. at \in Nat /\ at + 8 <= F.len /\ F.len \in Nat BY <3>1, CellFacts
    <3>3. NextSibling(F, at, end) \in Nat /\ at < NextSibling(F, at, end)
      BY <3>1, NextSiblingFacts
    <3>4. next[at] = NextSibling(F, at, end) OBVIOUS
    <3> HIDE DEF next, D
    <3> QED BY <3>2, <3>3, <3>4
  <2>2. D \subseteq Nat BY <2>1
  <2>3. F.len \in Nat BY DEF WellFormed
  <2>4. next \in [D -> Nat] BY <2>1
  <2> HIDE DEF D, next
  <2> QED BY <2>1, <2>2, <2>3, <2>4 DEF Forward
<1>2. ASSUME NEW v, v \in [Nat -> SUBSET D], Walks(v, D, D, next) PROVE Visit(v)
  <2>1. ASSUME NEW at \in Nat
        PROVE  v[at] = IF at < end /\ at \in DOMAIN F.disk
                       THEN {at} \cup v[NextSibling(F, at, end)] ELSE {}
    <3>1. v[at] = IF at \in D THEN (D \cap {at}) \cup v[next[at]] ELSE {}
      BY <1>2 DEF Walks
    <3>2. at \in D <=> at < end /\ at \in DOMAIN F.disk OBVIOUS
    <3>3. CASE at \in D
      <4>1. D \cap {at} = {at} /\ next[at] = NextSibling(F, at, end) BY <3>3
      <4> HIDE DEF D, next
      <4> QED BY <3>1, <3>2, <3>3, <4>1
    <3>4. CASE at \notin D
      <4> HIDE DEF D, next
      <4> QED BY <3>1, <3>2, <3>4
    <3> QED BY <3>3, <3>4
  <2> HIDE DEF D, next
  <2>2. v = [at \in Nat |-> v[at]] BY <1>2
  <2> QED BY <2>1, <2>2
<1>3. ASSUME NEW v, Visit(v) PROVE Walks(v, D, D, next)
  <2> SUFFICES ASSUME NEW at \in Nat
               PROVE  v[at] = IF at \in D THEN (D \cap {at}) \cup v[next[at]] ELSE {}
    BY DEF Walks
  <2>1. v[at] = IF at < end /\ at \in DOMAIN F.disk
                THEN {at} \cup v[NextSibling(F, at, end)] ELSE {}
    BY <1>3
  <2> QED BY <2>1
<1>4. \E v : Visit(v)
  <2> HIDE DEF D, next, Visit
  <2> QED BY <1>1, <1>2, WalkExists
<1> DEFINE w == CHOOSE v : Visit(v)
<1>5. Visit(w)
  <2> HIDE DEF Visit
  <2> QED BY <1>4
<1>6. Children(F, from, end) = w[from] BY DEF Children
<1>7. Walks(w, D, D, next)
  <2> HIDE DEF D, next, w
  <2> QED BY <1>3, <1>5
<1> DEFINE C == Children(F, from, end)
<1>8. /\ C \subseteq D
      /\ \A b \in C : from <= b
      /\ \A a, b \in C : a < b => next[a] <= b
  <2> HIDE DEF D, next, w, Visit
  <2> QED BY <1>1, <1>6, <1>7, WalkFacts
<1> QED BY <1>8

\* The primary RIFF ends in the file.
LEMMA PrimaryEndType ==
  ASSUME NEW F, WellFormed(F)
  PROVE  PrimaryEnd(F) \in Nat /\ PrimaryEnd(F) <= F.len /\ F.len \in Nat
<1> DEFINE a == 8 + F.disk[0].len
           b == F.len
<1>1. a \in Nat /\ b \in Nat BY DEF WellFormed
<1> HIDE DEF a, b
<1>2. Least({a, b}) \in {a, b} /\ Least({a, b}) <= b BY <1>1, LeastOfTwo
<1>3. PrimaryEnd(F) = Least({a, b}) BY DEF PrimaryEnd, a, b
<1> QED BY <1>1, <1>2, <1>3 DEF b

\* An extension RIFF ends in the file.
LEMMA ExtensionEndType ==
  ASSUME NEW F, WellFormed(F), NEW at \in DOMAIN F.disk
  PROVE  /\ ExtensionEnd(F, at) \in Nat /\ at < ExtensionEnd(F, at)
         /\ ExtensionEnd(F, at) <= F.len
<1> DEFINE a == ListEnd(F, at)
           b == F.len
<1>1. a \in Nat /\ b \in Nat /\ at \in Nat /\ at + 12 <= a /\ at + 8 <= b BY CellFacts
<1> HIDE DEF a, b
<1>2. Least({a, b}) \in {a, b} /\ Least({a, b}) <= b
  <2>1. a \in Int /\ b \in Int BY <1>1
  <2> QED BY ONLY <2>1, LeastOfTwo
<1>3. ExtensionEnd(F, at) = Least({a, b}) BY DEF ExtensionEnd, a, b
<1> QED BY <1>1, <1>2, <1>3 DEF b

\* Where open_avi goes on after the header at offset at of the RIFF loop.
NextRiff(F, at) ==
  IF F.disk[at].id = "RIFF" THEN ExtensionEnd(F, at) + (F.disk[at].len % 2)
                            ELSE at + 8 + Even(F.disk[at].len)

\* The RIFF AVIX lists lie behind the primary RIFF and one behind another.
LEMMA ExtensionsFacts ==
  ASSUME NEW F, WellFormed(F)
  PROVE  /\ Extensions(F) \subseteq DOMAIN F.disk
         /\ \A r \in Extensions(F) : PrimaryEnd(F) <= r
         /\ \A r, q \in Extensions(F) : r < q => ExtensionEnd(F, r) <= q
<1> DEFINE D == DOMAIN F.disk
           M == {at \in D : F.disk[at].id = "RIFF"}
           next == [at \in D |-> NextRiff(F, at)]
           Visit(v) == v = [at \in Nat |->
                              IF at \notin DOMAIN F.disk THEN {}
                              ELSE IF F.disk[at].id = "RIFF"
                                   THEN {at} \cup v[ExtensionEnd(F, at) + (F.disk[at].len % 2)]
                                   ELSE v[at + 8 + Even(F.disk[at].len)]]
<1>1. ASSUME NEW at \in D
      PROVE  /\ at \in Nat /\ at < F.len /\ F.len \in Nat
             /\ next[at] \in Nat /\ next[at] > at
             /\ at \in M => ExtensionEnd(F, at) \in Nat /\ ExtensionEnd(F, at) <= next[at]
  <2>1. /\ at \in Nat /\ at + 8 <= F.len /\ F.len \in Nat
        /\ F.disk[at].len % 2 \in 0 .. 1 /\ Even(F.disk[at].len) \in Nat
    BY CellFacts
  <2>2. ExtensionEnd(F, at) \in Nat /\ at < ExtensionEnd(F, at) BY ExtensionEndType
  <2>3. next[at] = NextRiff(F, at) OBVIOUS
  <2>4. at \in M => F.disk[at].id = "RIFF" OBVIOUS
  <2> HIDE DEF D, M, next
  <2> QED BY <2>1, <2>2, <2>3, <2>4 DEF NextRiff
<1>2. Forward(D, M, next, F.len) /\ F.len \in Nat
  <2>1. D \subseteq Nat /\ M \subseteq D BY <1>1
  <2>2. F.len \in Nat BY DEF WellFormed
  <2>3. next \in [D -> Nat] BY <1>1
  <2> HIDE DEF D, M, next
  <2> QED BY <1>1, <2>1, <2>2, <2>3 DEF Forward
<1>3. ASSUME NEW v, NEW at \in Nat
      PROVE  (IF at \in D THEN (M \cap {at}) \cup v[next[at]] ELSE {})
             = IF at \notin DOMAIN F.disk THEN {}
               ELSE IF F.disk[at].id = "RIFF"
                    THEN {at} \cup v[ExtensionEnd(F, at) + (F.disk[at].len % 2)]
                    ELSE v[at + 8 + Even(F.disk[at].len)]
  <2>1. CASE at \notin D BY <2>1
  <2>2. CASE at \in D /\ F.disk[at].id = "RIFF"
    <3>1. M \cap {at} = {at} /\ next[at] = ExtensionEnd(F, at) + (F.disk[at].len % 2)
      BY <2>2 DEF NextRiff
    <3> HIDE DEF M, next
    <3> QED BY <2>2, <3>1
  <2>3. CASE at \in D /\ F.disk[at].id # "RIFF"
    <3>1. M \cap {at} = {} /\ next[at] = at + 8 + Even(F.disk[at].len)
      BY <2>3 DEF NextRiff
    <3> HIDE DEF M, next
    <3> QED BY <2>3, <3>1
  <2> QED BY <2>1, <2>2, <2>3
<1>4. ASSUME NEW v, v \in [Nat -> SUBSET M], Walks(v, D, M, next) PROVE Visit(v)
  <2>1. v = [at \in Nat |-> v[at]] BY <1>4
  <2>2. \A at \in Nat : v[at] = IF at \in D THEN (M \cap {at}) \cup v[next[at]] ELSE {}
    BY <1>4 DEF Walks
  <2> HIDE DEF M, next
  <2> QED BY <1>3, <2>1, <2>2
<1>5. ASSUME NEW v, Visit(v) PROVE Walks(v, D, M, next)
  <2> SUFFICES ASSUME NEW at \in Nat
               PROVE  v[at] = IF at \in D THEN (M \cap {at}) \cup v[next[at]] ELSE {}
    BY DEF Walks
  <2> HIDE DEF M, next
  <2> QED BY <1>3, <1>5
<1>6. \E v : Visit(v)
  <2> HIDE DEF D, M, next, Visit
  <2> QED BY <1>2, <1>4, WalkExists
<1> DEFINE w == CHOOSE v : Visit(v)
           E == Extensions(F)
<1>7. Visit(w)
  <2> HIDE DEF Visit
  <2> QED BY <1>6
<1>8. E = w[PrimaryEnd(F)] BY DEF Extensions
<1>9. Walks(w, D, M, next)
  <2> HIDE DEF D, M, next, w
  <2> QED BY <1>5, <1>7
<1>10. /\ E \subseteq M
       /\ \A r \in E : PrimaryEnd(F) <= r
       /\ \A r, q \in E : r < q => next[r] <= q
  <2>1. PrimaryEnd(F) \in Nat BY PrimaryEndType
  <2> HIDE DEF D, M, next, w, Visit
  <2> QED BY <1>2, <1>8, <1>9, <2>1, WalkFacts
<1>11. M \subseteq D OBVIOUS
<1>12. ASSUME NEW r \in E, NEW q \in E, r < q PROVE ExtensionEnd(F, r) <= q
  <2>1. r \in M /\ r \in D /\ q \in D BY <1>10, <1>11
  <2> HIDE DEF D, M, next
  <2>2. ExtensionEnd(F, r) \in Nat /\ ExtensionEnd(F, r) <= next[r] /\ next[r] \in Nat
    BY <1>1, <2>1
  <2>3. next[r] <= q BY <1>10, <1>12
  <2>4. q \in Nat BY <1>1, <2>1
  <2> QED BY <2>2, <2>3, <2>4
<1> QED BY <1>10, <1>12

\* scan_ix_in_movi visits headers of the file, from the first of a segment on to
\* the next.
LEMMA ScanMoviFacts ==
  ASSUME NEW F, WellFormed(F), NEW from \in Nat, NEW end \in Int
  PROVE  LET S == ScanMovi(F, from, end)
             D == {at \in DOMAIN F.disk : at + 8 <= end}
         IN /\ S \subseteq D /\ \A at \in S : from <= at
            /\ from \in D => from \in S
            /\ \A at \in S : NextHeader(F, at) \in D => NextHeader(F, at) \in S
<1> DEFINE D == {at \in DOMAIN F.disk : at + 8 <= end}
           next == [at \in D |-> IF F.disk[at].id \in ListIds
                                 THEN at + 12 ELSE at + 8 + Even(F.disk[at].len)]
           Visit(v) == v = [at \in Nat |->
                              IF at + 8 > end \/ at \notin DOMAIN F.disk THEN {}
                              ELSE IF F.disk[at].id \in ListIds THEN {at} \cup v[at + 12]
                              ELSE {at} \cup v[at + 8 + Even(F.disk[at].len)]]
<1>1. Forward(D, D, next, F.len) /\ F.len \in Nat
  <2>1. ASSUME NEW at \in D
        PROVE  at \in Nat /\ at < F.len /\ F.len \in Nat /\ next[at] \in Nat /\ next[at] > at
    <3>1. at \in DOMAIN F.disk OBVIOUS
    <3>2. at \in Nat /\ at + 8 <= F.len /\ F.len \in Nat /\ Even(F.disk[at].len) \in Nat
      BY <3>1, CellFacts
    <3>3. next[at] = IF F.disk[at].id \in ListIds
                     THEN at + 12 ELSE at + 8 + Even(F.disk[at].len)
      OBVIOUS
    <3> HIDE DEF D, next
    <3> QED BY <3>2, <3>3
  <2>2. D \subseteq Nat BY <2>1
  <2>3. F.len \in Nat BY DEF WellFormed
  <2>4. next \in [D -> Nat] BY <2>1
  <2> HIDE DEF D, next
  <2> QED BY <2>1, <2>2, <2>3, <2>4 DEF Forward
<1>2. ASSUME NEW v, NEW at \in Nat
      PROVE  (IF at \in D THEN (D \cap {at}) \cup v[next[at]] ELSE {})
             = IF at + 8 > end \/ at \notin DOMAIN F.disk THEN {}
               ELSE IF F.disk[at].id \in ListIds THEN {at} \cup v[at + 12]
               ELSE {at} \cup v[at + 8 + Even(F.disk[at].len)]
  <2>1. at \in D <=> ~(at + 8 > end \/ at \notin DOMAIN F.disk) OBVIOUS
  <2>2. CASE at \notin D
    <3> HIDE DEF D, next
    <3> QED BY <2>1, <2>2
  <2>3. CASE at \in D
    <3>1. D \cap {at} = {at} BY <2>3
    <3>2. next[at] = IF F.disk[at].id \in ListIds
                     THEN at + 12 ELSE at + 8 + Even(F.disk[at].len)
      BY <2>3
    <3> HIDE DEF D, next
    <3> QED BY <2>1, <2>3, <3>1, <3>2
  <2> QED BY <2>2, <2>3
<1>3. ASSUME NEW v, v \in [Nat -> SUBSET D], Walks(v, D, D, next) PROVE Visit(v)
  <2>1. v = [at \in Nat |-> v[at]] BY <1>3
  <2>2. \A at \in Nat : v[at] = IF at \in D THEN (D \cap {at}) \cup v[next[at]] ELSE {}
    BY <1>3 DEF Walks
  <2> HIDE DEF D, next
  <2> QED BY <1>2, <2>1, <2>2
<1>4. ASSUME NEW v, Visit(v) PROVE Walks(v, D, D, next)
  <2> SUFFICES ASSUME NEW at \in Nat
               PROVE  v[at] = IF at \in D THEN (D \cap {at}) \cup v[next[at]] ELSE {}
    BY DEF Walks
  <2> HIDE DEF D, next
  <2> QED BY <1>2, <1>4
<1>5. \E v : Visit(v)
  <2> HIDE DEF D, next, Visit
  <2> QED BY <1>1, <1>3, WalkExists
<1> DEFINE w == CHOOSE v : Visit(v)
<1>6. Visit(w)
  <2> HIDE DEF Visit
  <2> QED BY <1>5
<1>7. ScanMovi(F, from, end) = w[from] BY DEF ScanMovi
<1>8. Walks(w, D, D, next)
  <2> HIDE DEF D, next, w
  <2> QED BY <1>4, <1>6
<1>9. /\ w[from] \subseteq D /\ \A at \in w[from] : from <= at
      /\ from \in D => from \in w[from]
      /\ \A at \in w[from] : next[at] \in D => next[at] \in w[from]
  <2> HIDE DEF D, next, w, Visit
  <2> QED BY <1>1, <1>8, WalkFacts
<1>10. \A at \in D : next[at] = NextHeader(F, at) BY DEF NextHeader
<1> HIDE DEF next, w, Visit
<1> QED BY <1>7, <1>9, <1>10

\* A list visited by open_avi stands in the primary RIFF or in the one RIFF AVIX
\* around it, and RiffEnd is the end of that.
InRiff(F, at, from, end) == at \in Children(F, from, end) /\ RiffEnd(F, at) = end

\* The RIFF a movi list stands in ends in the file.
LEMMA RiffEndFacts ==
  ASSUME NEW F, WellFormed(F)
  PROVE  /\ \A at \in PrimaryChildren(F) : InRiff(F, at, 12, PrimaryEnd(F))
         /\ \A at \in ExtensionChildren(F) : \E r \in Extensions(F) :
              InRiff(F, at, r + 12, ExtensionEnd(F, r))
<1>1. PrimaryEnd(F) \in Nat BY PrimaryEndType
<1>2. ASSUME NEW at \in PrimaryChildren(F) PROVE InRiff(F, at, 12, PrimaryEnd(F))
  <2>1. at \in Children(F, 12, PrimaryEnd(F)) BY DEF PrimaryChildren
  <2>2. at < PrimaryEnd(F) BY <1>1, <2>1, ChildrenFacts
  <2>3. RiffEnd(F, at) = PrimaryEnd(F) BY <2>2 DEF RiffEnd
  <2> QED BY <2>1, <2>3 DEF InRiff
<1>3. ASSUME NEW at \in ExtensionChildren(F)
      PROVE  \E r \in Extensions(F) : InRiff(F, at, r + 12, ExtensionEnd(F, r))
  <2> DEFINE Around(r) == r < at /\ at < ExtensionEnd(F, r)
             r == CHOOSE r \in Extensions(F) : Around(r)
  <2>1. PICK q \in Extensions(F) : at \in Children(F, q + 12, ExtensionEnd(F, q))
    BY DEF ExtensionChildren
  <2>2. ASSUME NEW p \in Extensions(F)
        PROVE  /\ p \in DOMAIN F.disk /\ p \in Nat /\ p + 12 \in Nat /\ PrimaryEnd(F) <= p
               /\ ExtensionEnd(F, p) \in Nat
    <3>1. p \in DOMAIN F.disk /\ PrimaryEnd(F) <= p BY ExtensionsFacts
    <3>2. p \in Nat BY <3>1, CellFacts
    <3>3. ExtensionEnd(F, p) \in Nat BY <3>1, ExtensionEndType
    <3> QED BY <3>1, <3>2, <3>3
  <2>3. q + 12 <= at /\ at < ExtensionEnd(F, q) /\ at \in DOMAIN F.disk
    BY <2>1, <2>2, ChildrenFacts
  <2>4. at \in Nat BY <2>3, CellFacts
  <2>5. Around(q) BY <2>2, <2>3, <2>4
  <2>6. r \in Extensions(F) /\ Around(r)
    <3> HIDE DEF Around
    <3> QED BY <2>5
  <2> HIDE DEF r
  <2>7. r = q
    <3>1. ~(r < q)
      <4>1. r < q => ExtensionEnd(F, r) <= q BY <2>6, ExtensionsFacts
      <4> QED BY <2>2, <2>4, <2>5, <2>6, <4>1
    <3>2. ~(q < r)
      <4>1. q < r => ExtensionEnd(F, q) <= r BY <2>6, ExtensionsFacts
      <4> QED BY <2>2, <2>4, <2>5, <2>6, <4>1
    <3> QED BY <2>2, <2>6, <3>1, <3>2
  <2>8. ~(at < PrimaryEnd(F)) BY <1>1, <2>2, <2>4, <2>5
  <2>9. RiffEnd(F, at) = ExtensionEnd(F, r)
    <3>1. (CHOOSE p \in Extensions(F) : p < at /\ at < ExtensionEnd(F, p)) = r BY DEF r
    <3> QED BY <2>8, <3>1 DEF RiffEnd
  <2> QED BY <2>1, <2>7, <2>9 DEF InRiff
<1> QED BY <1>2, <1>3

\* The movi lists, and the body of one.
MoviLists(F) ==
  {at \in PrimaryChildren(F) \cup ExtensionChildren(F) : F.disk[at].id = "movi"}
Body(F, at) == [from |-> at + 12, to |-> Least({ListEnd(F, at), RiffEnd(F, at), F.len})]

\* The body of a list ends in the file and not before its header does.
LEMMA BodyFacts ==
  ASSUME NEW F, WellFormed(F), NEW at \in MoviLists(F)
  PROVE  /\ at \in DOMAIN F.disk /\ at \in Nat
         /\ \E from \in Nat, end \in Nat :
              /\ InRiff(F, at, from, end) /\ from <= at /\ at < end
              /\ \/ from = 12 /\ end = PrimaryEnd(F)
                 \/ \E r \in Extensions(F) : from = r + 12 /\ end = ExtensionEnd(F, r)
         /\ Body(F, at) \in [from : Nat, to : Nat]
         /\ Body(F, at).to <= RiffEnd(F, at) /\ Body(F, at).to <= F.len
         /\ Body(F, at).from <= Body(F, at).to + 11
<1>1. PICK from \in Nat, end \in Nat :
        /\ InRiff(F, at, from, end)
        /\ \/ from = 12 /\ end = PrimaryEnd(F)
           \/ \E r \in Extensions(F) : from = r + 12 /\ end = ExtensionEnd(F, r)
  <2>1. CASE at \in PrimaryChildren(F)
    <3>1. 12 \in Nat /\ PrimaryEnd(F) \in Nat BY PrimaryEndType
    <3>2. InRiff(F, at, 12, PrimaryEnd(F)) BY <2>1, RiffEndFacts
    <3> QED BY <3>1, <3>2
  <2>2. CASE at \in ExtensionChildren(F)
    <3>1. PICK r \in Extensions(F) : InRiff(F, at, r + 12, ExtensionEnd(F, r))
      BY <2>2, RiffEndFacts
    <3>2. r \in DOMAIN F.disk BY ExtensionsFacts
    <3>3. r \in Nat /\ ExtensionEnd(F, r) \in Nat BY <3>2, CellFacts, ExtensionEndType
    <3>4. r + 12 \in Nat BY <3>3
    <3> QED BY <3>1, <3>3, <3>4
  <2> QED BY <2>1, <2>2 DEF MoviLists
<1>2. at \in DOMAIN F.disk /\ from <= at /\ at < end /\ RiffEnd(F, at) = end
  <2>1. at \in Children(F, from, end) /\ RiffEnd(F, at) = end BY <1>1 DEF InRiff
  <2> QED BY <2>1, ChildrenFacts
<1>3. /\ at \in Nat /\ F.len \in Nat /\ ListEnd(F, at) \in Nat
      /\ at + 8 <= F.len /\ at + 12 <= ListEnd(F, at)
  BY <1>2, CellFacts
<1> DEFINE a == ListEnd(F, at)
           c == F.len
           m == Least({a, end, c})
<1>4. m \in {a, end, c} /\ m <= end /\ m <= c
  <2>1. a \in Int /\ c \in Int /\ end \in Int BY <1>3
  <2> HIDE DEF a, c
  <2> QED BY ONLY <2>1, LeastOfThree
<1>5. m \in Nat /\ at + 12 <= m + 11 BY <1>2, <1>3, <1>4
<1>6. Body(F, at) = [from |-> at + 12, to |-> m] BY <1>2 DEF Body
<1> HIDE DEF m
<1>7. /\ Body(F, at) \in [from : Nat, to : Nat]
      /\ Body(F, at).to = m /\ Body(F, at).from = at + 12
  BY <1>3, <1>5, <1>6
<1> QED BY <1>1, <1>2, <1>3, <1>4, <1>5, <1>7

\* The body of a movi list ends before the next movi list.
LEMMA BodiesApart ==
  ASSUME NEW F, WellFormed(F), NEW a \in MoviLists(F), NEW b \in MoviLists(F), a < b
  PROVE  Body(F, a).to <= b
<1>1. PICK from \in Nat, end \in Nat :
        /\ InRiff(F, a, from, end) /\ from <= a /\ a < end
        /\ \/ from = 12 /\ end = PrimaryEnd(F)
           \/ \E r \in Extensions(F) : from = r + 12 /\ end = ExtensionEnd(F, r)
  BY BodyFacts
<1>2. PICK start \in Nat, stop \in Nat :
        /\ InRiff(F, b, start, stop) /\ start <= b /\ b < stop
        /\ \/ start = 12 /\ stop = PrimaryEnd(F)
           \/ \E r \in Extensions(F) : start = r + 12 /\ stop = ExtensionEnd(F, r)
  BY BodyFacts
<1>3. a \in Nat /\ b \in Nat /\ a \in DOMAIN F.disk BY BodyFacts
<1>4. Body(F, a).to <= end /\ Body(F, a).to \in Nat
  <2>1. RiffEnd(F, a) = end BY <1>1 DEF InRiff
  <2> QED BY <2>1, BodyFacts
<1>5. CASE from = start /\ end = stop
  <2>1. a \in Children(F, from, end) /\ b \in Children(F, from, end)
    BY <1>1, <1>2, <1>5 DEF InRiff
  <2>2. NextSibling(F, a, end) <= b BY <2>1, ChildrenFacts
  <2>3. F.disk[a].id \in ListIds BY DEF MoviLists, ListIds
  <2>4. /\ Least({ListEnd(F, a), end, F.len}) <= NextSibling(F, a, end)
        /\ NextSibling(F, a, end) \in Nat
    BY <1>1, <1>3, <2>3, NextSiblingFacts
  <2>5. Body(F, a).to = Least({ListEnd(F, a), end, F.len})
    <3>1. RiffEnd(F, a) = end BY <1>1 DEF InRiff
    <3> QED BY <3>1 DEF Body
  <2> QED BY <1>3, <1>4, <2>2, <2>4, <2>5
<1>6. CASE end <= start BY <1>1, <1>2, <1>3, <1>4, <1>6
<1>7. ~(stop <= from) BY <1>1, <1>2, <1>3
<1>8. PrimaryEnd(F) \in Nat BY PrimaryEndType
<1>9. \A r \in Extensions(F) : r \in Nat /\ PrimaryEnd(F) <= r /\ ExtensionEnd(F, r) \in Nat
  BY ExtensionsFacts, CellFacts, ExtensionEndType
<1>10. (from = start /\ end = stop) \/ end <= start \/ stop <= from
  <2>1. CASE from = 12 /\ end = PrimaryEnd(F)
    <3>1. CASE start = 12 /\ stop = PrimaryEnd(F) BY <2>1, <3>1
    <3>2. CASE \E r \in Extensions(F) : start = r + 12 /\ stop = ExtensionEnd(F, r)
      BY <1>8, <1>9, <2>1, <3>2
    <3> QED BY <1>2, <3>1, <3>2
  <2>2. CASE \E r \in Extensions(F) : from = r + 12 /\ end = ExtensionEnd(F, r)
    <3>1. PICK r \in Extensions(F) : from = r + 12 /\ end = ExtensionEnd(F, r) BY <2>2
    <3>2. CASE start = 12 /\ stop = PrimaryEnd(F) BY <1>8, <1>9, <3>1, <3>2
    <3>3. CASE \E q \in Extensions(F) : start = q + 12 /\ stop = ExtensionEnd(F, q)
      <4>1. PICK q \in Extensions(F) : start = q + 12 /\ stop = ExtensionEnd(F, q) BY <3>3
      <4>2. r < q => ExtensionEnd(F, r) <= q BY ExtensionsFacts
      <4>3. q < r => ExtensionEnd(F, q) <= r BY ExtensionsFacts
      <4>4. r \in Nat /\ q \in Nat /\ ExtensionEnd(F, r) \in Nat /\ ExtensionEnd(F, q) \in Nat
        BY <1>9
      <4>5. r < q \/ q < r \/ r = q BY <4>4
      <4> QED BY <3>1, <4>1, <4>2, <4>3, <4>4, <4>5
    <3> QED BY <1>2, <3>2, <3>3
  <2> QED BY <1>1, <2>1, <2>2
<1> QED BY <1>5, <1>6, <1>7, <1>10

\* The segments of a file of n bytes follow one another, a movi header apart.
Segments == Seq([from : Nat, to : Nat])
Apart(movi, n) ==
  /\ \A i, j \in DOMAIN movi : i < j => movi[i].to + 12 <= movi[j].from
  /\ \A i \in DOMAIN movi : movi[i].from <= movi[i].to + 11 /\ movi[i].to <= n

\* The movi segments are apart, in the order of the file.
LEMMA SegmentsApart ==
  ASSUME NEW F, WellFormed(F)
  PROVE  MoviSegments(F) \in Segments /\ Apart(MoviSegments(F), F.len)
<1> DEFINE S == MoviLists(F)
           O == InOrder(S)
           n == Cardinality(S)
           movi == MoviSegments(F)
<1>1. S \subseteq Nat /\ IsFiniteSet(S)
  <2>1. S \subseteq DOMAIN F.disk BY BodyFacts
  <2>2. IsFiniteSet(DOMAIN F.disk) /\ DOMAIN F.disk \subseteq Nat BY DEF WellFormed
  <2> QED BY <2>1, <2>2, FS_Subset
<1>2. /\ O \in [1 .. n -> S] /\ n \in Nat
      /\ \A i, j \in DOMAIN O : i < j => O[i] < O[j]
  <2> HIDE DEF S
  <2> QED BY <1>1, InOrderLists
<1>3. movi = [i \in 1 .. n |-> Body(F, O[i])]
  <2>1. DOMAIN O = 1 .. n BY <1>2
  <2>2. movi = [i \in DOMAIN O |-> Body(F, O[i])] BY DEF MoviSegments, MoviLists, Body
  <2> QED BY <2>1, <2>2
<1> HIDE DEF O, n, S
<1>4. movi \in [1 .. n -> [from : Nat, to : Nat]] BY <1>2, <1>3, BodyFacts DEF S
<1>5. movi \in Segments BY <1>2, <1>4, FunctionIsSeq DEF Segments
<1>6. ASSUME NEW i \in 1 .. n, NEW j \in 1 .. n, i < j
      PROVE  movi[i].to + 12 <= movi[j].from
  <2>1. O[i] \in S /\ O[j] \in S /\ O[i] < O[j] BY <1>2, <1>6
  <2>2. Body(F, O[i]).to <= O[j] BY <2>1, BodiesApart DEF S
  <2>3. Body(F, O[i]) \in [from : Nat, to : Nat] /\ O[j] \in Nat BY <2>1, BodyFacts DEF S
  <2>4. Body(F, O[j]).from = O[j] + 12 BY DEF Body
  <2>5. movi[i] = Body(F, O[i]) /\ movi[j] = Body(F, O[j]) BY <1>3
  <2> QED BY <2>2, <2>3, <2>4, <2>5
<1>7. \A i \in 1 .. n : movi[i].from <= movi[i].to + 11 /\ movi[i].to <= F.len
  BY <1>2, <1>3, BodyFacts DEF S
<1>8. DOMAIN movi = 1 .. n BY <1>3
<1> QED BY <1>5, <1>6, <1>7, <1>8 DEF Apart

-----------------------------------------------------------------------------
(* The tables open_avi builds                                              *)

\* The tables open_avi keeps of file F, of idx1 and of the standard indexes.
IdxOf(F) == BuildIdxTable(F, RawIdx1(F), MoviSegments(F)[1].from)
StdTable(F) == Kept(StdEntries(StdIndexes(F, MoviSegments(F))), LAMBDA e : e.trk \in Streams)

\* The last of the numbers in order is one of them.
LEMMA LastInOrder ==
  ASSUME NEW S, S \subseteq Nat, IsFiniteSet(S), S # {}
  PROVE  Last(InOrder(S)) \in S
<1> DEFINE O == InOrder(S)
           n == Cardinality(S)
<1>1. O \in [1 .. n -> S] /\ n \in Nat BY InOrderLists
<1>2. n # 0 BY FS_EmptySet
<1> HIDE DEF O, n
<1>3. Len(O) = n BY <1>1, FunctionIsSeq
<1> QED BY <1>1, <1>2, <1>3 DEF Last, O

\* The entries of idx1 that are read are entries.
LEMMA RawIdx1Type ==
  ASSUME NEW F, WellFormed(F)
  PROVE  RawIdx1(F) \in Seq(Idx1Fields)
<1> DEFINE S == {a \in PrimaryChildren(F) : F.disk[a].id = "idx1"}
           at == Last(InOrder(S))
           c == F.disk[at]
           room == F.len - (at + 8)
           whole == Least({c.len, room}) \div 16
<1>1. CASE ~HasIdx1(F) BY <1>1, EmptySeq DEF RawIdx1
<1>2. CASE HasIdx1(F)
  <2>1. S # {} BY <1>2 DEF HasIdx1
  <2>2. PrimaryChildren(F) \subseteq DOMAIN F.disk
    <3>1. PrimaryEnd(F) \in Int /\ 12 \in Nat BY PrimaryEndType
    <3> QED BY <3>1, ChildrenFacts DEF PrimaryChildren
  <2>3. S \subseteq Nat /\ IsFiniteSet(S)
    <3>1. IsFiniteSet(DOMAIN F.disk) /\ DOMAIN F.disk \subseteq Nat BY DEF WellFormed
    <3> QED BY <2>2, <3>1, FS_Subset
  <2>4. at \in S
    <3> HIDE DEF S
    <3> QED BY <2>1, <2>3, LastInOrder
  <2> HIDE DEF at
  <2>5. /\ at \in DOMAIN F.disk /\ c.id = "idx1" BY <2>2, <2>4
  <2>6. c.ents \in Seq(Idx1Fields) /\ c.len \div 16 <= Len(c.ents) BY <2>5 DEF WellFormed
  <2>7. c.len \in Nat /\ room \in Nat BY <2>5, CellFacts
  <2> DEFINE m == Least({c.len, room})
             n == c.len
             k == Len(c.ents)
  <2>8. m \in Nat /\ m <= n
    <3>1. m \in {c.len, room} /\ m <= c.len
      <4> DEFINE a == c.len
                 b == room
      <4>1. a \in Int /\ b \in Int BY <2>7
      <4> HIDE DEF a, b
      <4>2. Least({a, b}) \in {a, b} /\ Least({a, b}) <= a BY ONLY <4>1, LeastOfTwo
      <4> QED BY <4>2 DEF a, b
    <3> QED BY <2>7, <3>1
  <2>9. n \in Nat /\ k \in Nat /\ n \div 16 <= k BY <2>6, <2>7, LenProperties
  <2> HIDE DEF m, n, k
  <2>10. m \div 16 \in Nat /\ m \div 16 <= k BY <2>8, <2>9
  <2>11. whole \in Int /\ \A i \in 1 .. whole : c.ents[i] \in Idx1Fields
    <3>1. whole = m \div 16 BY DEF m
    <3> HIDE DEF whole
    <3>2. \A i \in 1 .. whole : i \in 1 .. Len(c.ents) BY <2>9, <2>10, <3>1 DEF k
    <3> QED BY <2>6, <2>10, <3>1, <3>2, ElementOfSeq
  <2>12. RawIdx1(F) = SubSeq(c.ents, 1, whole)
    <3>1. at = Last(InOrder({a \in PrimaryChildren(F) : F.disk[a].id = "idx1"})) BY DEF at
    <3> QED BY <1>2, <3>1 DEF RawIdx1
  <2> HIDE DEF whole, c
  <2> QED BY <2>11, <2>12, SubSeqProperties
<1> QED BY <1>1, <1>2

\* Entry x of the table is entry e of idx1, whose offset counts from base.
Read(e, base, x) ==
  /\ PerStream(e) /\ e.trk \in Streams
  /\ x.trk = e.trk /\ x.off = base + e.off /\ x.len = e.len /\ x.key = e.key

\* The idx1 table.
LEMMA IdxTable ==
  ASSUME NEW F, WellFormed(F), NEW raw \in Seq(Idx1Fields), NEW movi \in Nat
  PROVE  LET T == BuildIdxTable(F, raw, movi)
             base == Idx1Base(F, raw, movi)
         IN /\ T \in Tables
            /\ \A n \in DOMAIN T : \E i \in DOMAIN raw : Read(raw[i], base, T[n])
            /\ \A i \in DOMAIN raw :
                 PerStream(raw[i]) /\ raw[i].trk \in Streams =>
                   \E n \in DOMAIN T : Read(raw[i], base, T[n])
<1> DEFINE base == Idx1Base(F, raw, movi)
           I == {i \in DOMAIN raw : PerStream(raw[i]) /\ raw[i].trk \in Streams}
           own == At(raw, I)
           s == [i \in DOMAIN own |-> [own[i] EXCEPT !.off = base + @]]
<1>1. base \in Int BY DEF Idx1Base
<1>2. BuildIdxTable(F, raw, movi) = WithPts(s) BY DEF BuildIdxTable, Kept, At
<1>3. \A i \in I : raw[i] \in Idx1Fields /\ raw[i].trk \in Streams
  BY LenProperties, ElementOfSeq
<1>4. /\ own \in Seq({raw[i] : i \in I})
      /\ \A i \in I : \E k \in DOMAIN own : own[k] = raw[i]
  <2> HIDE DEF I
  <2>1. I \in SUBSET DOMAIN raw BY DEF I
  <2> QED BY <2>1, KeptFacts
<1> DEFINE X == {raw[i] : i \in I}
           n == Len(own)
<1>5. n \in Nat /\ DOMAIN own = 1 .. n /\ \A i \in 1 .. n : own[i] \in X
  BY <1>4, LenProperties, ElementOfSeq
<1>6. \A e \in X : e \in Idx1Fields /\ e.trk \in Streams BY <1>3
<1> HIDE DEF X, n, own, base
<1>7. s = [i \in 1 .. n |-> [own[i] EXCEPT !.off = base + @]] BY <1>5
<1>8. ASSUME NEW i \in 1 .. n PROVE s[i] \in RawEntries /\ s[i].trk \in Streams
  <2> DEFINE e == own[i]
  <2>1. e \in Idx1Fields /\ e.trk \in Streams BY <1>5, <1>6
  <2>2. s[i] = [e EXCEPT !.off = base + e.off] BY <1>7
  <2> DEFINE x == base + e.off
  <2>3. x \in Int BY <1>1, <2>1 DEF Idx1Fields
  <2> HIDE DEF e, s, x
  <2>4. [e EXCEPT !.off = x] \in RawEntries /\ [e EXCEPT !.off = x].trk = e.trk
    BY <2>1, <2>3 DEF Idx1Fields, RawEntries, Ids
  <2> QED BY <2>1, <2>2, <2>4 DEF x
<1>9. s \in [1 .. n -> RawEntries] BY <1>7, <1>8
<1> HIDE DEF s
<1>10. s \in Seq(RawEntries) /\ Len(s) = n BY <1>5, <1>9, FunctionIsSeq
<1> DEFINE w == WithPts(s)
           b == Idx1Base(F, raw, movi)
<1>17. /\ \A k \in 1 .. n : \E i \in I : own[k] = raw[i]
       /\ \A i \in I : \E k \in 1 .. n : own[k] = raw[i]
  BY <1>4, <1>5 DEF X
<1>18. ASSUME NEW k \in 1 .. n, NEW i \in I, own[k] = raw[i], NEW x,
              x.trk = s[k].trk, x.key = s[k].key, x.off = s[k].off, x.len = s[k].len
       PROVE  Read(raw[i], b, x)
  <2> DEFINE e == own[k]
  <2>1. e \in Idx1Fields BY <1>5, <1>6
  <2>2. s[k] = [e EXCEPT !.off = b + e.off] BY <1>7 DEF s, base
  <2>3. PerStream(e) /\ e.trk \in Streams /\ e = raw[i] BY <1>18
  <2> HIDE DEF e, b
  <2>4. /\ s[k].trk = e.trk /\ s[k].key = e.key /\ s[k].off = b + e.off /\ s[k].len = e.len
    BY <2>1, <2>2 DEF Idx1Fields
  <2> QED BY <1>18, <2>3, <2>4 DEF Read
<1> HIDE DEF b
<1>11. /\ DOMAIN w = 1 .. n
       /\ \A i \in DOMAIN w : w[i].trk = s[i].trk
       /\ \A i \in Owned(s) : w[i] \in Entries
       /\ \A i, j \in Owned(s) : i < j /\ w[i].trk = w[j].trk => w[i].pts <= w[j].pts
  BY <1>10, StampedEntries
<1>12. Owned(s) = DOMAIN w BY <1>8, <1>11 DEF Owned
<1>13. w = [i \in 1 .. n |-> w[i]]
  <2>1. w = [i \in DOMAIN s |->
              [trk |-> s[i].trk, key |-> s[i].key, off |-> s[i].off, len |-> s[i].len,
               id |-> s[i].id, pts |-> w[i].pts]]
    <3>1. Sizes(s, n) BY <1>9 DEF Sizes, RawEntries
    <3>2. w = [i \in 1 .. n |->
                [trk |-> s[i].trk, key |-> s[i].key, off |-> s[i].off, len |-> s[i].len,
                 id |-> s[i].id, pts |-> w[i].pts]]
      BY <1>5, <3>1, WithPtsFacts
    <3> QED BY <1>9, <3>2
  <2> HIDE DEF w
  <2> QED BY <1>11, <2>1
<1>20. \A k \in 1 .. n : w[k] =
         [trk |-> s[k].trk, key |-> s[k].key, off |-> s[k].off, len |-> s[k].len,
          id |-> s[k].id, pts |-> w[k].pts]
  <2>1. Sizes(s, n) BY <1>9 DEF Sizes, RawEntries
  <2>2. w = [i \in 1 .. n |->
              [trk |-> s[i].trk, key |-> s[i].key, off |-> s[i].off, len |-> s[i].len,
               id |-> s[i].id, pts |-> w[i].pts]]
    BY <1>5, <2>1, WithPtsFacts
  <2> HIDE DEF w
  <2> QED BY <2>2
<1> HIDE DEF w
<1>14. w \in [1 .. n -> Entries] BY <1>11, <1>12, <1>13
<1>15. w \in Seq(Entries) BY <1>5, <1>14, FunctionIsSeq
<1>16. Rising(w) BY <1>11, <1>12 DEF Rising
<1>19. \A k \in 1 .. n : /\ w[k].trk = s[k].trk /\ w[k].key = s[k].key
                         /\ w[k].off = s[k].off /\ w[k].len = s[k].len
  <2> SUFFICES ASSUME NEW k \in 1 .. n
               PROVE  /\ w[k].trk = s[k].trk /\ w[k].key = s[k].key
                      /\ w[k].off = s[k].off /\ w[k].len = s[k].len
    OBVIOUS
  <2> DEFINE x == w[k]
             p == w[k].pts
  <2>1. x = [trk |-> s[k].trk, key |-> s[k].key, off |-> s[k].off, len |-> s[k].len,
             id |-> s[k].id, pts |-> p]
    BY <1>20
  <2> HIDE DEF x, p
  <2>2. x.trk = s[k].trk /\ x.key = s[k].key /\ x.off = s[k].off /\ x.len = s[k].len
    BY <2>1
  <2> QED BY <2>2 DEF x
<1>24. \A k \in 1 .. n, i \in I : own[k] = raw[i] => Read(raw[i], b, w[k])
  BY <1>18, <1>19
<1>21. \A k \in 1 .. n : \E i \in I : Read(raw[i], b, w[k]) BY <1>17, <1>24
<1>22. \A i \in I : \E k \in 1 .. n : Read(raw[i], b, w[k]) BY <1>17, <1>24
<1>23. BuildIdxTable(F, raw, movi) = w BY <1>2 DEF w
<1> QED BY <1>11, <1>15, <1>16, <1>21, <1>22, <1>23 DEF Tables, b

\* A standard index as its entries are read.
StdIxs == [trk : Int, base : Nat, kind : {"std"}, ents : Seq(IxFields)]

\* The headers the scan of the segments visits, and the whole ix## chunks among them.
Seen(F, movi) == UNION {ScanMovi(F, movi[i].from, movi[i].to) : i \in DOMAIN movi}
SeenIx(F, movi) ==
  {at \in Seen(F, movi) : F.disk[at].id = "ix" /\ at + 8 + F.disk[at].len <= F.len}

\* The scan finds those, or nothing if a form type is cut off.
LEMMA IxScanType ==
  ASSUME NEW F, WellFormed(F), NEW movi \in Segments
  PROVE  LET s == ScanIxInMovi(F, movi) IN
         /\ s \in Seq({at \in DOMAIN F.disk : F.disk[at].id = "ix"})
         /\ Range(s) \subseteq SeenIx(F, movi)
         /\ (\A at \in Seen(F, movi) : ~FormCut(F, at)) => SeenIx(F, movi) \subseteq Range(s)
<1> DEFINE seen == UNION {ScanMovi(F, movi[i].from, movi[i].to) : i \in DOMAIN movi}
           whole == {at \in seen : F.disk[at].id = "ix" /\ at + 8 + F.disk[at].len <= F.len}
           X == {at \in DOMAIN F.disk : F.disk[at].id = "ix"}
<1>1. seen \subseteq DOMAIN F.disk
  <2>1. \A i \in DOMAIN movi : movi[i] \in [from : Nat, to : Nat]
    BY LenProperties, ElementOfSeq DEF Segments
  <2>2. \A i \in DOMAIN movi : movi[i].from \in Nat /\ movi[i].to \in Int BY <2>1
  <2> QED BY <2>2, ScanMoviFacts
<1>2. whole \subseteq X BY <1>1
<1>3. whole \subseteq Nat /\ IsFiniteSet(whole)
  <2>1. IsFiniteSet(DOMAIN F.disk) /\ DOMAIN F.disk \subseteq Nat BY DEF WellFormed
  <2>2. whole \subseteq DOMAIN F.disk BY <1>1
  <2> HIDE DEF whole
  <2> QED BY <2>1, <2>2, FS_Subset
<1>4. ScanIxInMovi(F, movi) = <<>> \/ ScanIxInMovi(F, movi) = InOrder(whole)
  BY DEF ScanIxInMovi
<1> HIDE DEF whole, X
<1>5. /\ InOrder(whole) \in [1 .. Cardinality(whole) -> whole] /\ Cardinality(whole) \in Nat
      /\ \A a \in whole : \E i \in DOMAIN InOrder(whole) : InOrder(whole)[i] = a
  BY <1>3, InOrderLists
<1>6. InOrder(whole) \in [1 .. Cardinality(whole) -> X] BY <1>2, <1>5
<1>7. InOrder(whole) \in Seq(X) BY <1>5, <1>6, FunctionIsSeq
<1>8. Range(InOrder(whole)) = whole BY <1>5 DEF Range
<1>9. Range(<<>>) = {} BY DEF Range
<1>10. whole = SeenIx(F, movi) BY DEF whole, SeenIx, Seen
<1>11. (\A at \in Seen(F, movi) : ~FormCut(F, at)) => ScanIxInMovi(F, movi) = InOrder(whole)
  BY DEF ScanIxInMovi, Seen, whole
<1> QED BY <1>4, <1>7, <1>8, <1>9, <1>10, <1>11, EmptySeq DEF X

\* Index x of stream t is what y, the indx of a header or an ix## chunk, holds.
Holds(x, t, y) == x.trk = t /\ x.base = y.base /\ x.ents = y.ents

\* The standard indexes are those in the header and the ix## chunks found.
LEMMA StdIndexesType ==
  ASSUME NEW F, WellFormed(F), NEW movi \in Segments
  PROVE  LET std == StdIndexes(F, movi)
             heads == {t \in Streams : F.indx[t].kind = "std"}
             found == IF WantIxScan(F, movi) THEN Range(ScanIxInMovi(F, movi)) ELSE {}
         IN /\ std \in Seq(StdIxs)
            /\ \A x \in Range(std) :
                 \/ \E t \in heads : Holds(x, t, F.indx[t])
                 \/ \E at \in found : Holds(x, F.disk[at].trk, F.disk[at])
            /\ \A t \in heads : \E x \in Range(std) : Holds(x, t, F.indx[t])
            /\ \A at \in found : \E x \in Range(std) : Holds(x, F.disk[at].trk, F.disk[at])
<1> DEFINE s == [i \in 1 .. NumStreams |->
                   [trk |-> i - 1, base |-> F.indx[i - 1].base,
                    kind |-> F.indx[i - 1].kind, ents |-> F.indx[i - 1].ents]]
           I == {i \in DOMAIN s : s[i].kind = "std"}
           chunks == IF WantIxScan(F, movi) THEN ScanIxInMovi(F, movi) ELSE <<>>
           found == [i \in DOMAIN chunks |->
                      [trk |-> F.disk[chunks[i]].trk, base |-> F.disk[chunks[i]].base,
                       kind |-> "std", ents |-> F.disk[chunks[i]].ents]]
           heads == {t \in Streams : F.indx[t].kind = "std"}
<1>1. StdIndexes(F, movi) = At(s, I) \o found BY DEF StdIndexes, Kept, At
<1>2. /\ At(s, I) \in Seq(StdIxs)
      /\ \A x \in Range(At(s, I)) : \E t \in heads : Holds(x, t, F.indx[t])
      /\ \A t \in heads : \E x \in Range(At(s, I)) : Holds(x, t, F.indx[t])
  <2> DEFINE X == {s[i] : i \in 1 .. NumStreams}
             Y == {s[i] : i \in I}
  <2>1. NumStreams \in Nat BY ReaderAssumption
  <2>2. s \in [1 .. NumStreams -> X] OBVIOUS
  <2>3. Y \subseteq StdIxs
    <3> SUFFICES ASSUME NEW i \in I PROVE s[i] \in StdIxs
      OBVIOUS
    <3>1. i \in 1 .. NumStreams /\ i - 1 \in Streams /\ i - 1 \in Int
      BY <2>1 DEF Streams
    <3> DEFINE x == F.indx[i - 1]
    <3>2. s[i] = [trk |-> i - 1, base |-> x.base, kind |-> x.kind, ents |-> x.ents] BY <3>1
    <3>3. x.kind = "std" BY <3>2
    <3>4. x.base \in Nat /\ x.ents \in Seq(IxFields) BY <3>1, <3>3 DEF WellFormed
    <3> HIDE DEF x, s
    <3> QED BY <3>1, <3>2, <3>3, <3>4 DEF StdIxs
  <2>4. I \in SUBSET DOMAIN s OBVIOUS
  <2>7. ASSUME NEW i \in I PROVE \E t \in heads : Holds(s[i], t, F.indx[t])
    <3> DEFINE t == i - 1
    <3>1. i \in 1 .. NumStreams /\ t \in Streams BY <2>1 DEF Streams
    <3> DEFINE x == F.indx[t]
               y == s[i]
    <3>2. y = [trk |-> t, base |-> x.base, kind |-> x.kind, ents |-> x.ents] BY <3>1
    <3>3. y.kind = "std" OBVIOUS
    <3>4. Holds(y, t, x) /\ x.kind = "std"
      <4> HIDE DEF y, x, t
      <4> QED BY <3>2, <3>3 DEF Holds
    <3> HIDE DEF s, t
    <3> QED BY <3>1, <3>4
  <2>8. ASSUME NEW t \in heads PROVE \E i \in I : Holds(s[i], t, F.indx[t])
    <3> DEFINE i == t + 1
               x == F.indx[t]
               y == s[i]
    <3>1. i \in 1 .. NumStreams /\ i - 1 = t BY <2>1 DEF Streams
    <3>2. y = [trk |-> t, base |-> x.base, kind |-> x.kind, ents |-> x.ents] BY <3>1
    <3>3. Holds(y, t, x) /\ y.kind = x.kind
      <4> HIDE DEF y, x, i
      <4> QED BY <3>2 DEF Holds
    <3>4. i \in DOMAIN s BY <3>1
    <3>5. i \in I BY <3>3, <3>4
    <3> HIDE DEF s, i, I
    <3> QED BY <3>3, <3>5
  <2> HIDE DEF s, X, I, heads
  <2>5. s \in Seq(X) BY <2>1, <2>2, FunctionIsSeq
  <2>6. /\ At(s, I) \in Seq(Y)
        /\ \A i \in I : \E n \in DOMAIN At(s, I) : At(s, I)[n] = s[i]
    BY <2>4, <2>5, KeptFacts
  <2>9. \A x \in Range(At(s, I)) : \E i \in I : x = s[i]
    <3>1. \A n \in DOMAIN At(s, I) : At(s, I)[n] \in Y BY <2>6, LenProperties, ElementOfSeq
    <3> QED BY <3>1 DEF Range
  <2>10. \A i \in I : s[i] \in Range(At(s, I)) BY <2>6 DEF Range
  <2> HIDE DEF Y
  <2>11. At(s, I) \in Seq(StdIxs) BY <2>3, <2>6, SeqMonotonic
  <2> QED BY <2>7, <2>8, <2>9, <2>10, <2>11
<1>3. /\ found \in Seq(StdIxs)
      /\ \A x \in Range(found) : \E at \in Range(chunks) : Holds(x, F.disk[at].trk, F.disk[at])
      /\ \A at \in Range(chunks) : \E x \in Range(found) : Holds(x, F.disk[at].trk, F.disk[at])
  <2> DEFINE X == {at \in DOMAIN F.disk : F.disk[at].id = "ix"}
             n == Len(chunks)
  <2>1. chunks \in Seq(X) BY IxScanType, EmptySeq
  <2> HIDE DEF chunks
  <2>2. n \in Nat /\ DOMAIN chunks = 1 .. n /\ \A i \in 1 .. n : chunks[i] \in X
    BY <2>1, LenProperties, ElementOfSeq
  <2>3. \A at \in X : /\ F.disk[at].trk \in Int /\ F.disk[at].base \in Nat
                      /\ F.disk[at].ents \in Seq(IxFields)
    BY DEF WellFormed
  <2> HIDE DEF X, n
  <2>4. found \in [1 .. n -> StdIxs] BY <2>2, <2>3 DEF StdIxs
  <2>5. ASSUME NEW i \in 1 .. n
        PROVE  Holds(found[i], F.disk[chunks[i]].trk, F.disk[chunks[i]])
    <3> DEFINE y == F.disk[chunks[i]]
               x == found[i]
    <3>1. x = [trk |-> y.trk, base |-> y.base, kind |-> "std", ents |-> y.ents]
      BY <2>2
    <3> HIDE DEF x, y
    <3>2. Holds(x, y.trk, y) BY <3>1 DEF Holds
    <3> QED BY <3>2 DEF x, y
  <2>6. DOMAIN found = 1 .. n BY <2>2
  <2> HIDE DEF found
  <2>7. found \in Seq(StdIxs) BY <2>2, <2>4, FunctionIsSeq
  <2>8. \A at \in Range(chunks) : \E i \in 1 .. n : at = chunks[i] BY <2>2 DEF Range
  <2>9. \A i \in 1 .. n : chunks[i] \in Range(chunks) /\ found[i] \in Range(found)
    BY <2>2, <2>6 DEF Range
  <2>10. \A x \in Range(found) : \E i \in 1 .. n : x = found[i] BY <2>6 DEF Range
  <2> QED BY <2>5, <2>7, <2>8, <2>9, <2>10
<1>4. Range(chunks) = IF WantIxScan(F, movi) THEN Range(ScanIxInMovi(F, movi)) ELSE {}
  <2>1. Range(<<>>) = {} BY DEF Range
  <2> QED BY <2>1
<1> HIDE DEF s, found, I, chunks, heads
<1>5. /\ At(s, I) \o found \in Seq(StdIxs)
      /\ Range(At(s, I) \o found) = Range(At(s, I)) \cup Range(found)
  BY <1>2, <1>3, ConcatProperties, RangeConcatenation
<1> QED BY <1>1, <1>2, <1>3, <1>4, <1>5 DEF heads

\* Entry e is number i of standard index x.
ReadIx(x, i, e) ==
  /\ i \in DOMAIN x.ents
  /\ e.trk = x.trk /\ e.off = x.base + x.ents[i].off - 8
  /\ e.len = x.ents[i].len /\ e.key = x.ents[i].key

\* The entries of the standard indexes.
LEMMA StdEntriesFlat ==
  ASSUME NEW std \in Seq(StdIxs)
  PROVE  \E s \in Seq(RawEntries) :
           /\ StdEntries(std) = WithPts(s)
           /\ \A n \in DOMAIN s : \E x \in Range(std), i \in Nat : ReadIx(x, i, s[n])
           /\ \A x \in Range(std) : \A i \in DOMAIN x.ents :
                \E n \in DOMAIN s : ReadIx(x, i, s[n])
<1> DEFINE each(n) == [i \in DOMAIN std[n].ents |->
                         [id |-> "data", trk |-> std[n].trk, key |-> std[n].ents[i].key,
                          off |-> StdOffset(std[n], i), len |-> std[n].ents[i].len]]
           ss == [n \in DOMAIN std |-> each(n)]
<1>1. DOMAIN std = 1 .. Len(std) /\ Len(std) \in Nat BY LenProperties
<1>2. ASSUME NEW n \in 1 .. Len(std)
      PROVE  /\ each(n) \in Seq(RawEntries)
             /\ \A e \in Range(each(n)) : \E i \in Nat : ReadIx(std[n], i, e)
             /\ \A i \in DOMAIN std[n].ents : \E e \in Range(each(n)) : ReadIx(std[n], i, e)
  <2>1. std[n] \in StdIxs BY ElementOfSeq
  <2> DEFINE x == std[n]
             e == x.ents
             k == Len(e)
  <2>2. x.trk \in Int /\ x.base \in Nat /\ e \in Seq(IxFields) BY <2>1 DEF StdIxs
  <2> HIDE DEF x
  <2> HIDE DEF e
  <2>3. k \in Nat /\ DOMAIN e = 1 .. k /\ \A i \in 1 .. k : e[i] \in IxFields
    BY <2>2, LenProperties, ElementOfSeq
  <2> HIDE DEF k
  <2>4. each(n) = [i \in 1 .. k |->
                     [id |-> "data", trk |-> x.trk, key |-> e[i].key,
                      off |-> x.base + e[i].off - 8, len |-> e[i].len]]
    BY <2>3 DEF StdOffset, x, e
  <2>5. each(n) \in [1 .. k -> RawEntries]
    <3>1. ASSUME NEW i \in 1 .. k
          PROVE  [id |-> "data", trk |-> x.trk, key |-> e[i].key,
                  off |-> x.base + e[i].off - 8, len |-> e[i].len] \in RawEntries
      <4>1. /\ e[i].key \in BOOLEAN /\ e[i].off \in Nat /\ e[i].len \in Nat
        BY <2>3 DEF IxFields
      <4>2. x.base + e[i].off - 8 \in Int
        <5> DEFINE p == x.base
                   o == e[i].off
        <5>1. p \in Nat /\ o \in Nat BY <2>2, <4>1
        <5> HIDE DEF p, o
        <5>2. p + o - 8 \in Int BY <5>1
        <5> QED BY <5>2 DEF p, o
      <4> DEFINE t == x.trk
                 b == e[i].key
                 o == x.base + e[i].off - 8
                 l == e[i].len
      <4>3. t \in Int /\ b \in BOOLEAN /\ o \in Int /\ l \in Nat BY <2>2, <4>1, <4>2
      <4> HIDE DEF t, b, o, l
      <4>4. "data" \in Ids BY DEF Ids
      <4>5. [id |-> "data", trk |-> t, key |-> b, off |-> o, len |-> l] \in RawEntries
        BY <4>3, <4>4, Zenon DEF RawEntries
      <4> QED BY <4>5 DEF t, b, o, l
    <3> HIDE DEF each
    <3> QED BY <2>4, <3>1
  <2>6. ASSUME NEW i \in 1 .. k PROVE ReadIx(std[n], i, each(n)[i])
    <3>1. each(n)[i] = [id |-> "data", trk |-> x.trk, key |-> e[i].key,
                        off |-> x.base + e[i].off - 8, len |-> e[i].len]
      <4> HIDE DEF each
      <4> QED BY <2>4
    <3>2. i \in DOMAIN e BY <2>3
    <3> HIDE DEF each
    <3> QED BY <3>1, <3>2 DEF ReadIx, x, e
  <2> HIDE DEF each
  <2>7. DOMAIN each(n) = 1 .. k BY <2>5
  <2>8. each(n) \in Seq(RawEntries) BY <2>3, <2>5, FunctionIsSeq
  <2>9. \A y \in Range(each(n)) : \E i \in Nat : ReadIx(std[n], i, y)
    BY <2>3, <2>6, <2>7 DEF Range
  <2>10. \A i \in 1 .. k : \E y \in Range(each(n)) : ReadIx(std[n], i, y)
    BY <2>6, <2>7 DEF Range
  <2> QED BY <2>3, <2>8, <2>9, <2>10 DEF x, e
<1>3. ss \in Seq(Seq(RawEntries))
  <2> DEFINE V == Seq(RawEntries)
             k == Len(std)
  <2>1. ss \in [1 .. k -> V] BY <1>1, <1>2
  <2>2. k \in Nat BY <1>1
  <2> HIDE DEF V, ss, k
  <2>3. ss \in Seq(V) BY <2>1, <2>2, FunctionIsSeq
  <2> QED BY <2>3 DEF V
<1>4. StdEntries(std) = WithPts(FlattenSeq(ss)) BY DEF StdEntries
<1>6. DOMAIN ss = 1 .. Len(std) /\ \A n \in 1 .. Len(std) : ss[n] = each(n) BY <1>1
<1> HIDE DEF ss, each
<1> DEFINE s == FlattenSeq(ss)
<1>5. s \in Seq(RawEntries) /\ Range(s) = UNION {Range(ss[n]) : n \in DOMAIN ss}
  BY <1>3, FlattenFacts
<1> HIDE DEF s
<1>7. ASSUME NEW n \in DOMAIN s PROVE \E x \in Range(std), i \in Nat : ReadIx(x, i, s[n])
  <2>1. s[n] \in Range(s) BY DEF Range
  <2>2. PICK k \in 1 .. Len(std) : s[n] \in Range(each(k)) BY <1>5, <1>6, <2>1
  <2>3. PICK i \in Nat : ReadIx(std[k], i, s[n]) BY <1>2, <2>2
  <2>4. std[k] \in Range(std) BY <1>1 DEF Range
  <2> QED BY <2>3, <2>4
<1>8. ASSUME NEW x \in Range(std), NEW i \in DOMAIN x.ents
      PROVE  \E n \in DOMAIN s : ReadIx(x, i, s[n])
  <2>1. PICK k \in 1 .. Len(std) : x = std[k] BY <1>1 DEF Range
  <2>2. PICK e \in Range(each(k)) : ReadIx(x, i, e) BY <1>2, <2>1
  <2>3. e \in Range(s) BY <1>5, <1>6, <2>2
  <2> QED BY <2>2, <2>3 DEF Range
<1> QED BY <1>4, <1>5, <1>7, <1>8 DEF s

\* The table of the standard indexes is a table of their entries.
LEMMA StdTableType ==
  ASSUME NEW F, WellFormed(F)
  PROVE  LET T == StdTable(F)
             std == StdIndexes(F, MoviSegments(F))
         IN /\ T \in Tables
            /\ \A n \in DOMAIN T : \E x \in Range(std), i \in Nat : ReadIx(x, i, T[n])
            /\ \A x \in Range(std) : \A i \in DOMAIN x.ents : x.trk \in Streams =>
                 \E n \in DOMAIN T : ReadIx(x, i, T[n])
<1> DEFINE std == StdIndexes(F, MoviSegments(F))
           T == StdTable(F)
<1>1. std \in Seq(StdIxs)
  <2>1. MoviSegments(F) \in Segments BY SegmentsApart
  <2> QED BY <2>1, StdIndexesType
<1> HIDE DEF std
<1>2. PICK s \in Seq(RawEntries) :
        /\ StdEntries(std) = WithPts(s)
        /\ \A n \in DOMAIN s : \E x \in Range(std), i \in Nat : ReadIx(x, i, s[n])
        /\ \A x \in Range(std) : \A i \in DOMAIN x.ents :
             \E n \in DOMAIN s : ReadIx(x, i, s[n])
  BY <1>1, StdEntriesFlat
<1> DEFINE w == WithPts(s)
<1>3. T = At(w, Owned(s))
  BY <1>2 DEF StdTable, Kept, At, Owned, std
<1> HIDE DEF T
<1>4. /\ T \in Tables
      /\ \A n \in DOMAIN T : \E i \in Owned(s) : T[n] = w[i]
      /\ \A i \in Owned(s) : \E n \in DOMAIN T : T[n] = w[i]
  BY <1>3, KeptOfTable
<1>5. /\ DOMAIN w = DOMAIN s
      /\ \A i \in DOMAIN w : /\ w[i].trk = s[i].trk /\ w[i].key = s[i].key
                             /\ w[i].off = s[i].off /\ w[i].len = s[i].len
  BY StampedEntries, LenProperties
<1>6. \A i \in DOMAIN w : i \in Owned(s) <=> w[i].trk \in Streams BY DEF Owned
<1> HIDE DEF w
<1>7. \A x, i : \A n \in DOMAIN s : ReadIx(x, i, s[n]) <=> ReadIx(x, i, w[n])
  BY <1>5 DEF ReadIx
<1>8. \A i \in Owned(s) : i \in DOMAIN s BY <1>5 DEF Owned, w
<1>9. ASSUME NEW n \in DOMAIN T PROVE \E x \in Range(std), i \in Nat : ReadIx(x, i, T[n])
  <2>1. PICK j \in Owned(s) : T[n] = w[j] BY <1>4
  <2>2. PICK x \in Range(std), i \in Nat : ReadIx(x, i, s[j]) BY <1>2, <1>8
  <2> QED BY <1>7, <1>8, <2>1, <2>2
<1>10. ASSUME NEW x \in Range(std), NEW i \in DOMAIN x.ents, x.trk \in Streams
       PROVE  \E n \in DOMAIN T : ReadIx(x, i, T[n])
  <2>1. PICK j \in DOMAIN s : ReadIx(x, i, s[j]) BY <1>2
  <2>2. ReadIx(x, i, w[j]) BY <1>7, <2>1
  <2>3. j \in Owned(s) BY <1>5, <1>6, <1>10, <2>2 DEF ReadIx
  <2> QED BY <1>4, <2>2, <2>3
<1> QED BY <1>4, <1>9, <1>10 DEF T, std

-----------------------------------------------------------------------------
(* The states of the reader                                                *)

\* Where open_avi finds the palette changes.
PositionsOf(F) == ComputePaletteChangePositions(RawIdx1(F))

\* Answers: a packet is a data chunk of its stream that stands in a segment with
\* its whole body, flagged as the tables say.
PacketsIn(F) ==
  {a \in UNION {[kind : {"packet"}, trk : {t},
                 at : Standing(F, MoviSegments(F), {"data"}, t),
                 key : BOOLEAN, pts : Nat] : t \in Streams} :
     a.key = KeyframeAt(IdxOf(F), StdTable(F), a.at)}
Landings == [kind : {"landed"}, trk : Int, pts : Nat, gap : Int]
Answers(F) == {Nothing, Eof, Refused, IoError} \cup PacketsIn(F) \cup Landings

Readers(F) ==
  [open : {TRUE}, movi : {MoviSegments(F)}, idx : {IdxOf(F)}, std : {StdTable(F)},
   eager : BOOLEAN, counts : [SideIds -> [Streams -> Nat]],
   bodies : [SideIds -> [Streams -> Seq(Int)]], positions : {PositionsOf(F)},
   notime : {F.notime}, seg : Nat, pos : Nat, counter : [Streams -> Nat],
   got : Answers(F)]

\* The reader stands in its segment or just behind it: a form type may reach
\* over the end.
InPlace(r) ==
  /\ r.seg \in 1 .. Len(r.movi) + 1
  /\ r.seg <= Len(r.movi) => /\ r.movi[r.seg].from <= r.pos
                             /\ r.pos <= r.movi[r.seg].to + 11

Good(F) == {r \in Readers(F) : InPlace(r)}

\* The side-band counts are numbers.
LEMMA CountsType ==
  ASSUME NEW raw \in Seq(Idx1Fields)
  PROVE  ScanIdx1SidebandCounts(raw) \in [SideIds -> [Streams -> Nat]]
<1>1. ASSUME NEW k \in SideIds, NEW t \in Streams
      PROVE  Cardinality({i \in DOMAIN raw : raw[i].id = k /\ raw[i].trk = t}) \in Nat
  <2>1. DOMAIN raw = 1 .. Len(raw) /\ Len(raw) \in Nat BY LenProperties
  <2>2. IsFiniteSet(1 .. Len(raw)) BY <2>1, FS_Interval
  <2>3. IsFiniteSet({i \in DOMAIN raw : raw[i].id = k /\ raw[i].trk = t})
    BY <2>1, <2>2, FS_Subset
  <2> QED BY <2>3, FS_CardinalityType
<1> QED BY <1>1 DEF ScanIdx1SidebandCounts

\* The side-band bodies are offsets.
LEMMA BodiesType ==
  ASSUME NEW F, WellFormed(F), NEW raw \in Seq(Idx1Fields), NEW movi \in Nat
  PROVE  ReadSidebandDataFromIdx1(F, raw, movi) \in [SideIds -> [Streams -> Seq(Int)]]
<1> DEFINE base == Idx1Base(F, raw, movi)
           readable(e) == base + e.off + 8 + e.len <= F.len
           I(k, t) == {i \in DOMAIN raw : raw[i].id = k /\ raw[i].trk = t /\ readable(raw[i])}
           places(own) == [i \in DOMAIN own |-> base + own[i].off]
<1>1. base \in Int BY DEF Idx1Base
<1>2. ReadSidebandDataFromIdx1(F, raw, movi) =
        [k \in SideIds |-> [t \in Streams |-> places(At(raw, I(k, t)))]]
  BY DEF ReadSidebandDataFromIdx1, Kept, At
<1> HIDE DEF base
<1>3. ASSUME NEW k \in SideIds, NEW t \in Streams PROVE places(At(raw, I(k, t))) \in Seq(Int)
  <2> DEFINE J == I(k, t)
             X == {raw[i] : i \in J}
             own == At(raw, J)
             n == Len(own)
  <2>1. J \in SUBSET DOMAIN raw OBVIOUS
  <2>2. \A e \in X : e.off \in Int
    <3>1. \A i \in DOMAIN raw : raw[i] \in Idx1Fields BY LenProperties, ElementOfSeq
    <3> QED BY <3>1 DEF Idx1Fields
  <2> HIDE DEF J
  <2>3. own \in Seq(X) BY <2>1, KeptFacts
  <2> HIDE DEF X, own
  <2>4. n \in Nat /\ DOMAIN own = 1 .. n /\ \A i \in 1 .. n : own[i] \in X
    BY <2>3, LenProperties, ElementOfSeq
  <2>5. places(own) \in [1 .. n -> Int] BY <1>1, <2>2, <2>4
  <2>6. places(own) \in Seq(Int) BY <2>4, <2>5, FunctionIsSeq
  <2> QED BY <2>6 DEF own, J
<1> HIDE DEF I, places
<1> QED BY <1>2, <1>3

\* open_avi leaves the reader at the start of the first segment.
LEMMA OpenGood ==
  ASSUME NEW F, WellFormed(F)
  PROVE  Open(F) = Closed \/ (Open(F) \in Good(F) /\ Open(F).got = Nothing)
<1> DEFINE movi == MoviSegments(F)
           raw == RawIdx1(F)
           base == movi[1].from
<1>1. movi \in Segments /\ Apart(movi, F.len) BY SegmentsApart
<1>2. raw \in Seq(Idx1Fields) BY RawIdx1Type
<1>3. SUFFICES ASSUME Open(F) # Closed PROVE Open(F) \in Good(F) /\ Open(F).got = Nothing
  OBVIOUS
<1>4. movi # <<>> BY <1>3 DEF Open
<1>5. Len(movi) \in Nat \ {0} /\ DOMAIN movi = 1 .. Len(movi)
  BY <1>1, <1>4, EmptySeq, LenProperties DEF Segments
<1>6. base \in Nat /\ base <= movi[1].to + 11
  <2>1. 1 \in DOMAIN movi BY <1>5
  <2>2. movi[1] \in [from : Nat, to : Nat] BY <1>1, <1>5, <2>1, ElementOfSeq DEF Segments
  <2> QED BY <1>1, <2>1, <2>2 DEF Apart
<1> DEFINE r == [ open |-> TRUE, movi |-> movi, idx |-> IdxOf(F), std |-> StdTable(F),
                  eager |-> HasIdx1(F), counts |-> ScanIdx1SidebandCounts(raw),
                  bodies |-> ReadSidebandDataFromIdx1(F, raw, base),
                  positions |-> PositionsOf(F), notime |-> F.notime,
                  seg |-> 1, pos |-> base, counter |-> [t \in Streams |-> 0],
                  got |-> Nothing ]
<1>7. Open(F) = r BY <1>3 DEF Open, IdxOf, StdTable, PositionsOf
<1>8. HasIdx1(F) \in BOOLEAN BY DEF HasIdx1
<1>9. ScanIdx1SidebandCounts(raw) \in [SideIds -> [Streams -> Nat]] BY <1>2, CountsType
<1>10. ReadSidebandDataFromIdx1(F, raw, base) \in [SideIds -> [Streams -> Seq(Int)]]
  BY <1>2, <1>6, BodiesType
<1>11. [t \in Streams |-> 0] \in [Streams -> Nat] OBVIOUS
<1>12. Nothing \in Answers(F) BY DEF Answers
<1>13. r \in Readers(F) /\ r.got = Nothing
  <2> DEFINE b == base
             e == HasIdx1(F)
             c == ScanIdx1SidebandCounts(raw)
             s == ReadSidebandDataFromIdx1(F, raw, base)
             z == [t \in Streams |-> 0]
  <2>1. /\ b \in Nat /\ e \in BOOLEAN /\ c \in [SideIds -> [Streams -> Nat]]
        /\ s \in [SideIds -> [Streams -> Seq(Int)]] /\ z \in [Streams -> Nat]
    BY <1>6, <1>8, <1>9, <1>10, <1>11
  <2> HIDE DEF b, e, c, s, z
  <2>2. r = [ open |-> TRUE, movi |-> MoviSegments(F), idx |-> IdxOf(F), std |-> StdTable(F),
              eager |-> e, counts |-> c, bodies |-> s, positions |-> PositionsOf(F),
              notime |-> F.notime, seg |-> 1, pos |-> b, counter |-> z, got |-> Nothing ]
    BY DEF b, e, c, s, z
  <2> HIDE DEF r
  <2> QED BY <1>12, <2>1, <2>2 DEF Readers
<1>14. InPlace(r) BY <1>5, <1>6 DEF InPlace
<1> HIDE DEF r
<1> QED BY <1>7, <1>13, <1>14 DEF Good

-----------------------------------------------------------------------------
(* next_packet                                                             *)

\* One turn of its loop takes the reader from r to q: forward, and to a packet
\* only over its chunk.
Turn(F, r, q) ==
  /\ q \in Good(F)
  /\ r.pos <= q.pos
  /\ q.got = Nothing => \/ q.seg = r.seg /\ r.pos \in DOMAIN F.disk /\ r.pos < q.pos
                        \/ q.seg = r.seg + 1
  /\ q.got.kind = "packet" => r.pos <= q.got.at /\ q.got.at < q.pos
  /\ q.got.kind # "landed"

\* The fields of a reader.
LEMMA ReaderFields ==
  ASSUME NEW F, WellFormed(F), NEW r \in Good(F)
  PROVE  /\ r \in Readers(F) /\ r.movi = MoviSegments(F) /\ r.movi \in Segments
         /\ Apart(r.movi, F.len)
         /\ Len(r.movi) \in Nat /\ DOMAIN r.movi = 1 .. Len(r.movi)
         /\ \A i \in DOMAIN r.movi : r.movi[i].from \in Nat /\ r.movi[i].to \in Nat
         /\ r.seg \in Nat /\ r.pos \in Nat /\ r.seg \in 1 .. Len(r.movi) + 1
         /\ r.counter \in [Streams -> Nat]
         /\ r.idx = IdxOf(F) /\ r.std = StdTable(F)
<1>1. r \in Readers(F) /\ InPlace(r) BY DEF Good
<1>2. r.movi = MoviSegments(F) BY <1>1 DEF Readers
<1>3. r.movi \in Segments /\ Apart(r.movi, F.len) BY <1>2, SegmentsApart
<1>4. Len(r.movi) \in Nat /\ DOMAIN r.movi = 1 .. Len(r.movi)
  BY <1>3, LenProperties DEF Segments
<1>5. \A i \in DOMAIN r.movi : r.movi[i] \in [from : Nat, to : Nat]
  BY <1>3, <1>4, ElementOfSeq DEF Segments
<1>6. /\ r.seg \in Nat /\ r.pos \in Nat /\ r.counter \in [Streams -> Nat]
      /\ r.idx = IdxOf(F) /\ r.std = StdTable(F)
  BY <1>1 DEF Readers
<1>7. r.seg \in 1 .. Len(r.movi) + 1 BY <1>1 DEF InPlace
<1> QED BY <1>1, <1>2, <1>3, <1>4, <1>5, <1>6, <1>7

\* What a call may change keeps the reader one of the file.
LEMMA Updated ==
  ASSUME NEW F, NEW r \in Readers(F), NEW seg \in Nat, NEW pos \in Nat,
         NEW counter \in [Streams -> Nat], NEW got \in Answers(F),
         NEW counts \in [SideIds -> [Streams -> Nat]],
         NEW bodies \in [SideIds -> [Streams -> Seq(Int)]]
  PROVE  [r EXCEPT !.seg = seg, !.pos = pos, !.counter = counter, !.counts = counts,
                   !.bodies = bodies, !.got = got] \in Readers(F)
BY DEF Readers

\* A reader that has only been moved is a reader of the file.
LEMMA Moved ==
  ASSUME NEW F, NEW r \in Readers(F), NEW seg \in Nat, NEW pos \in Nat, NEW got \in Answers(F)
  PROVE  LET q == [r EXCEPT !.seg = seg, !.pos = pos, !.got = got] IN
         /\ q \in Readers(F)
         /\ q.seg = seg /\ q.pos = pos /\ q.got = got /\ q.movi = r.movi
BY DEF Readers

\* The plain answers differ, and none is a packet or a landing.
LEMMA AnswersPlain ==
  ASSUME NEW F
  PROVE  /\ {Nothing, Eof, Refused, IoError} \subseteq Answers(F)
         /\ Eof # Nothing /\ Refused # Nothing /\ IoError # Nothing
         /\ \A a \in {Nothing, Eof, Refused, IoError} : a.kind # "packet" /\ a.kind # "landed"
BY DEF Answers, Nothing, Eof, Refused, IoError

\* The turn that leaves a segment.
LEMMA LeaveSegmentTurn ==
  ASSUME NEW F, WellFormed(F), NEW r \in Good(F), r.got = Nothing,
         r.seg <= Len(r.movi), r.pos >= r.movi[r.seg].to
  PROVE  Turn(F, r, LeaveSegment(r))
<1> DEFINE n == r.seg + 1
<1>1. r \in Readers(F) /\ r.seg \in DOMAIN r.movi /\ r.pos \in Nat /\ n \in Nat
  BY ReaderFields
<1>2. InPlace(r) BY DEF Good
<1>3. CASE n <= Len(r.movi)
  <2> DEFINE q == [r EXCEPT !.seg = n, !.pos = r.movi[n].from]
  <2>1. n \in DOMAIN r.movi BY <1>1, <1>3, ReaderFields
  <2>2. r.movi[n].from \in Nat /\ r.movi[n].to \in Nat /\ r.movi[r.seg].to \in Nat
    BY <1>1, <2>1, ReaderFields
  <2>3. LeaveSegment(r) = q BY <1>3 DEF LeaveSegment
  <2>4. /\ q \in Readers(F) /\ q.seg = n /\ q.pos = r.movi[n].from /\ q.got = Nothing
        /\ q.movi = r.movi
    BY <1>1, <2>2 DEF Readers
  <2>5. r.movi[r.seg].to + 12 <= r.movi[n].from /\ r.movi[n].from <= r.movi[n].to + 11
    <3>1. Apart(r.movi, F.len) BY ReaderFields
    <3>2. r.seg < n BY <1>1, ReaderFields
    <3> HIDE DEF n
    <3> QED BY <1>1, <2>1, <3>1, <3>2 DEF Apart
  <2>6. r.pos <= q.pos
    <3>1. r.pos <= r.movi[r.seg].to + 11 BY <1>2 DEF InPlace
    <3> DEFINE a == r.pos
               b == r.movi[r.seg].to
               c == r.movi[n].from
    <3>2. a \in Nat /\ b \in Nat /\ c \in Nat /\ a <= b + 11 /\ b + 12 <= c
      BY <1>1, <2>2, <2>5, <3>1
    <3> HIDE DEF a, b, c
    <3>3. a <= c BY <3>2
    <3> QED BY <2>4, <3>3 DEF a, c
  <2>7. InPlace(q)
    <3>1. n \in 1 .. Len(r.movi) + 1 BY <1>1, <1>3, ReaderFields
    <3> HIDE DEF q, n
    <3> QED BY <2>2, <2>4, <2>5, <3>1 DEF InPlace
  <2> HIDE DEF q, n
  <2>8. q.got.kind # "packet" /\ q.got.kind # "landed" BY <2>4, AnswersPlain
  <2> QED BY <2>3, <2>4, <2>6, <2>7, <2>8 DEF Turn, Good, n
<1>4. CASE ~(n <= Len(r.movi))
  <2> DEFINE q == [r EXCEPT !.seg = n, !.got = Eof]
  <2>1. LeaveSegment(r) = q BY <1>4 DEF LeaveSegment
  <2>2. /\ Eof \in Answers(F) /\ Eof # Nothing
        /\ Eof.kind # "packet" /\ Eof.kind # "landed"
    BY AnswersPlain
  <2>3. q \in Readers(F) /\ q.seg = n /\ q.got = Eof /\ q.movi = r.movi /\ q.pos = r.pos
    BY <1>1, <2>2 DEF Readers
  <2>4. InPlace(q)
    <3>1. n \in 1 .. Len(r.movi) + 1 /\ ~(n <= Len(r.movi)) BY <1>1, <1>4, ReaderFields
    <3> HIDE DEF q, n
    <3> QED BY <2>3, <3>1 DEF InPlace
  <2> HIDE DEF q
  <2> QED BY <1>1, <2>1, <2>2, <2>3, <2>4 DEF Turn, Good
<1> QED BY <1>3, <1>4

\* The reader stays in its segment and answers, or goes on behind the header.
LEMMA StayTurn ==
  ASSUME NEW F, WellFormed(F), NEW r \in Good(F), r.seg <= Len(r.movi),
         NEW pos \in Nat, r.pos <= pos, pos <= r.movi[r.seg].to + 11,
         NEW got \in {Nothing, Eof, IoError},
         got = Nothing => r.pos \in DOMAIN F.disk /\ r.pos < pos,
         NEW q \in Readers(F), q.seg = r.seg, q.pos = pos, q.got = got, q.movi = r.movi
  PROVE  Turn(F, r, q)
<1>1. InPlace(r) BY DEF Good
<1>2. /\ r.seg \in DOMAIN r.movi /\ r.pos \in Nat
      /\ r.movi[r.seg].from \in Nat /\ r.movi[r.seg].to \in Nat
  BY ReaderFields
<1>3. InPlace(q) BY <1>1, <1>2 DEF InPlace
<1>4. got.kind # "packet" /\ got.kind # "landed" BY AnswersPlain
<1> QED BY <1>3, <1>4 DEF Turn, Good

\* The searches over a table pick its first or its last index of a kind.
LEMMA SelectedIndex ==
  ASSUME NEW n \in Nat, NEW I \in SUBSET (1 .. n)
  PROVE  /\ I # {} => Min(I) \in I /\ \A i \in I : Min(I) <= i
         /\ I # {} => Max(I) \in I /\ \A i \in I : i <= Max(I)
<1> SUFFICES ASSUME I # {}
             PROVE  /\ Min(I) \in I /\ \A i \in I : Min(I) <= i
                    /\ Max(I) \in I /\ \A i \in I : i <= Max(I)
  OBVIOUS
<1>1. I \subseteq Nat /\ IsFiniteSet(I)
  <2>1. IsFiniteSet(1 .. n) BY FS_Interval
  <2>2. IsFiniteSet(I) BY <2>1, FS_Subset
  <2>3. I \subseteq Nat OBVIOUS
  <2> QED BY <2>2, <2>3
<1>2. \E m \in I : \A i \in I : m <= i BY <1>1, NatLeast
<1>3. \E m \in I : \A i \in I : i <= m BY <1>1, MostOf
<1>4. Min(I) \in I /\ \A i \in I : Min(I) =< i BY <1>2 DEF Min
<1>5. \E m \in I : \A i \in I : m >= i BY <1>1, <1>3
<1>6. Max(I) \in I /\ \A i \in I : Max(I) >= i BY <1>5 DEF Max
<1> QED BY <1>1, <1>4, <1>6

\* A keyframe flag is a truth value, whichever table it comes from.
LEMMA KeyframeAtType ==
  ASSUME NEW idx \in Tables, NEW std \in Tables, NEW at
  PROVE  KeyframeAt(idx, std, at) \in BOOLEAN
<1> DEFINE I == {i \in 1 .. Len(idx) : idx[i].off = at}
           J == {j \in 1 .. Len(std) : std[j].off = at}
           i == IF I # {} THEN Max(I) ELSE 0
           j == IF J # {} THEN Min(J) ELSE 0
<1>1. KeyframeAt(idx, std, at) =
        IF i # 0 THEN idx[i].key ELSE IF j # 0 THEN std[j].key ELSE TRUE
  BY DEF KeyframeAt, SelectLastInSeq, SelectInSeq
<1>2. Len(idx) \in Nat /\ Len(std) \in Nat BY LenProperties DEF Tables
<1>3. i # 0 => i \in 1 .. Len(idx) BY <1>2, SelectedIndex
<1>4. j # 0 => j \in 1 .. Len(std) BY <1>2, SelectedIndex
<1> HIDE DEF i, j
<1>5. /\ i # 0 => idx[i] \in Entries
      /\ j # 0 => std[j] \in Entries
  BY <1>3, <1>4, ElementOfSeq DEF Tables
<1>6. \A e \in Entries : e.key \in BOOLEAN BY DEF Entries
<1>7. CASE i # 0
  <2>1. KeyframeAt(idx, std, at) = idx[i].key BY <1>1, <1>7
  <2> QED BY <1>5, <1>6, <1>7, <2>1
<1>8. CASE i = 0 /\ j # 0
  <2>1. KeyframeAt(idx, std, at) = std[j].key BY <1>1, <1>8
  <2> QED BY <1>5, <1>6, <1>8, <2>1
<1>9. CASE i = 0 /\ j = 0
  <2>1. KeyframeAt(idx, std, at) = TRUE BY <1>1, <1>9
  <2> QED BY <2>1
<1> QED BY <1>7, <1>8, <1>9

\* The tables of a reader.
LEMMA ReaderTables ==
  ASSUME NEW F, WellFormed(F), NEW r \in Good(F), Len(r.movi) # 0
  PROVE  r.idx \in Tables /\ r.std \in Tables
<1>1. r.movi = MoviSegments(F) /\ r.idx = IdxOf(F) /\ r.std = StdTable(F) /\ 1 \in DOMAIN r.movi
  BY ReaderFields
<1>2. r.movi[1].from \in Nat BY <1>1, ReaderFields
<1>3. IdxOf(F) \in Tables
  <2>1. RawIdx1(F) \in Seq(Idx1Fields) BY RawIdx1Type
  <2>2. MoviSegments(F)[1].from \in Nat BY <1>1, <1>2
  <2> QED BY <2>1, <2>2, IdxTable DEF IdxOf
<1> QED BY <1>1, <1>3, StdTableType

\* The turn that takes a chunk: side-band, packet or neither.
LEMMA TakeChunkTurn ==
  ASSUME NEW F, WellFormed(F), NEW r \in Good(F), r.got = Nothing,
         r.seg <= Len(r.movi), r.pos < r.movi[r.seg].to, r.pos \in DOMAIN F.disk,
         r.pos + 8 + F.disk[r.pos].len <= r.movi[r.seg].to
  PROVE  Turn(F, r, TakeChunk(F, r))
<1> DEFINE c == F.disk[r.pos]
           k == c.id
           t == c.trk
           n == r.pos + 8 + Even(c.len)
           x == r.counter[t] + TimeDelta(t, c.len)
           counts == [r.counts EXCEPT ![k][t] = @ + 1]
           bodies == [r.bodies EXCEPT ![k][t] = IF r.eager THEN @ ELSE Append(@, r.pos)]
           counter == [r.counter EXCEPT ![t] = x]
           got == PacketOf(t, r.pos, KeyframeAt(r.idx, r.std, r.pos), r.counter[t])
<1>1. /\ r \in Readers(F) /\ r.pos \in Nat /\ r.seg \in DOMAIN r.movi
      /\ r.movi[r.seg].to \in Nat /\ r.movi[r.seg].from \in Nat
      /\ r.counter \in [Streams -> Nat] /\ r.movi = MoviSegments(F)
      /\ Len(r.movi) # 0
  BY ReaderFields
<1>2. InPlace(r) BY DEF Good
<1>3. c.len \in Nat /\ Even(c.len) \in Nat /\ Even(c.len) <= c.len + 1
  <2>1. c.len \in Nat /\ c.len % 2 \in 0 .. 1 BY CellFacts
  <2> HIDE DEF c
  <2> QED BY <2>1 DEF Even
<1>4. n \in Nat /\ r.pos < n /\ n <= r.movi[r.seg].to + 11
  <2> DEFINE b == r.movi[r.seg].to
             p == r.pos
             l == c.len
             e == Even(c.len)
  <2>1. /\ b \in Nat /\ p \in Nat /\ l \in Nat /\ e \in Nat /\ e <= l + 1
        /\ p + 8 + l <= b
    BY <1>1, <1>3
  <2>2. n = p + 8 + e OBVIOUS
  <2> HIDE DEF b, p, l, e, n
  <2>3. n \in Nat /\ p < n /\ n <= b + 11 BY <2>1, <2>2
  <2> QED BY <2>3 DEF b, p
<1> HIDE DEF c, n
<1>5. CASE t \in Streams /\ k \in SideIds
  <2> DEFINE q == [r EXCEPT !.seg = r.seg, !.pos = n, !.counter = r.counter,
                            !.counts = counts, !.bodies = bodies, !.got = Nothing]
  <2>1. TakeChunk(F, r) = [TakeSideband(r, c) EXCEPT !.pos = n]
    BY <1>5 DEF TakeChunk, c, n
  <2>2. /\ r.counts \in [SideIds -> [Streams -> Nat]]
        /\ r.bodies \in [SideIds -> [Streams -> Seq(Int)]]
    BY <1>1 DEF Readers
  <2>3. counts \in [SideIds -> [Streams -> Nat]]
    <3> DEFINE m == r.counts[k][t] + 1
    <3>1. m \in Nat BY <1>5, <2>2
    <3>2. counts = [r.counts EXCEPT ![k][t] = m] OBVIOUS
    <3> HIDE DEF m, counts
    <3> QED BY <1>5, <2>2, <3>1, <3>2
  <2>4. bodies \in [SideIds -> [Streams -> Seq(Int)]]
    <3> DEFINE b == IF r.eager THEN r.bodies[k][t] ELSE Append(r.bodies[k][t], r.pos)
    <3>1. r.bodies[k][t] \in Seq(Int) /\ r.pos \in Int BY <1>1, <1>5, <2>2
    <3>2. b \in Seq(Int) BY <3>1, AppendProperties
    <3>3. bodies = [r.bodies EXCEPT ![k][t] = b] OBVIOUS
    <3> HIDE DEF b, bodies
    <3> QED BY <1>5, <2>2, <3>2, <3>3
  <2> HIDE DEF counts, bodies
  <2>5. TakeChunk(F, r) = q
    <3>1. TakeSideband(r, c) = [r EXCEPT !.counts = counts, !.bodies = bodies]
      BY DEF TakeSideband, counts, bodies
    <3>2. [[r EXCEPT !.counts = counts, !.bodies = bodies] EXCEPT !.pos = n] = q
      BY <1>1 DEF Readers
    <3> QED BY <2>1, <3>1, <3>2
  <2>6. Nothing \in Answers(F) BY AnswersPlain
  <2>7. q \in Readers(F) BY <1>1, <1>4, <2>3, <2>4, <2>6, Updated, ReaderFields
  <2>8. q.seg = r.seg /\ q.pos = n /\ q.got = Nothing /\ q.movi = r.movi BY <1>1 DEF Readers
  <2> HIDE DEF q
  <2> QED BY <1>1, <1>4, <2>5, <2>7, <2>8, StayTurn, SMTT(20)
<1>6. CASE t \in Streams /\ k = "data"
  <2> DEFINE q == [r EXCEPT !.seg = r.seg, !.pos = n, !.counter = counter,
                            !.counts = r.counts, !.bodies = r.bodies, !.got = got]
  <2>1. TakeChunk(F, r) = [Deliver(r, c) EXCEPT !.pos = n]
    BY <1>6 DEF TakeChunk, SideIds, c, n
  <2>2. counter \in [Streams -> Nat]
    <3>1. TimeDelta(t, c.len) \in Nat BY <1>3, <1>6, TimeDeltaType
    <3>2. x \in Nat BY <1>1, <1>6, <3>1
    <3> HIDE DEF x
    <3> QED BY <1>1, <1>6, <3>2
  <2>3. got \in Answers(F) /\ got.kind = "packet" /\ got.at = r.pos
    <3>1. KeyframeAt(r.idx, r.std, r.pos) \in BOOLEAN BY <1>1, ReaderTables, KeyframeAtType
    <3>2. r.pos \in Standing(F, MoviSegments(F), {"data"}, t)
      <4>1. r.movi[r.seg].from <= r.pos BY <1>2 DEF InPlace
      <4>2. r.movi[r.seg].from <= r.pos /\ r.pos + 8 + F.disk[r.pos].len <= r.movi[r.seg].to
        BY <4>1
      <4> QED BY <1>1, <1>6, <4>2 DEF Standing, c
    <3>3. r.counter[t] \in Nat BY <1>1, <1>6
    <3> DEFINE b == KeyframeAt(r.idx, r.std, r.pos)
               p == r.counter[t]
               S == Standing(F, MoviSegments(F), {"data"}, t)
    <3>4. b \in BOOLEAN /\ p \in Nat /\ r.pos \in S BY <3>1, <3>2, <3>3
    <3> HIDE DEF b, p, S
    <3>5. got = [kind |-> "packet", trk |-> t, at |-> r.pos, key |-> b, pts |-> p]
      BY DEF PacketOf, b, p
    <3>6. got \in [kind : {"packet"}, trk : {t}, at : S, key : BOOLEAN, pts : Nat]
      BY <3>4, <3>5
    <3>7. got \in PacketsIn(F)
      <4>1. r.idx = IdxOf(F) /\ r.std = StdTable(F) BY ReaderFields
      <4>2. got.key = KeyframeAt(IdxOf(F), StdTable(F), r.pos) BY <3>5, <4>1 DEF b
      <4>3. got.at = r.pos BY <3>5
      <4> QED BY <1>6, <3>6, <4>2, <4>3 DEF PacketsIn, S
    <3> QED BY <3>5, <3>7 DEF Answers
  <2> HIDE DEF counter, got
  <2>4. TakeChunk(F, r) = q
    <3>1. Deliver(r, c) = [r EXCEPT !.counter = counter, !.got = got]
      BY DEF Deliver, counter, got
    <3>2. [[r EXCEPT !.counter = counter, !.got = got] EXCEPT !.pos = n] = q
      BY <1>1 DEF Readers
    <3> QED BY <2>1, <3>1, <3>2
  <2>5. /\ r.counts \in [SideIds -> [Streams -> Nat]]
        /\ r.bodies \in [SideIds -> [Streams -> Seq(Int)]]
    BY <1>1 DEF Readers
  <2>6. q \in Readers(F)
    <3>1. r.seg \in Nat BY ReaderFields
    <3> HIDE DEF q
    <3> QED BY <1>1, <1>4, <2>2, <2>3, <2>5, <3>1, Updated DEF q
  <2>7. q.seg = r.seg /\ q.pos = n /\ q.got = got /\ q.movi = r.movi BY <1>1 DEF Readers
  <2> HIDE DEF q
  <2>8. InPlace(q) BY <1>1, <1>2, <1>4, <2>7 DEF InPlace
  <2>9. got # Nothing BY <2>3, AnswersPlain
  <2> QED BY <1>1, <1>4, <2>3, <2>4, <2>6, <2>7, <2>8, <2>9 DEF Turn, Good
<1>7. CASE ~(t \in Streams /\ k \in SideIds) /\ ~(t \in Streams /\ k = "data")
  <2> DEFINE q == [r EXCEPT !.pos = n]
  <2>1. TakeChunk(F, r) = q BY <1>7 DEF TakeChunk, c, n
  <2>2. q \in Readers(F) /\ q.seg = r.seg /\ q.pos = n /\ q.got = Nothing /\ q.movi = r.movi
    BY <1>1, <1>4 DEF Readers
  <2> HIDE DEF q
  <2> QED BY <1>1, <1>4, <2>1, <2>2, StayTurn, SMTT(20)
<1> QED BY <1>5, <1>6, <1>7

\* Every turn of the loop is one of those, however it leaves.
LEMMA ReadChunkTurn ==
  ASSUME NEW F, WellFormed(F), NEW r \in Good(F), r.got = Nothing
  PROVE  Turn(F, r, ReadChunk(F, r))
<1>1. /\ r \in Readers(F) /\ r.pos \in Nat /\ r.seg \in 1 .. Len(r.movi) + 1
      /\ Len(r.movi) \in Nat /\ DOMAIN r.movi = 1 .. Len(r.movi)
      /\ \A i \in DOMAIN r.movi : r.movi[i].from \in Nat /\ r.movi[i].to \in Nat
      /\ Apart(r.movi, F.len) /\ F.len \in Nat
  BY ReaderFields DEF WellFormed
<1>2. InPlace(r) BY DEF Good
<1> DEFINE end == r.movi[r.seg].to
<1>3. CASE r.seg > Len(r.movi)
  <2> DEFINE q == [r EXCEPT !.got = Eof]
  <2>1. ReadChunk(F, r) = q BY <1>3 DEF ReadChunk
  <2>2. /\ Eof \in Answers(F) /\ Eof # Nothing
        /\ Eof.kind # "packet" /\ Eof.kind # "landed"
    BY AnswersPlain
  <2>3. q \in Readers(F) /\ q.seg = r.seg /\ q.got = Eof /\ q.movi = r.movi /\ q.pos = r.pos
    BY <1>1, <2>2 DEF Readers
  <2> HIDE DEF q
  <2>4. InPlace(q) BY <1>1, <1>2, <1>3, <2>3 DEF InPlace
  <2> QED BY <1>1, <2>1, <2>2, <2>3, <2>4 DEF Turn, Good
<1>4. CASE ~(r.seg > Len(r.movi)) /\ r.pos >= end
  <2>1. ReadChunk(F, r) = LeaveSegment(r) BY <1>4 DEF ReadChunk
  <2>2. r.seg <= Len(r.movi) BY <1>1, <1>4
  <2> QED BY <1>4, <2>1, <2>2, LeaveSegmentTurn
<1>5. CASE ~(r.seg > Len(r.movi)) /\ ~(r.pos >= end)
  <2>1. r.seg <= Len(r.movi) /\ r.seg \in DOMAIN r.movi BY <1>1, <1>5
  <2>2. end \in Nat /\ end <= F.len BY <1>1, <2>1 DEF Apart
  <2>3. r.pos < end BY <1>1, <1>5, <2>2
  <2>4. Turn(F, r, StopAfterHeader(F, r))
    <3> DEFINE p == Least({r.pos + 8, F.len})
               q == [r EXCEPT !.pos = p, !.got = Eof]
    <3>1. p \in {r.pos + 8, F.len} /\ p <= r.pos + 8
      <4> DEFINE a == r.pos + 8
                 b == F.len
      <4>1. a \in Int /\ b \in Int BY <1>1
      <4> HIDE DEF a, b
      <4>2. Least({a, b}) \in {a, b} /\ Least({a, b}) <= a BY ONLY <4>1, LeastOfTwo
      <4> QED BY <4>2 DEF a, b
    <3> HIDE DEF p
    <3>2. p \in Nat /\ r.pos <= p /\ p <= end + 11
      <4> DEFINE a == r.pos
                 b == F.len
      <4>1. a \in Nat /\ b \in Nat /\ end \in Nat /\ end <= b /\ a < end
            /\ p \in {a + 8, b} /\ p <= a + 8
        BY <1>1, <2>2, <2>3, <3>1
      <4> HIDE DEF a, b, end
      <4>2. p \in Nat /\ a <= p /\ p <= end + 11 BY <4>1
      <4> QED BY <4>2 DEF a
    <3>3. StopAfterHeader(F, r) = q BY DEF StopAfterHeader, p
    <3>4. Eof \in Answers(F) /\ Eof # Nothing BY AnswersPlain
    <3>5. q \in Readers(F) /\ q.seg = r.seg /\ q.pos = p /\ q.got = Eof /\ q.movi = r.movi
      BY <1>1, <3>2, <3>4 DEF Readers
    <3> HIDE DEF q
    <3> QED BY <2>1, <3>2, <3>3, <3>4, <3>5, StayTurn
  <2>5. CASE r.pos \notin DOMAIN F.disk
    <3>1. ReadChunk(F, r) = StopAfterHeader(F, r) BY <1>5, <2>5 DEF ReadChunk
    <3> QED BY <2>4, <3>1
  <2>6. CASE r.pos \in DOMAIN F.disk /\ F.disk[r.pos].id \in ListIds
    <3>1. ReadChunk(F, r) = EnterList(F, r) BY <1>5, <2>6 DEF ReadChunk
    <3>2. CASE FormCut(F, r.pos)
      <4> DEFINE q == [r EXCEPT !.pos = F.len, !.got = IoError]
      <4>1. EnterList(F, r) = q BY <3>2 DEF EnterList
      <4>2. r.pos + 12 > F.len BY <3>2 DEF FormCut
      <4>3. r.pos <= F.len /\ F.len <= end + 11
        <5> DEFINE a == r.pos
                   b == F.len
        <5>1. a \in Nat /\ b \in Nat /\ end \in Nat /\ end <= b /\ a < end /\ a + 12 > b
          BY <1>1, <2>2, <2>3, <4>2
        <5> HIDE DEF a, b, end
        <5>2. a <= b /\ b <= end + 11 BY <5>1
        <5> QED BY <5>2 DEF a, b
      <4>4. IoError \in Answers(F) /\ IoError # Nothing BY AnswersPlain
      <4>5. q \in Readers(F) /\ q.seg = r.seg /\ q.pos = F.len /\ q.got = IoError
            /\ q.movi = r.movi
        BY <1>1, <4>4 DEF Readers
      <4> HIDE DEF q
      <4> QED BY <1>1, <2>1, <3>1, <4>1, <4>3, <4>4, <4>5, StayTurn
    <3>3. CASE ~FormCut(F, r.pos)
      <4> DEFINE n == r.pos + 12
                 q == [r EXCEPT !.pos = n]
      <4>1. EnterList(F, r) = q BY <3>3 DEF EnterList
      <4>2. n \in Nat /\ r.pos < n /\ r.pos <= n /\ n <= end + 11
        <5> DEFINE a == r.pos
        <5>1. a \in Nat /\ end \in Nat /\ a < end BY <1>1, <2>2, <2>3
        <5>2. n = a + 12 OBVIOUS
        <5> HIDE DEF a, end, n
        <5>3. n \in Nat /\ a < n /\ n <= end + 11 BY <5>1, <5>2
        <5> QED BY <5>1, <5>3 DEF a
      <4>3. q \in Readers(F) /\ q.seg = r.seg /\ q.pos = n /\ q.got = Nothing
            /\ q.movi = r.movi
        BY <1>1, <4>2 DEF Readers
      <4> HIDE DEF q, n
      <4> QED BY <2>1, <2>6, <3>1, <4>1, <4>2, <4>3, StayTurn
    <3> QED BY <3>2, <3>3
  <2>7. CASE /\ r.pos \in DOMAIN F.disk /\ F.disk[r.pos].id \notin ListIds
             /\ r.pos + 8 + F.disk[r.pos].len > end
    <3>1. ReadChunk(F, r) = StopAfterHeader(F, r) BY <1>5, <2>7 DEF ReadChunk
    <3> QED BY <2>4, <3>1
  <2>8. CASE /\ r.pos \in DOMAIN F.disk /\ F.disk[r.pos].id \notin ListIds
             /\ ~(r.pos + 8 + F.disk[r.pos].len > end)
    <3>1. ReadChunk(F, r) = TakeChunk(F, r) BY <1>5, <2>8 DEF ReadChunk
    <3>2. r.pos + 8 + F.disk[r.pos].len <= end
      <4>1. F.disk[r.pos].len \in Nat BY <2>8, CellFacts
      <4> DEFINE l == F.disk[r.pos].len
      <4> HIDE DEF l, end
      <4> QED BY <1>1, <2>2, <2>8, <4>1 DEF l
    <3> QED BY <2>1, <2>3, <2>8, <3>1, <3>2, TakeChunkTurn
  <2> QED BY <2>5, <2>6, <2>7, <2>8
<1> QED BY <1>3, <1>4, <1>5

\* The turns a reader has left at most: the headers from its position on, and
\* the segments.
Left(F, r) ==
  Cardinality({at \in DOMAIN F.disk : r.pos <= at}) + (Len(r.movi) + 1 - r.seg)

\* What is left is a number, bounded by the headers and segments of the file.
LEMMA LeftType ==
  ASSUME NEW F, WellFormed(F), NEW r \in Good(F)
  PROVE  Left(F, r) \in Nat /\ Left(F, r) <= Cardinality(DOMAIN F.disk) + Len(r.movi)
<1> DEFINE S == {at \in DOMAIN F.disk : r.pos <= at}
<1>1. IsFiniteSet(DOMAIN F.disk) BY DEF WellFormed
<1>2. /\ Cardinality(S) \in Nat /\ Cardinality(DOMAIN F.disk) \in Nat
      /\ Cardinality(S) <= Cardinality(DOMAIN F.disk)
  <2>1. S \in SUBSET DOMAIN F.disk OBVIOUS
  <2> HIDE DEF S
  <2> QED BY <1>1, <2>1, FS_Subset, FS_CardinalityType
<1>3. r.seg \in 1 .. Len(r.movi) + 1 /\ Len(r.movi) \in Nat BY ReaderFields
<1> DEFINE m == Cardinality(S)
           k == Cardinality(DOMAIN F.disk)
           l == Len(r.movi)
           g == r.seg
<1>4. Left(F, r) = m + (l + 1 - g) BY DEF Left
<1> HIDE DEF S, m, k, l, g
<1>5. m \in Nat /\ k \in Nat /\ m <= k /\ l \in Nat /\ g \in 1 .. l + 1
  BY <1>2, <1>3 DEF m, k, l, g
<1>6. m + (l + 1 - g) \in Nat /\ m + (l + 1 - g) <= k + l BY <1>5
<1> QED BY <1>4, <1>6 DEF k, l, g

\* Every turn that gives no answer uses one up.
LEMMA TurnsEnd ==
  ASSUME NEW F, WellFormed(F), NEW r \in Good(F), NEW q, Turn(F, r, q), q.got = Nothing
  PROVE  Left(F, q) + 1 <= Left(F, r)
<1> DEFINE S == {at \in DOMAIN F.disk : r.pos <= at}
           T == {at \in DOMAIN F.disk : q.pos <= at}
<1>1. q \in Good(F) /\ r.pos <= q.pos BY DEF Turn
<1>2. /\ r.movi = q.movi /\ r.pos \in Nat /\ q.pos \in Nat
      /\ r.seg \in Nat /\ q.seg \in Nat /\ Len(r.movi) \in Nat
  BY <1>1, ReaderFields
<1>3. DOMAIN F.disk \subseteq Nat /\ IsFiniteSet(DOMAIN F.disk) BY DEF WellFormed
<1>4. T \subseteq S BY <1>1, <1>2, <1>3
<1>5. IsFiniteSet(S)
  <2>1. S \in SUBSET DOMAIN F.disk OBVIOUS
  <2> HIDE DEF S
  <2> QED BY <1>3, <2>1, FS_Subset
<1>6. Cardinality(S) \in Nat /\ Cardinality(T) \in Nat /\ Cardinality(T) <= Cardinality(S)
  <2> HIDE DEF S, T
  <2> QED BY <1>4, <1>5, FS_Subset, FS_CardinalityType
<1>7. CASE q.seg = r.seg /\ r.pos \in DOMAIN F.disk /\ r.pos < q.pos
  <2>1. r.pos \in S /\ r.pos \notin T BY <1>2, <1>7
  <2>2. Cardinality(T) # Cardinality(S)
    <3> HIDE DEF S, T
    <3> QED BY <1>4, <1>5, <2>1, FS_Subset
  <2> DEFINE m == Cardinality(S)
             n == Cardinality(T)
             l == Len(r.movi)
  <2>3. Left(F, r) = m + (l + 1 - r.seg) /\ Left(F, q) = n + (l + 1 - r.seg)
    BY <1>2, <1>7 DEF Left
  <2>4. m \in Nat /\ n \in Nat /\ n < m /\ l \in Nat /\ r.seg \in Nat BY <1>2, <1>6, <2>2
  <2> HIDE DEF m, n, l, S, T
  <2> QED BY <2>3, <2>4
<1>8. CASE q.seg = r.seg + 1
  <2> DEFINE m == Cardinality(S)
             n == Cardinality(T)
             l == Len(r.movi)
  <2>1. Left(F, r) = m + (l + 1 - r.seg) /\ Left(F, q) = n + (l + 1 - (r.seg + 1))
    BY <1>2, <1>8 DEF Left
  <2>2. m \in Nat /\ n \in Nat /\ n <= m /\ l \in Nat /\ r.seg \in Nat BY <1>2, <1>6
  <2> HIDE DEF m, n, l, S, T
  <2> QED BY <2>1, <2>2
<1> QED BY <1>7, <1>8 DEF Turn

\* Where the turns of one call have come to after n of them.
Along(F, r, n, q) ==
  /\ q \in Good(F)
  /\ q.got = Nothing => r.pos <= q.pos /\ Left(F, q) + n <= Left(F, r)
  /\ q.got.kind = "packet" => r.pos <= q.got.at /\ q.got.at < q.pos
  /\ q.got.kind # "landed"

\* One turn more.
LEMMA AlongTurn ==
  ASSUME NEW F, WellFormed(F), NEW r \in Good(F), NEW n \in Nat, NEW p, Along(F, r, n, p),
         NEW q, q = IF p.got = Nothing THEN ReadChunk(F, p) ELSE p
  PROVE  Along(F, r, n + 1, q)
<1>1. p \in Good(F) BY DEF Along
<1>2. CASE p.got # Nothing BY <1>2 DEF Along
<1>3. CASE p.got = Nothing
  <2>1. Turn(F, p, q) BY <1>1, <1>3, ReadChunkTurn
  <2>2. r.pos <= p.pos /\ Left(F, p) + n <= Left(F, r) BY <1>3 DEF Along
  <2>3. q \in Good(F) BY <2>1 DEF Turn
  <2>4. r.pos \in Nat /\ p.pos \in Nat /\ q.pos \in Nat BY <1>1, <2>3, ReaderFields
  <2>5. Left(F, r) \in Nat /\ Left(F, p) \in Nat /\ Left(F, q) \in Nat
    BY <1>1, <2>3, LeftType
  <2>6. ASSUME q.got = Nothing PROVE r.pos <= q.pos /\ Left(F, q) + (n + 1) <= Left(F, r)
    <3>1. p.pos <= q.pos BY <2>1, <2>6 DEF Turn
    <3>2. Left(F, q) + 1 <= Left(F, p) BY <1>1, <2>1, <2>6, TurnsEnd
    <3> QED BY <2>2, <2>4, <2>5, <3>1, <3>2
  <2>7. ASSUME q.got.kind = "packet" PROVE r.pos <= q.got.at /\ q.got.at < q.pos
    <3>1. p.pos <= q.got.at /\ q.got.at < q.pos BY <2>1, <2>7 DEF Turn
    <3>2. q.got.at \in Nat
      <4>1. q.got \in Answers(F) BY <2>3 DEF Good, Readers
      <4>2. q.got \in PacketsIn(F)
        BY <2>7, <4>1 DEF Answers, Nothing, Eof, Refused, IoError, Landings
      <4>3. q.got.at \in DOMAIN F.disk BY <4>2 DEF PacketsIn, Standing
      <4> QED BY <4>3, CellFacts
    <3> QED BY <2>2, <2>4, <3>1, <3>2
  <2>8. q.got.kind # "landed" BY <2>1 DEF Turn
  <2> QED BY <2>3, <2>6, <2>7, <2>8 DEF Along
<1> QED BY <1>2, <1>3

\* The turns of one call, from a reader that has no answer yet.
Rewound(r) == [r EXCEPT !.got = Nothing]
Turns(F, r) == Cardinality(DOMAIN F.disk) + Len(r.movi) + 1

LEMMA RewoundGood ==
  ASSUME NEW F, NEW r \in Good(F)
  PROVE  /\ Rewound(r) \in Good(F) /\ Rewound(r).got = Nothing
         /\ Rewound(r).pos = r.pos /\ Rewound(r).movi = r.movi /\ Rewound(r).seg = r.seg
<1> DEFINE s == Rewound(r)
<1>1. r \in Readers(F) /\ InPlace(r) BY DEF Good
<1>2. Nothing \in Answers(F) BY AnswersPlain
<1>3. s \in Readers(F) /\ s.got = Nothing /\ s.pos = r.pos /\ s.movi = r.movi /\ s.seg = r.seg
  BY <1>1, <1>2 DEF Readers, Rewound
<1> HIDE DEF s
<1>4. InPlace(s) BY <1>1, <1>3 DEF InPlace
<1> QED BY <1>3, <1>4 DEF Good, s

\* What the turns of a call keep, its outcome has.
LEMMA TurnsKeep ==
  ASSUME NEW F, WellFormed(F), NEW r \in Good(F), NEW K \in [Nat -> SUBSET Good(F)],
         Rewound(r) \in K[0],
         \A n \in Nat : \A p \in K[n] :
           (IF p.got = Nothing THEN ReadChunk(F, p) ELSE p) \in K[n + 1]
  PROVE  ReadPacket(F, r) \in K[Turns(F, r)]
<1> DEFINE s == Rewound(r)
           more(p) == IF p.got = Nothing THEN ReadChunk(F, p) ELSE p
           V == {{p} : p \in Good(F)}
           G == [n \in Nat |-> [v \in V |-> Turned(F, v)]]
           Runs(f) == f = [n \in Nat |-> IF n = 0 THEN {s} ELSE Turned(F, f[n - 1])]
           N == Turns(F, r)
<1>1. s \in Good(F) BY RewoundGood
<1>2. \A p : Turned(F, {p}) = {more(p)} BY DEF Turned
<1>3. ASSUME NEW p \in Good(F) PROVE more(p) \in Good(F)
  <2>1. CASE p.got = Nothing
    <3>1. Turn(F, p, ReadChunk(F, p)) BY <2>1, ReadChunkTurn
    <3> QED BY <2>1, <3>1 DEF Turn
  <2> QED BY <2>1
<1> HIDE DEF more
<1>4. \A v \in V : Turned(F, v) \in V BY <1>2, <1>3
<1>5. G \in [Nat -> [V -> V]] BY <1>4
<1>6. {s} \in V BY <1>1
<1> HIDE DEF V
<1>7. \E f : Runs(f)
  <2> DEFINE b == {s}
  <2>1. b \in V BY <1>6
  <2> HIDE DEF G, b
  <2>2. PICK h : Iterates(h, V, b, G) BY <1>5, <2>1, Iteration
  <2>3. h \in [Nat -> V] /\ h[0] = b /\ \A n \in Nat : h[n + 1] = G[n + 1][h[n]]
    BY <2>2 DEF Iterates
  <2>4. ASSUME NEW n \in Nat PROVE h[n] = IF n = 0 THEN {s} ELSE Turned(F, h[n - 1])
    <3>1. CASE n = 0 BY <2>3, <3>1 DEF b
    <3>2. CASE n # 0
      <4> DEFINE k == n - 1
      <4>1. k \in Nat /\ n = k + 1 BY <3>2
      <4> HIDE DEF k
      <4>2. h[n] = G[n][h[k]] /\ h[k] \in V BY <2>3, <4>1
      <4>3. h[n] = Turned(F, h[k]) BY <4>2 DEF G
      <4> QED BY <3>2, <4>3 DEF k
    <3> QED BY <3>1, <3>2
  <2>5. h = [n \in Nat |-> h[n]] BY <2>3
  <2>6. Runs(h) BY <2>4, <2>5
  <2> HIDE DEF Runs
  <2> QED BY <2>6
<1> DEFINE turn == CHOOSE f : Runs(f)
<1>8. Runs(turn)
  <2> HIDE DEF Runs
  <2> QED BY <1>7
<1>9. ReadPacket(F, r) = CHOOSE p \in turn[N] : TRUE BY DEF ReadPacket, s, Rewound, Turns
<1>10. turn[0] = {s} /\ \A n \in Nat \ {0} : turn[n] = Turned(F, turn[n - 1]) BY <1>8
<1> HIDE DEF turn, Runs
<1> DEFINE Bad == {n \in Nat : ~ \E p \in K[n] : turn[n] = {p}}
<1>11. Bad = {}
  <2> SUFFICES ASSUME Bad # {} PROVE FALSE
    OBVIOUS
  <2>1. PICK n \in Bad : \A m \in Bad : n <= m
    <3>1. Bad \subseteq Nat OBVIOUS
    <3> HIDE DEF Bad
    <3> QED BY <3>1, NatLeast
  <2>2. n # 0 BY <1>10
  <2> DEFINE k == n - 1
  <2>3. k \in Nat /\ n = k + 1 /\ ~(n <= k) BY <2>2
  <2>4. PICK p \in K[k] : turn[k] = {p} BY <2>1, <2>3
  <2>5. turn[n] = {more(p)}
    <3>1. turn[n] = Turned(F, turn[k]) BY <1>10, <2>2
    <3> HIDE DEF k
    <3> QED BY <1>2, <2>4, <3>1
  <2>6. more(p) \in K[k + 1]
    <3> HIDE DEF k
    <3> QED BY <2>3 DEF more
  <2> QED BY <2>3, <2>5, <2>6
<1>12. N \in Nat
  <2>1. Cardinality(DOMAIN F.disk) \in Nat BY FS_CardinalityType DEF WellFormed
  <2>2. Len(r.movi) \in Nat BY ReaderFields
  <2> QED BY <2>1, <2>2 DEF Turns
<1> HIDE DEF N
<1>13. PICK p \in K[N] : turn[N] = {p} BY <1>11, <1>12
<1>14. ReadPacket(F, r) = p BY <1>9, <1>13
<1> QED BY <1>14 DEF N

\* next_packet answers, with a packet that stands at or behind the reader and
\* that it leaves behind.
LEMMA ReadPacketFacts ==
  ASSUME NEW F, WellFormed(F), NEW r \in Good(F)
  PROVE  LET q == ReadPacket(F, r) IN
         /\ q \in Good(F) /\ q.got # Nothing
         /\ q.got.kind = "packet" => r.pos <= q.got.at /\ q.got.at < q.pos
         /\ q.got.kind # "landed"
<1> DEFINE s == Rewound(r)
           q == ReadPacket(F, r)
           K == [n \in Nat |-> {p \in Good(F) : Along(F, s, n, p)}]
           N == Turns(F, r)
<1>1. /\ s \in Good(F) /\ s.got = Nothing /\ s.pos = r.pos /\ s.movi = r.movi
      /\ Left(F, s) \in Nat /\ s.pos \in Nat
  BY RewoundGood, LeftType, ReaderFields
<1> HIDE DEF s
<1>2. K \in [Nat -> SUBSET Good(F)] OBVIOUS
<1>3. s \in K[0]
  <2>1. s.got.kind # "packet" /\ s.got.kind # "landed" BY <1>1, AnswersPlain
  <2> QED BY <1>1, <2>1 DEF Along
<1>4. ASSUME NEW n \in Nat, NEW p \in K[n]
      PROVE  (IF p.got = Nothing THEN ReadChunk(F, p) ELSE p) \in K[n + 1]
  <2> DEFINE v == IF p.got = Nothing THEN ReadChunk(F, p) ELSE p
  <2>1. Along(F, s, n, p) OBVIOUS
  <2>2. Along(F, s, n + 1, v) BY <1>1, <2>1, AlongTurn
  <2> HIDE DEF v
  <2>3. v \in Good(F) BY <2>2 DEF Along
  <2>4. n + 1 \in Nat OBVIOUS
  <2>5. v \in K[n + 1] BY <2>2, <2>3, <2>4
  <2> QED BY <2>5 DEF v
<1>5. q \in K[N]
  <2> HIDE DEF K
  <2> QED BY <1>2, <1>3, <1>4, TurnsKeep DEF s
<1>6. N \in Nat /\ Left(F, s) < N
  <2>1. Left(F, s) <= Cardinality(DOMAIN F.disk) + Len(s.movi) BY <1>1, LeftType
  <2>2. Cardinality(DOMAIN F.disk) \in Nat BY FS_CardinalityType DEF WellFormed
  <2>3. Len(r.movi) \in Nat BY ReaderFields
  <2> QED BY <1>1, <2>1, <2>2, <2>3 DEF Turns
<1> HIDE DEF N, q
<1>7. Along(F, s, N, q) /\ q \in Good(F) BY <1>5, <1>6
<1>8. q.got # Nothing
  <2> SUFFICES ASSUME q.got = Nothing PROVE FALSE
    OBVIOUS
  <2>1. Left(F, q) + N <= Left(F, s) BY <1>7 DEF Along
  <2>2. Left(F, q) \in Nat BY <1>7, LeftType
  <2> QED BY <1>1, <1>6, <2>1, <2>2
<1>9. q.got.kind = "packet" => r.pos <= q.got.at /\ q.got.at < q.pos BY <1>1, <1>7 DEF Along
<1>10. q.got.kind # "landed" BY <1>7 DEF Along
<1> QED BY <1>7, <1>8, <1>9, <1>10 DEF q

-----------------------------------------------------------------------------
(* The searches over a table                                               *)

\* Of the entries I of s, entry i has the greatest (the least) timestamp, and is
\* the first of those with it.
LatestIn(s, I, i) ==
  /\ i \in I
  /\ \A j \in I : s[j].pts < s[i].pts \/ (s[j].pts = s[i].pts /\ i <= j)
EarliestIn(s, I, i) ==
  /\ i \in I
  /\ \A j \in I : s[i].pts < s[j].pts \/ (s[i].pts = s[j].pts /\ i <= j)

\* The entries of s up to the target, and from it on.
UpTo(s, target) == {i \in DOMAIN s : s[i].pts <= target}
From(s, target) == {i \in DOMAIN s : s[i].pts >= target}

\* A table of one stream.
OneStream(s) == \A i, j \in DOMAIN s : s[i].trk = s[j].trk

\* The entries of a table.
LEMMA TableFacts ==
  ASSUME NEW s \in Tables
  PROVE  /\ s \in Seq(Entries) /\ Len(s) \in Nat /\ DOMAIN s = 1 .. Len(s)
         /\ \A i \in 1 .. Len(s) : /\ s[i] \in Entries /\ s[i].pts \in Nat /\ s[i].off \in Int
                                   /\ s[i] # None
         /\ s = <<>> <=> Len(s) = 0
<1>1. s \in Seq(Entries) BY DEF Tables
<1>2. Len(s) \in Nat /\ DOMAIN s = 1 .. Len(s) BY <1>1, LenProperties
<1>3. \A i \in 1 .. Len(s) : s[i] \in Entries BY <1>1, ElementOfSeq
<1>4. \A e \in Entries : e.pts \in Nat /\ e.off \in Int BY DEF Entries
<1>5. \A e \in Entries : e # None
  <2>1. None.pts = -1 BY DEF None
  <2> QED BY <1>4, <2>1
<1>6. s = <<>> <=> Len(s) = 0 BY <1>1, EmptySeq
<1> QED BY <1>1, <1>2, <1>3, <1>4, <1>5, <1>6

\* A set of first numbers is the interval up to its cardinality.
LEMMA FirstNumbers ==
  ASSUME NEW n \in Nat, NEW I \in SUBSET (1 .. n),
         \A i \in I, j \in 1 .. n : j < i => j \in I
  PROVE  Cardinality(I) \in Nat /\ I = 1 .. Cardinality(I)
<1>1. CASE I = {}
  <2>1. Cardinality(I) = 0 BY <1>1, FS_EmptySet
  <2> QED BY <1>1, <2>1
<1>2. CASE I # {}
  <2> DEFINE m == Max(I)
  <2>1. m \in I /\ \A i \in I : i <= m BY <1>2, SelectedIndex
  <2> HIDE DEF m
  <2>2. m \in 1 .. n BY <2>1
  <2>3. I = 1 .. m
    <3>1. \A i \in 1 .. m : i \in I
      <4> SUFFICES ASSUME NEW i \in 1 .. m PROVE i \in I
        OBVIOUS
      <4>1. i = m \/ i < m BY <2>2
      <4>2. i \in 1 .. n BY <2>2
      <4> QED BY <2>1, <4>1, <4>2
    <3>2. \A i \in I : i \in 1 .. m BY <2>1, <2>2
    <3> QED BY <3>1, <3>2
  <2>4. Cardinality(1 .. m) = m BY <2>2, FS_Interval
  <2> QED BY <2>2, <2>3, <2>4
<1> QED BY <1>1, <1>2

\* seek_cache_select_keyframe over the keyframes of a stream, which are in order:
\* the latest at or before the target, else the first.
Selected(s, target, k) ==
  \E i \in DOMAIN s : /\ k = s[i]
                      /\ IF UpTo(s, target) = {} THEN i = 1 ELSE LatestIn(s, UpTo(s, target), i)

\* The bisection finds the entry just described.
LEMMA SelectKeyframeFacts ==
  ASSUME NEW s \in Tables, OneStream(s), NEW target \in Int
  PROVE  LET k == SelectKeyframe(s, target) IN
         IF s = <<>> THEN k = None ELSE Selected(s, target, k)
<1> DEFINE n == Len(s)
           I == UpTo(s, target)
           p == PartitionPoint(s, LAMBDA k : k.pts <= target)
           best == s[p].pts
           First(i) == /\ \A j \in i .. p : s[j].pts = best
                       /\ i > 1 => s[i - 1].pts # best
           k == SelectKeyframe(s, target)
<1>1. /\ n \in Nat /\ DOMAIN s = 1 .. n
      /\ \A i \in 1 .. n : s[i].pts \in Nat /\ s[i] \in Entries
      /\ s = <<>> <=> n = 0
  BY TableFacts
<1>2. \A i, j \in 1 .. n : i < j => s[i].pts <= s[j].pts
  BY <1>1 DEF Tables, Rising, OneStream
<1>3. CASE s = <<>> BY <1>3 DEF SelectKeyframe
<1>4. CASE s # <<>>
  <2>1. NonDecreasing([i \in DOMAIN s |-> s[i].pts])
    <3> DEFINE f == [i \in DOMAIN s |-> s[i].pts]
    <3>1. f \in [1 .. n -> Nat] BY <1>1
    <3>2. \A i \in 1 .. n : f[i] = s[i].pts BY <1>1
    <3> HIDE DEF f, n
    <3>3. Len(f) = n BY <1>1, <3>1, FunctionIsSeq
    <3>4. ASSUME NEW i \in 2 .. n PROVE f[i - 1] <= f[i]
      <4>1. i - 1 \in 1 .. n /\ i \in 1 .. n /\ i - 1 < i BY <1>1
      <4> QED BY <1>2, <3>2, <4>1
    <3> QED BY <3>3, <3>4 DEF NonDecreasing, f
  <2>2. k = Bisect(s, target) BY <1>4, <2>1 DEF SelectKeyframe
  <2>3. I \in SUBSET (1 .. n) BY <1>1 DEF UpTo
  <2>4. \A i \in 1 .. n : i \in I <=> s[i].pts <= target BY <1>1 DEF UpTo
  <2>5. \A i \in I, j \in 1 .. n : j < i => j \in I
    <3> SUFFICES ASSUME NEW i \in I, NEW j \in 1 .. n, j < i PROVE j \in I
      OBVIOUS
    <3> HIDE DEF I
    <3>1. i \in 1 .. n /\ s[i].pts <= target BY <2>3, <2>4
    <3>2. s[j].pts <= s[i].pts BY <1>2, <3>1
    <3> QED BY <1>1, <2>4, <3>1, <3>2
  <2>6. p = Cardinality(I) BY DEF PartitionPoint, UpTo
  <2> HIDE DEF I
  <2>7. p \in Nat /\ I = 1 .. p
    <3> HIDE DEF p, n
    <3> QED BY <1>1, <2>3, <2>5, <2>6, FirstNumbers
  <2>8. p <= n
    <3> HIDE DEF p, n
    <3>1. p = 0 \/ p \in I BY <2>7
    <3>2. p = 0 \/ p \in 1 .. n BY <2>3, <3>1
    <3> QED BY <1>1, <3>2
  <2>9. CASE p = 0
    <3>1. k = s[1] BY <2>2, <2>9 DEF Bisect
    <3>2. I = {}
      <4> HIDE DEF p
      <4> QED BY <2>7, <2>9
    <3>3. 1 \in DOMAIN s BY <1>1, <1>4
    <3> QED BY <1>4, <3>1, <3>2, <3>3 DEF Selected, I
  <2>10. CASE p # 0
    <3>1. p \in 1 .. p /\ p \in 1 .. n BY <2>7, <2>8, <2>10
    <3> DEFINE T == {i \in 1 .. p : \A j \in i .. p : s[j].pts = best}
    <3>2. PICK i \in T : \A j \in T : i <= j
      <4>1. p \in T
        <5>1. \A j \in p .. p : j = p BY <2>7
        <5> HIDE DEF p
        <5> QED BY <3>1, <5>1
      <4>2. T \subseteq Nat
        <5>1. T \subseteq 1 .. p OBVIOUS
        <5> HIDE DEF T, p
        <5> QED BY <5>1
      <4> HIDE DEF T
      <4> QED BY <4>1, <4>2, NatLeast
    <3>3. First(i)
      <4>1. ASSUME i > 1, s[i - 1].pts = best PROVE FALSE
        <5>1. i - 1 \in T
          <6> HIDE DEF p, best
          <6>1. i \in 1 .. p /\ \A j \in i .. p : s[j].pts = best BY <3>2
          <6>2. i - 1 \in 1 .. p BY <2>7, <4>1, <6>1
          <6>3. \A j \in i - 1 .. p : j = i - 1 \/ j \in i .. p BY <2>7, <6>1
          <6> QED BY <4>1, <6>1, <6>2, <6>3
        <5>2. i \in Nat
          <6>1. i \in 1 .. p BY <3>2
          <6> HIDE DEF p
          <6> QED BY <6>1
        <5>3. i <= i - 1 BY <3>2, <5>1
        <5> QED BY <5>2, <5>3
      <4> QED BY <3>2, <4>1
    <3> DEFINE c == CHOOSE j \in 1 .. p : First(j)
    <3>4. c \in 1 .. p /\ First(c)
      <4>1. i \in 1 .. p BY <3>2
      <4> HIDE DEF First
      <4> QED BY <3>3, <4>1
    <3>5. k = s[c] BY <2>2, <2>10 DEF Bisect
    <3> HIDE DEF c, k, p
    <3>6. c \in 1 .. n /\ c \in I /\ s[c].pts = best
      <4>1. c \in c .. p BY <2>7, <3>4
      <4> QED BY <1>1, <2>7, <2>8, <3>4, <4>1
    <3>7. LatestIn(s, I, c)
      <4> SUFFICES ASSUME NEW j \in I
                   PROVE  s[j].pts < s[c].pts \/ (s[j].pts = s[c].pts /\ c <= j)
        BY <3>6 DEF LatestIn
      <4>1. j \in 1 .. p /\ j \in 1 .. n BY <2>3, <2>7
      <4>2. s[j].pts <= best
        <5>1. j = p \/ j < p BY <2>7, <4>1
        <5>2. s[p].pts \in Nat BY <1>1, <3>1
        <5> QED BY <1>2, <3>1, <4>1, <5>1, <5>2
      <4>3. CASE c <= j BY <1>1, <3>6, <4>1, <4>2, <4>3
      <4>4. CASE ~(c <= j)
        <5>1. c - 1 \in 1 .. n /\ c > 1 /\ j <= c - 1 BY <1>1, <3>6, <4>1, <4>4
        <5>2. s[c - 1].pts # best BY <3>4, <5>1
        <5>3. s[j].pts <= s[c - 1].pts
          <6>1. j = c - 1 \/ j < c - 1 BY <3>6, <4>1, <5>1
          <6> QED BY <1>1, <1>2, <4>1, <5>1, <6>1
        <5>4. s[c - 1].pts <= s[c].pts BY <1>2, <3>6, <5>1
        <5>5. s[c].pts \in Nat /\ s[c - 1].pts \in Nat /\ s[j].pts \in Nat
          BY <1>1, <3>6, <4>1, <5>1
        <5>6. s[j].pts < s[c].pts BY <3>6, <5>2, <5>3, <5>4, <5>5
        <5> QED BY <5>6
      <4> QED BY <4>3, <4>4
    <3>8. UpTo(s, target) # {} BY <3>6 DEF I
    <3> QED BY <1>1, <1>4, <3>5, <3>6, <3>7, <3>8 DEF Selected, I, k
  <2> QED BY <2>9, <2>10
<1> QED BY <1>3, <1>4

\* The two walks of seek_to_first_video_keyframe_after, one step each: how is
\* "later" for the least timestamp from the target on, "latest" for the greatest.
Qualifies(how, target, e) == how = "latest" \/ e.pts >= target
Better(how, e, best) == IF how = "latest" THEN e.pts > best.pts ELSE e.pts < best.pts
Pick(how, target, best, e) ==
  IF Qualifies(how, target, e) /\ (best = None \/ Better(how, e, best)) THEN e ELSE best

\* The recursive function in the fold of such a walk.
IsPick(g, s, how, target) ==
  g = [T \in SUBSET DOMAIN s |->
         IF T = {} THEN None ELSE LET x == Max(T) IN Pick(how, target, g[T \ {x}], s[x])]

LaterStep(target, best, e) ==
  IF e.pts >= target /\ (best = None \/ e.pts < best.pts) THEN e ELSE best
LatestStep(best, e) == IF best = None \/ e.pts > best.pts THEN e ELSE best
IsLater(g, s, target) ==
  g = [T \in SUBSET DOMAIN s |->
         IF T = {} THEN None ELSE LET x == Max(T) IN LaterStep(target, g[T \ {x}], s[x])]
IsLatest(g, s) ==
  g = [T \in SUBSET DOMAIN s |->
         IF T = {} THEN None ELSE LET x == Max(T) IN LatestStep(g[T \ {x}], s[x])]

\* The two walks are walks of this form.
LEMMA WalksArePicks ==
  ASSUME NEW s, NEW target
  PROVE  /\ \A g : IsLater(g, s, target) <=> IsPick(g, s, "later", target)
         /\ \A g : IsLatest(g, s) <=> IsPick(g, s, "latest", target)
<1>1. \A best, e : LaterStep(target, best, e) = Pick("later", target, best, e)
  BY DEF LaterStep, Pick, Qualifies, Better
<1>2. \A best, e : LatestStep(best, e) = Pick("latest", target, best, e)
  BY DEF LatestStep, Pick, Qualifies, Better
<1> QED BY <1>1, <1>2 DEF IsLater, IsLatest, IsPick

\* FirstAfter is made of those two recursive functions.
LEMMA FirstAfterIsChosen ==
  ASSUME NEW s, NEW target
  PROVE  LET found == (CHOOSE g : IsLater(g, s, target))[DOMAIN s]
             latest == (CHOOSE g : IsLatest(g, s))[DOMAIN s]
         IN FirstAfter(s, target) = IF found = None THEN latest ELSE found
BY Zenon DEF FirstAfter, FoldLeft, MapThenFoldSet, IsLater, IsLatest, LaterStep, LatestStep

\* A walk of this form has a value.
LEMMA PickExists ==
  ASSUME NEW s \in Tables, NEW how, NEW target
  PROVE  \E g : IsPick(g, s, how, target)
<1> DEFINE V == {None} \cup Entries
           S == DOMAIN s
           ch == [T \in SUBSET S |-> Max(T)]
           G == [i \in S |-> [b \in V |-> Pick(how, target, b, s[i])]]
<1>1. /\ S = 1 .. Len(s) /\ Len(s) \in Nat /\ \A i \in S : s[i] \in Entries
  BY TableFacts
<1>2. IsFiniteSet(S) BY <1>1, FS_Interval
<1>3. \A T \in SUBSET S : T # {} => ch[T] \in T BY <1>1, SelectedIndex
<1>4. G \in [S -> [V -> V]] BY <1>1 DEF Pick
<1>5. None \in V OBVIOUS
<1> HIDE DEF V, ch, G, S
<1>6. PICK g : Folds(g, S, V, None, ch, G) BY <1>2, <1>3, <1>4, <1>5, FoldExists
<1>7. ASSUME NEW T \in SUBSET S
      PROVE  g[T] = IF T = {} THEN None
                    ELSE LET x == Max(T) IN Pick(how, target, g[T \ {x}], s[x])
  <2>1. CASE T = {} BY <1>6, <2>1 DEF Folds
  <2>2. CASE T # {}
    <3>1. ch[T] = Max(T) /\ ch[T] \in S /\ T \ {ch[T]} \in SUBSET S BY <1>3, <2>2 DEF ch
    <3>2. g[T] = G[ch[T]][g[T \ {ch[T]}]] BY <1>6, <2>2 DEF Folds
    <3>3. g[T \ {ch[T]}] \in V BY <1>6, <3>1 DEF Folds
    <3>4. g[T] = Pick(how, target, g[T \ {ch[T]}], s[ch[T]]) BY <3>1, <3>2, <3>3 DEF G
    <3> QED BY <2>2, <3>1, <3>4
  <2> QED BY <2>1, <2>2
<1>8. g = [T \in SUBSET S |-> g[T]] BY <1>6 DEF Folds
<1>9. IsPick(g, s, how, target) BY <1>7, <1>8 DEF IsPick, S
<1> QED BY <1>9

\* What a walk has picked after the first m entries.
BestIn(how, s, I, i) == IF how = "latest" THEN LatestIn(s, I, i) ELSE EarliestIn(s, I, i)
Picked(how, target, s, m, b) ==
  LET I == {i \in 1 .. m : Qualifies(how, target, s[i])} IN
  IF I = {} THEN b = None ELSE \E i \in I : b = s[i] /\ BestIn(how, s, I, i)

\* One entry more keeps the pick.
LEMMA PickStep ==
  ASSUME NEW s \in Tables, NEW how, NEW target \in Int, NEW m \in Nat, m + 1 <= Len(s),
         NEW b, Picked(how, target, s, m, b)
  PROVE  Picked(how, target, s, m + 1, Pick(how, target, b, s[m + 1]))
<1> DEFINE n == m + 1
           I == {i \in 1 .. m : Qualifies(how, target, s[i])}
           J == {i \in 1 .. n : Qualifies(how, target, s[i])}
           e == s[n]
           c == Pick(how, target, b, e)
<1>1. /\ n \in 1 .. Len(s) /\ \A i \in 1 .. n : s[i].pts \in Nat /\ s[i] # None
  BY TableFacts
<1>2. J = IF Qualifies(how, target, e) THEN I \cup {n} ELSE I
  <2>1. 1 .. n = (1 .. m) \cup {n} OBVIOUS
  <2> QED BY <2>1
<1>3. IF I = {} THEN b = None ELSE \E i \in I : b = s[i] /\ BestIn(how, s, I, i)
  BY DEF Picked
<1>4. \A i \in I : i \in 1 .. n /\ i < n OBVIOUS
<1>5. n \in 1 .. n OBVIOUS
<1> HIDE DEF I, J, n
<1>6. IF J = {} THEN c = None ELSE \E i \in J : c = s[i] /\ BestIn(how, s, J, i)
  <2>1. CASE ~Qualifies(how, target, e)
    <3>1. c = b /\ J = I BY <1>2, <2>1 DEF Pick
    <3> HIDE DEF c
    <3> QED BY <1>3, <3>1
  <2>2. CASE Qualifies(how, target, e) /\ I = {}
    <3>1. b = None /\ J = {n} BY <1>2, <1>3, <2>2
    <3>2. c = s[n] BY <2>2, <3>1 DEF Pick
    <3>3. BestIn(how, s, J, n) BY <1>1, <1>5, <3>1 DEF BestIn, LatestIn, EarliestIn
    <3> HIDE DEF c
    <3> QED BY <3>1, <3>2, <3>3
  <2>3. CASE Qualifies(how, target, e) /\ I # {}
    <3>1. PICK i \in I : b = s[i] /\ BestIn(how, s, I, i) BY <1>3, <2>3
    <3>2. b # None /\ i \in 1 .. n /\ i < n /\ s[i].pts \in Nat /\ s[n].pts \in Nat
      BY <1>1, <1>4, <1>5, <3>1
    <3>3. J = I \cup {n} BY <1>2, <2>3
    <3>4. \A j \in I : s[j].pts \in Nat /\ j \in 1 .. n /\ j < n BY <1>1, <1>4
    <3>5. CASE Better(how, e, b)
      <4>1. c = s[n] BY <2>3, <3>5 DEF Pick
      <4>2. BestIn(how, s, J, n)
        <5>1. CASE how = "latest"
          <6>1. s[n].pts > s[i].pts BY <3>1, <3>5, <5>1 DEF Better
          <6>2. LatestIn(s, I, i) BY <3>1, <5>1 DEF BestIn
          <6>3. ASSUME NEW j \in I PROVE s[j].pts < s[n].pts
            <7> DEFINE x == s[j].pts
                       y == s[i].pts
                       z == s[n].pts
            <7>1. x \in Nat /\ y \in Nat /\ z \in Nat /\ z > y BY <3>2, <3>4, <6>1
            <7>2. x < y \/ x = y BY <6>2 DEF LatestIn
            <7> HIDE DEF x, y, z
            <7>3. x < z BY <7>1, <7>2
            <7> QED BY <7>3 DEF x, z
          <6> QED BY <1>1, <1>5, <3>2, <3>3, <5>1, <6>3 DEF BestIn, LatestIn
        <5>2. CASE how # "latest"
          <6>1. s[n].pts < s[i].pts BY <3>1, <3>5, <5>2 DEF Better
          <6>2. EarliestIn(s, I, i) BY <3>1, <5>2 DEF BestIn
          <6>3. \A j \in I : s[n].pts < s[j].pts BY <3>2, <3>4, <6>1, <6>2 DEF EarliestIn
          <6> QED BY <1>1, <1>5, <3>2, <3>3, <5>2, <6>3 DEF BestIn, EarliestIn
        <5> QED BY <5>1, <5>2
      <4> HIDE DEF c
      <4> QED BY <3>3, <4>1, <4>2
    <3>6. CASE ~Better(how, e, b)
      <4>1. c = s[i] BY <3>1, <3>2, <3>6 DEF Pick
      <4>2. BestIn(how, s, J, i)
        <5>1. CASE how = "latest"
          <6>1. ~(s[n].pts > s[i].pts) BY <3>1, <3>6, <5>1 DEF Better
          <6>2. LatestIn(s, I, i) BY <3>1, <5>1 DEF BestIn
          <6>3. s[n].pts < s[i].pts \/ (s[n].pts = s[i].pts /\ i <= n) BY <3>2, <6>1
          <6> QED BY <3>3, <5>1, <6>2, <6>3 DEF BestIn, LatestIn
        <5>2. CASE how # "latest"
          <6>1. ~(s[n].pts < s[i].pts) BY <3>1, <3>6, <5>2 DEF Better
          <6>2. EarliestIn(s, I, i) BY <3>1, <5>2 DEF BestIn
          <6>3. s[i].pts < s[n].pts \/ (s[i].pts = s[n].pts /\ i <= n) BY <3>2, <6>1
          <6> QED BY <3>3, <5>2, <6>2, <6>3 DEF BestIn, EarliestIn
        <5> QED BY <5>1, <5>2
      <4> HIDE DEF c
      <4> QED BY <3>1, <3>3, <4>1, <4>2
    <3> QED BY <3>5, <3>6
  <2> QED BY <2>1, <2>2, <2>3
<1> QED BY <1>6 DEF Picked, J, c, e, n

\* What a walk has picked at the end of the table.
LEMMA PickFacts ==
  ASSUME NEW s \in Tables, NEW how, NEW target \in Int
  PROVE  Picked(how, target, s, Len(s), (CHOOSE g : IsPick(g, s, how, target))[DOMAIN s])
<1> DEFINE g == CHOOSE h : IsPick(h, s, how, target)
           n == Len(s)
<1>1. DOMAIN s = 1 .. n /\ n \in Nat BY TableFacts
<1>2. IsPick(g, s, how, target) BY PickExists
<1> HIDE DEF g
<1>3. g[{}] = None
  <2>1. {} \in SUBSET DOMAIN s OBVIOUS
  <2> QED BY <1>2, <2>1 DEF IsPick
<1>4. ASSUME NEW m \in Nat, m + 1 <= n
      PROVE  g[1 .. m + 1] = Pick(how, target, g[1 .. m], s[m + 1])
  <2> DEFINE T == 1 .. m + 1
             x == Max(T)
  <2>1. T \in SUBSET DOMAIN s /\ T # {}
    <3>1. m + 1 \in T OBVIOUS
    <3>2. T \subseteq 1 .. n
      <4> HIDE DEF n
      <4> QED BY <1>1, <1>4
    <3> HIDE DEF T, n
    <3> QED BY <1>1, <3>1, <3>2
  <2>2. x = m + 1
    <3>1. T # {} /\ T \in SUBSET (1 .. m + 1) /\ m + 1 \in Nat OBVIOUS
    <3>2. x \in T /\ \A i \in T : i <= x
      <4> HIDE DEF T
      <4> QED BY <3>1, SelectedIndex
    <3>3. m + 1 \in T OBVIOUS
    <3> HIDE DEF x
    <3> QED BY <3>2, <3>3
  <2>3. T \ {m + 1} = 1 .. m OBVIOUS
  <2> HIDE DEF T
  <2>4. g[T] = LET y == Max(T) IN Pick(how, target, g[T \ {y}], s[y])
    BY <1>2, <2>1 DEF IsPick
  <2> QED BY <2>2, <2>3, <2>4 DEF T
<1> HIDE DEF n
<1> DEFINE Bad == {m \in 0 .. n : ~Picked(how, target, s, m, g[1 .. m])}
<1>5. Bad = {}
  <2> SUFFICES ASSUME Bad # {} PROVE FALSE
    OBVIOUS
  <2>1. PICK m \in Bad : \A k \in Bad : m <= k
    <3>1. Bad \subseteq Nat BY <1>1
    <3> HIDE DEF Bad
    <3> QED BY <3>1, NatLeast
  <2>2. Picked(how, target, s, 0, g[1 .. 0])
    <3>1. 1 .. 0 = {} OBVIOUS
    <3> QED BY <1>3, <3>1 DEF Picked
  <2>3. m # 0 BY <2>1, <2>2
  <2> DEFINE k == m - 1
  <2>4. k \in Nat /\ k \in 0 .. n /\ m = k + 1 /\ ~(m <= k) /\ k + 1 <= n BY <1>1, <2>3
  <2>5. Picked(how, target, s, k, g[1 .. k]) BY <2>1, <2>4
  <2> HIDE DEF k
  <2>6. Picked(how, target, s, k + 1, Pick(how, target, g[1 .. k], s[k + 1]))
    BY <2>4, <2>5, PickStep DEF n
  <2>7. g[1 .. m] = Pick(how, target, g[1 .. k], s[k + 1]) BY <1>4, <2>4
  <2> QED BY <2>1, <2>4, <2>6, <2>7
<1>6. n \in 0 .. n BY <1>1
<1>7. Picked(how, target, s, n, g[1 .. n]) BY <1>5, <1>6
<1> QED BY <1>1, <1>7 DEF n, g

\* The entry seek_to_first_video_keyframe_after picks: the earliest at or after
\* the target, else the latest.
SelectedAfter(s, target, k) ==
  \E i \in DOMAIN s :
    /\ k = s[i]
    /\ IF From(s, target) = {} THEN LatestIn(s, DOMAIN s, i)
                               ELSE EarliestIn(s, From(s, target), i)

\* The two walks together find the entry just described.
LEMMA FirstAfterFacts ==
  ASSUME NEW s \in Tables, NEW target \in Int
  PROVE  LET k == FirstAfter(s, target) IN
         IF s = <<>> THEN k = None ELSE SelectedAfter(s, target, k)
<1> DEFINE n == Len(s)
           found == (CHOOSE g : IsPick(g, s, "later", target))[DOMAIN s]
           latest == (CHOOSE g : IsPick(g, s, "latest", target))[DOMAIN s]
           k == FirstAfter(s, target)
<1>1. /\ DOMAIN s = 1 .. n /\ n \in Nat
      /\ s = <<>> <=> n = 0
      /\ \A i \in 1 .. n : s[i] # None
  BY TableFacts
<1>2. k = IF found = None THEN latest ELSE found
  <2>1. (CHOOSE g : IsLater(g, s, target)) = CHOOSE g : IsPick(g, s, "later", target)
    BY WalksArePicks
  <2>2. (CHOOSE g : IsLatest(g, s)) = CHOOSE g : IsPick(g, s, "latest", target)
    BY WalksArePicks
  <2>3. /\ found = (CHOOSE g : IsLater(g, s, target))[DOMAIN s]
        /\ latest = (CHOOSE g : IsLatest(g, s))[DOMAIN s]
    BY <2>1, <2>2
  <2> HIDE DEF found, latest
  <2> QED BY <2>3, FirstAfterIsChosen
<1>3. Picked("later", target, s, n, found) BY PickFacts
<1>4. Picked("latest", target, s, n, latest) BY PickFacts
<1>5. {i \in 1 .. n : Qualifies("later", target, s[i])} = From(s, target)
  BY <1>1 DEF Qualifies, From
<1>6. {i \in 1 .. n : Qualifies("latest", target, s[i])} = DOMAIN s
  <2>1. \A i \in 1 .. n : Qualifies("latest", target, s[i]) BY DEF Qualifies
  <2> HIDE DEF n
  <2> QED BY <1>1, <2>1
<1> HIDE DEF found, latest, k, n
<1>7. IF From(s, target) = {} THEN found = None
      ELSE \E i \in From(s, target) : found = s[i] /\ EarliestIn(s, From(s, target), i)
  BY <1>3, <1>5 DEF Picked, BestIn
<1>8. IF DOMAIN s = {} THEN latest = None
      ELSE \E i \in DOMAIN s : latest = s[i] /\ LatestIn(s, DOMAIN s, i)
  BY <1>4, <1>6 DEF Picked, BestIn
<1>9. From(s, target) \subseteq DOMAIN s BY DEF From
<1>10. CASE s = <<>>
  <2>1. DOMAIN s = {} BY <1>1, <1>10
  <2> QED BY <1>2, <1>7, <1>8, <1>9, <1>10, <2>1 DEF k
<1>11. CASE s # <<>> /\ From(s, target) = {}
  <2>1. DOMAIN s # {} BY <1>1, <1>11
  <2> QED BY <1>2, <1>7, <1>8, <1>11, <2>1 DEF k, SelectedAfter
<1>12. CASE s # <<>> /\ From(s, target) # {}
  <2>1. PICK i \in From(s, target) : found = s[i] /\ EarliestIn(s, From(s, target), i)
    BY <1>7, <1>12
  <2>2. found # None BY <1>1, <1>9, <2>1
  <2> QED BY <1>2, <1>9, <1>12, <2>1, <2>2 DEF k, SelectedAfter
<1> QED BY <1>10, <1>11, <1>12

-----------------------------------------------------------------------------
(* The seeks                                                               *)

\* The entries of one stream are a table.
LEMMA OfStreamTable ==
  ASSUME NEW s \in Tables, NEW t
  PROVE  OfStream(s, t) \in Tables
<1> DEFINE I == {i \in DOMAIN s : s[i].trk = t}
<1>1. OfStream(s, t) = At(s, I) BY DEF OfStream, Kept, At
<1>2. I \in SUBSET DOMAIN s OBVIOUS
<1> HIDE DEF I
<1> QED BY <1>1, <1>2, PartOfTable

\* The keyframes of a stream in a table.
LEMMA KeyframesTable ==
  ASSUME NEW s \in Tables, NEW t
  PROVE  /\ Keyframes(s, t) \in Tables
         /\ \A n \in DOMAIN Keyframes(s, t) : /\ Keyframes(s, t)[n].trk = t
                                              /\ Keyframes(s, t)[n].key
<1> DEFINE I == {i \in DOMAIN s : s[i].trk = t /\ s[i].key}
<1>1. Keyframes(s, t) = At(s, I) BY DEF Keyframes, Kept, At
<1>2. I \in SUBSET DOMAIN s /\ \A i \in I : s[i].trk = t /\ s[i].key OBVIOUS
<1> HIDE DEF I
<1> QED BY <1>1, <1>2, PartOfTable

\* The entries among the keyframes that seek_to_first_video_keyframe_after looks
\* at.
Timed(r, t) == Kept(Keyframes(r.idx, t), LAMBDA e : e.off \notin r.notime)

\* They are a table too.
LEMMA TimedTable ==
  ASSUME NEW r, r.idx \in Tables, NEW t
  PROVE  Timed(r, t) \in Tables
<1> DEFINE s == Keyframes(r.idx, t)
           I == {i \in DOMAIN s : s[i].off \notin r.notime}
<1>1. s \in Tables BY KeyframesTable
<1>2. Timed(r, t) = At(s, I) BY DEF Timed, Kept, At
<1>3. I \in SUBSET DOMAIN s OBVIOUS
<1> HIDE DEF s, I
<1> QED BY <1>1, <1>2, <1>3, PartOfTable

\* Every counter a seek resets is a number of ticks.
LEMMA PartitionPointType ==
  ASSUME NEW s \in Tables, NEW off \in Int
  PROVE  LET p == PartitionPoint(s, LAMBDA e : e.off <= off) IN
         p = 0 \/ s[p].pts \in Nat
<1> DEFINE I == {i \in DOMAIN s : s[i].off <= off}
           p == PartitionPoint(s, LAMBDA e : e.off <= off)
           n == Len(s)
<1>1. DOMAIN s = 1 .. n /\ n \in Nat /\ \A i \in 1 .. n : s[i].pts \in Nat BY TableFacts
<1>2. p = Cardinality(I) BY DEF PartitionPoint
<1>3. I \in SUBSET (1 .. n) BY <1>1
<1> HIDE DEF I, p, n
<1>4. IsFiniteSet(1 .. n) /\ Cardinality(1 .. n) = n BY <1>1, FS_Interval
<1>5. p \in Nat /\ p <= n BY <1>2, <1>3, <1>4, FS_Subset, FS_CardinalityType
<1>6. p = 0 \/ p \in 1 .. n BY <1>1, <1>5
<1> QED BY <1>1, <1>6 DEF p

\* The reset by the walk is one.
LEMMA ResetByWalkType ==
  ASSUME NEW s \in Tables, NEW t, NEW off \in Int
  PROVE  ResetByWalk(s, t, off) \in Nat
<1> DEFINE n == Len(s)
           I == {i \in 1 .. n : s[i].off > off}
           past == IF I # {} THEN Min(I) ELSE 0
           walked == IF past = 0 THEN s ELSE SubSeq(s, 1, past - 1)
           J == {i \in DOMAIN walked : walked[i].trk = t}
           own == At(walked, J)
<1>1. s \in Seq(Entries) /\ DOMAIN s = 1 .. n /\ n \in Nat BY TableFacts
<1>2. past = 0 \/ past \in 1 .. n
  <2>1. I \in SUBSET (1 .. n) OBVIOUS
  <2> HIDE DEF n, I
  <2> QED BY <1>1, <2>1, SelectedIndex
<1>3. ResetByWalk(s, t, off) = IF own = <<>> THEN 0 ELSE Last(own).pts
  BY DEF ResetByWalk, SelectInSeq, OfStream, Kept, At
<1> HIDE DEF past, n
<1>4. walked \in Seq(Entries)
  <2>1. CASE past = 0 BY <1>1, <2>1
  <2>2. CASE past # 0
    <3>1. past - 1 \in Int /\ 1 \in Int /\ \A i \in 1 .. past - 1 : i \in 1 .. n
      BY <1>1, <1>2, <2>2
    <3>2. \A i \in 1 .. past - 1 : s[i] \in Entries BY <1>1, <3>1, ElementOfSeq DEF n
    <3>3. SubSeq(s, 1, past - 1) \in Seq(Entries) BY <3>1, <3>2, SubSeqProperties
    <3> QED BY <2>2, <3>3
  <2> QED BY <2>1, <2>2
<1> DEFINE X == {walked[i] : i \in J}
<1>5. J \in SUBSET DOMAIN walked OBVIOUS
<1>6. X \subseteq Entries
  <2> HIDE DEF walked
  <2> QED BY <1>4, LenProperties, ElementOfSeq
<1> HIDE DEF walked, J
<1>7. own \in Seq(X) BY <1>4, <1>5, KeptFacts
<1> HIDE DEF X, own
<1>8. own \in Seq(Entries) BY <1>6, <1>7, SeqMonotonic
<1>9. own # <<>> => Last(own) \in Entries
  <2>1. own # <<>> => Len(own) \in 1 .. Len(own) BY <1>8, EmptySeq
  <2> QED BY <1>8, <2>1, ElementOfSeq DEF Last
<1>10. own # <<>> => Last(own).pts \in Nat BY <1>9 DEF Entries
<1> QED BY <1>3, <1>10

\* So is the reset of seek_to, bisected or walked.
LEMMA Idx1CounterType ==
  ASSUME NEW s \in Tables, NEW t, NEW off \in Int
  PROVE  Idx1Counter(s, t, off) \in Nat
<1> DEFINE own == OfStream(s, t)
           p == PartitionPoint(own, LAMBDA e : e.off <= off)
<1>1. ResetByBisection(s, t, off) = IF p = 0 THEN 0 ELSE own[p].pts BY DEF ResetByBisection
<1>2. own \in Tables BY OfStreamTable
<1> HIDE DEF own
<1>3. p = 0 \/ own[p].pts \in Nat BY <1>2, PartitionPointType
<1> HIDE DEF p
<1>4. ResetByBisection(s, t, off) \in Nat BY <1>1, <1>3
<1> QED BY <1>4, ResetByWalkType DEF Idx1Counter

\* So is the reset by the standard indexes.
LEMMA StdCounterType ==
  ASSUME NEW s \in Tables, NEW off \in Int
  PROVE  StdCounter(s, off) \in Nat
<1> DEFINE n == Len(s)
           p == PartitionPoint(s, LAMBDA e : e.off <= off)
           I == {i \in 1 .. n : s[i].off <= off}
           last == IF I # {} THEN Max(I) ELSE 0
           i == IF NonDecreasing(Offsets(s)) THEN p ELSE last
<1>1. n \in Nat /\ \A j \in 1 .. n : s[j].pts \in Nat BY TableFacts
<1>2. StdCounter(s, off) = IF i = 0 THEN 0 ELSE s[i].pts BY DEF StdCounter, SelectLastInSeq
<1>3. p = 0 \/ s[p].pts \in Nat BY PartitionPointType
<1>4. last = 0 \/ last \in 1 .. n
  <2>1. I \in SUBSET (1 .. n) OBVIOUS
  <2> HIDE DEF n, I
  <2> QED BY <1>1, <2>1, SelectedIndex
<1> HIDE DEF p, last, n
<1>5. i = 0 \/ s[i].pts \in Nat BY <1>1, <1>3, <1>4
<1> HIDE DEF i
<1> QED BY <1>2, <1>5

\* What open_avi or next_packet has taken of the side-band chunks.
SameSideband(r, q) == q.eager = r.eager /\ q.counts = r.counts /\ q.bodies = r.bodies

\* A reader that refuses stays where it is; one that lands stands in a segment.
LEMMA RefuseGood ==
  ASSUME NEW F, NEW r \in Good(F)
  PROVE  /\ Refuse(r) \in Good(F) /\ Refuse(r).got = Refused
         /\ Refuse(r).seg = r.seg /\ Refuse(r).pos = r.pos /\ Refuse(r).counter = r.counter
         /\ SameSideband(r, Refuse(r))
<1> DEFINE q == Refuse(r)
<1>1. r \in Readers(F) /\ InPlace(r) BY DEF Good
<1>2. Refused \in Answers(F) BY AnswersPlain
<1>3. /\ q \in Readers(F) /\ q.got = Refused /\ q.seg = r.seg /\ q.pos = r.pos
      /\ q.movi = r.movi /\ q.counter = r.counter
  BY <1>1, <1>2 DEF Refuse, Readers
<1>4. SameSideband(r, q) BY <1>1 DEF Refuse, Readers, SameSideband
<1> HIDE DEF q
<1>5. InPlace(q) BY <1>1, <1>3 DEF InPlace
<1> QED BY <1>3, <1>4, <1>5 DEF Good, q

\* What a refusal leaves alone.
Unmoved(r, q) == q.got = Refused /\ q.seg = r.seg /\ q.pos = r.pos /\ q.counter = r.counter

\* The reader stands in the body of its segment.
Within(q) ==
  q.seg \in DOMAIN q.movi /\ q.movi[q.seg].from <= q.pos /\ q.pos < q.movi[q.seg].to

\* Landing leaves a reader of the file in place, or refuses.
LEMMA LandGood ==
  ASSUME NEW F, WellFormed(F), NEW r \in Good(F), NEW off \in Int,
         NEW counter \in [Streams -> Nat], NEW answer \in Landings
  PROVE  LET q == Land(r, off, counter, answer) IN
         /\ q \in Good(F) /\ SameSideband(r, q)
         /\ Unmoved(r, q) \/ (q.got = answer /\ q.pos = off /\ q.counter = counter /\ Within(q))
<1> DEFINE movi == r.movi
           I == {i \in 1 .. Len(movi) : movi[i].from <= off /\ off < movi[i].to}
           k == IF I # {} THEN Min(I) ELSE 0
<1>1. /\ r \in Readers(F) /\ Len(movi) \in Nat /\ DOMAIN movi = 1 .. Len(movi)
      /\ \A i \in DOMAIN movi : movi[i].from \in Nat /\ movi[i].to \in Nat
  BY ReaderFields
<1>2. SegmentOf(r, off) = k BY DEF SegmentOf, SelectInSeq
<1>3. k = 0 \/ k \in I
  <2>1. I \in SUBSET (1 .. Len(movi)) OBVIOUS
  <2> HIDE DEF movi, I
  <2> QED BY <1>1, <2>1, SelectedIndex
<1> HIDE DEF k
<1>4. CASE k = 0
  <2>1. Land(r, off, counter, answer) = Refuse(r) BY <1>2, <1>4 DEF Land
  <2> QED BY <2>1, RefuseGood DEF Unmoved
<1>5. CASE k # 0
  <2> DEFINE q == [r EXCEPT !.seg = k, !.pos = off, !.counter = counter, !.got = answer]
  <2>1. k \in DOMAIN movi /\ movi[k].from <= off /\ off < movi[k].to BY <1>1, <1>3, <1>5
  <2>2. off \in Nat /\ k \in Nat /\ off <= movi[k].to + 11
    <3>1. movi[k].from \in Nat /\ movi[k].to \in Nat /\ k \in Nat BY <1>1, <2>1
    <3> HIDE DEF movi
    <3> QED BY <2>1, <3>1
  <2>3. Land(r, off, counter, answer) = q BY <1>2, <1>5 DEF Land
  <2>4. answer \in Answers(F) BY DEF Answers
  <2>5. /\ q \in Readers(F) /\ q.got = answer /\ q.seg = k /\ q.pos = off
        /\ q.movi = r.movi /\ q.counter = counter
    BY <1>1, <2>2, <2>4 DEF Readers
  <2>6. SameSideband(r, q) BY <1>1 DEF Readers, SameSideband
  <2> HIDE DEF q
  <2>7. InPlace(q) BY <1>1, <2>1, <2>2, <2>5 DEF InPlace
  <2>8. Within(q) BY <2>1, <2>5 DEF Within
  <2> QED BY <2>3, <2>5, <2>6, <2>7, <2>8 DEF Good
<1> QED BY <1>4, <1>5

\* The tables a seek keeps, whatever else it changes.
LEMMA SameTables ==
  ASSUME NEW F, NEW r \in Good(F), NEW q \in Good(F)
  PROVE  q.movi = r.movi /\ q.idx = r.idx /\ q.std = r.std /\ q.notime = r.notime
BY DEF Good, Readers

\* The keyframes a seek chooses from, and the entry k it chooses: idx1 if there is
\* one and it was not told to use the standard indexes.
SeekTable(r, how) == IF how = "std" \/ (how = "seek_to" /\ r.idx = <<>>) THEN r.std ELSE r.idx
Chosen(r, how, t, target, k) ==
  IF how = "after" THEN SelectedAfter(Timed(r, t), target, k)
                   ELSE Selected(Keyframes(SeekTable(r, how), t), target, k)

\* Reader q has landed on entry k: in front of its chunk, with its timestamp and,
\* if asked for, its distance from the target.
LandedOn(q, t, target, k) ==
  /\ q.got.kind = "landed" /\ q.got.trk = t /\ q.got.pts = k.pts
  /\ q.pos = Clamped(q, k.off)
  /\ Within(q)
  /\ q.got.gap = 0 \/ (q.got.gap > 0 /\ q.got.gap \in {target - k.pts, k.pts - target})
LandsWell(q, how, t, target) ==
  \E k : Chosen(q, how, t, target, k) /\ LandedOn(q, t, target, k)

\* The counter of stream u that a seek to offset off sets, from the table it uses.
Recount(r, how, u, off) ==
  IF how = "after" THEN ResetByWalk(r.idx, u, off)
  ELSE IF how = "std" \/ r.idx = <<>> THEN StdCounter(OfStream(r.std, u), off)
  ELSE Idx1Counter(r.idx, u, off)

\* The answer of a seek that starts at r.
SeekOutcome(F, r, q, how, t, target) ==
  /\ q \in Good(F) /\ SameSideband(r, q)
  /\ \/ Unmoved(r, q)
     \/ /\ LandsWell(q, how, t, target)
        /\ \A u \in Streams : q.counter[u] = Recount(q, how, u, q.pos)

\* What the two searches return is the chosen entry, and an entry of a table.
LEMMA ChosenEntry ==
  ASSUME NEW F, WellFormed(F), NEW r \in Good(F), Len(r.movi) # 0,
         NEW how, NEW t, NEW target \in Int
  PROVE  /\ \A k : Chosen(r, how, t, target, k) => k \in Entries /\ k.pts \in Nat /\ k.off \in Int
         /\ LET s == Keyframes(SeekTable(r, how), t)
                k == SelectKeyframe(s, target)
            IN k # None /\ how # "after" => Chosen(r, how, t, target, k)
         /\ LET k == FirstAfter(Timed(r, t), target)
            IN k # None /\ how = "after" => Chosen(r, how, t, target, k)
<1> DEFINE s == Keyframes(SeekTable(r, how), t)
           u == Timed(r, t)
<1>1. r.idx \in Tables /\ r.std \in Tables BY ReaderTables
<1>2. SeekTable(r, how) \in Tables BY <1>1 DEF SeekTable
<1>3. s \in Tables /\ \A n \in DOMAIN s : s[n].trk = t BY <1>2, KeyframesTable
<1>4. OneStream(s) BY <1>3 DEF OneStream
<1>5. u \in Tables BY <1>1, TimedTable
<1> HIDE DEF s, u
<1>6. \A i \in DOMAIN s : s[i] \in Entries BY <1>3, TableFacts
<1>7. \A i \in DOMAIN u : u[i] \in Entries BY <1>5, TableFacts
<1>8. \A k \in Entries : k.pts \in Nat /\ k.off \in Int BY DEF Entries
<1>9. \A k : Selected(s, target, k) => k \in Entries BY <1>6 DEF Selected
<1>10. \A k : SelectedAfter(u, target, k) => k \in Entries BY <1>7 DEF SelectedAfter
<1>11. SelectKeyframe(s, target) # None => Selected(s, target, SelectKeyframe(s, target))
  BY <1>3, <1>4, SelectKeyframeFacts
<1>12. FirstAfter(u, target) # None => SelectedAfter(u, target, FirstAfter(u, target))
  BY <1>5, FirstAfterFacts
<1> QED BY <1>8, <1>9, <1>10, <1>11, <1>12 DEF Chosen, s, u

\* Land in front of a chosen entry.
LEMMA LandOutcome ==
  ASSUME NEW F, WellFormed(F), NEW r \in Good(F), Len(r.movi) # 0,
         NEW how, NEW t \in Int, NEW target \in Int,
         NEW k, Chosen(r, how, t, target, k),
         NEW off \in Int, off = Clamped(r, k.off) \/ off = k.off,
         NEW counter \in [Streams -> Nat],
         \A u \in Streams : counter[u] = Recount(r, how, u, off), NEW gap \in Int,
         gap = 0 \/ (gap > 0 /\ gap \in {target - k.pts, k.pts - target})
  PROVE  SeekOutcome(F, r, Land(r, off, counter, Landed(t, k.pts, gap)), how, t, target)
<1> DEFINE answer == Landed(t, k.pts, gap)
           q == Land(r, off, counter, answer)
<1>1. k.pts \in Nat /\ k.off \in Int BY ChosenEntry
<1>2. /\ answer \in Landings /\ answer # Refused /\ answer.kind = "landed" /\ answer.trk = t
      /\ answer.pts = k.pts /\ answer.gap = gap
  <2> DEFINE p == k.pts
  <2>1. p \in Nat BY <1>1
  <2> HIDE DEF p
  <2>2. answer = [kind |-> "landed", trk |-> t, pts |-> p, gap |-> gap] BY DEF Landed, p
  <2> HIDE DEF answer
  <2> QED BY <2>1, <2>2 DEF Landings, Refused, p
<1> HIDE DEF answer
<1>3. /\ q \in Good(F) /\ SameSideband(r, q)
      /\ Unmoved(r, q) \/ (q.got = answer /\ q.pos = off /\ q.counter = counter /\ Within(q))
  BY <1>2, LandGood
<1> HIDE DEF q
<1>4. q.movi = r.movi /\ q.idx = r.idx /\ q.std = r.std /\ q.notime = r.notime
  BY <1>3, SameTables
<1>5. CASE Unmoved(r, q) BY <1>3, <1>5 DEF SeekOutcome, q, answer
<1>6. CASE ~Unmoved(r, q)
  <2>1. PICK i \in DOMAIN r.movi : r.movi[i].from <= off /\ off < r.movi[i].to
    BY <1>3, <1>4, <1>6 DEF Within
  <2>2. off = Clamped(q, k.off)
    <3>1. /\ Len(r.movi) \in Nat /\ DOMAIN r.movi = 1 .. Len(r.movi) /\ Apart(r.movi, F.len)
          /\ \A n \in DOMAIN r.movi : r.movi[n].from \in Nat /\ r.movi[n].to \in Nat
      BY ReaderFields
    <3>2. 1 \in DOMAIN r.movi BY <3>1
    <3>3. r.movi[1].from <= r.movi[i].from
      <4>1. i = 1 \/ (1 < i) BY <2>1, <3>1
      <4>2. 1 < i => r.movi[1].to + 12 <= r.movi[i].from BY <2>1, <3>1, <3>2 DEF Apart
      <4>3. r.movi[1].from <= r.movi[1].to + 11 BY <3>1, <3>2 DEF Apart
      <4> DEFINE a == r.movi[1].from
                 b == r.movi[1].to
                 c == r.movi[i].from
      <4>4. a \in Nat /\ b \in Nat /\ c \in Nat BY <2>1, <3>1, <3>2
      <4> HIDE DEF a, b, c
      <4>5. a <= b + 11 /\ (i = 1 => c = a) /\ (1 < i => b + 12 <= c)
        BY <4>2, <4>3 DEF a, b, c
      <4>6. a <= c BY <4>1, <4>4, <4>5
      <4> QED BY <4>6 DEF a, c
    <3>4. r.movi[1].from \in Nat /\ r.movi[i].from \in Nat BY <2>1, <3>1, <3>2
    <3>5. ~(off < r.movi[1].from) BY <2>1, <3>3, <3>4
    <3> QED BY <1>4, <3>5 DEF Clamped
  <2>3. Chosen(q, how, t, target, k) BY <1>4 DEF Chosen, Timed, SeekTable
  <2>4. LandedOn(q, t, target, k) BY <1>2, <1>3, <1>6, <2>2 DEF LandedOn
  <2>5. \A u \in Streams : q.counter[u] = Recount(q, how, u, q.pos)
    BY <1>3, <1>4, <1>6 DEF Recount
  <2> QED BY <1>3, <2>3, <2>4, <2>5 DEF SeekOutcome, LandsWell, q, answer
<1> QED BY <1>5, <1>6

\* A refusal is an outcome of every seek.
LEMMA RefuseOutcome ==
  ASSUME NEW F, NEW r \in Good(F), NEW how, NEW t, NEW target
  PROVE  SeekOutcome(F, r, Refuse(r), how, t, target)
BY RefuseGood DEF SeekOutcome, Unmoved

\* A clamped offset is a number.
LEMMA ClampedType ==
  ASSUME NEW F, WellFormed(F), NEW r \in Good(F), Len(r.movi) # 0, NEW off \in Int
  PROVE  Clamped(r, off) \in Int
<1>1. /\ Len(r.movi) \in Nat /\ DOMAIN r.movi = 1 .. Len(r.movi)
      /\ \A n \in DOMAIN r.movi : r.movi[n].from \in Nat
  BY ReaderFields
<1>2. 1 \in DOMAIN r.movi BY <1>1
<1>3. r.movi[1].from \in Int BY <1>1, <1>2
<1> QED BY <1>3 DEF Clamped

\* The seek by the standard indexes.
LEMMA SeekByStdOutcome ==
  ASSUME NEW F, WellFormed(F), NEW r \in Good(F), Len(r.movi) # 0,
         NEW how, how # "after", how = "std" \/ r.idx = <<>>,
         SeekTable(r, how) = r.std, NEW t \in Int, NEW target \in Int
  PROVE  SeekOutcome(F, r, SeekByStd(r, t, target), how, t, target)
<1> DEFINE k == SelectKeyframe(Keyframes(r.std, t), target)
           counter == [u \in Streams |-> StdCounter(OfStream(r.std, u), k.off)]
<1>1. CASE k = None
  <2>1. SeekByStd(r, t, target) = Refuse(r) BY <1>1 DEF SeekByStd
  <2> QED BY <2>1, RefuseOutcome
<1>2. CASE k # None
  <2>1. Chosen(r, how, t, target, k) BY <1>2, ChosenEntry
  <2>2. k.off \in Int BY <2>1, ChosenEntry
  <2>3. SeekByStd(r, t, target) = Land(r, k.off, counter, Landed(t, k.pts, 0))
    BY <1>2 DEF SeekByStd
  <2> HIDE DEF k
  <2>4. counter \in [Streams -> Nat]
    <3>1. r.std \in Tables BY ReaderTables
    <3>2. \A u \in Streams : OfStream(r.std, u) \in Tables BY <3>1, OfStreamTable
    <3>3. \A u \in Streams : StdCounter(OfStream(r.std, u), k.off) \in Nat
      BY <2>2, <3>2, StdCounterType
    <3> QED BY <3>3
  <2>5. \A u \in Streams : counter[u] = Recount(r, how, u, k.off) BY DEF Recount
  <2> HIDE DEF counter
  <2> QED BY <2>1, <2>2, <2>3, <2>4, <2>5, LandOutcome
<1> QED BY <1>1, <1>2

\* The seek by idx1.
LEMMA SeekByIdx1Outcome ==
  ASSUME NEW F, WellFormed(F), NEW r \in Good(F), Len(r.movi) # 0,
         NEW how, how \notin {"after", "std"}, r.idx # <<>>,
         SeekTable(r, how) = r.idx, NEW t \in Int, NEW target \in Int
  PROVE  SeekOutcome(F, r, SeekByIdx1(r, t, target), how, t, target)
<1> DEFINE k == SelectKeyframe(Keyframes(r.idx, t), target)
           off == Clamped(r, k.off)
           counter == [u \in Streams |-> Idx1Counter(r.idx, u, off)]
<1>1. CASE k = None
  <2>1. SeekByIdx1(r, t, target) = Refuse(r) BY <1>1 DEF SeekByIdx1
  <2> QED BY <2>1, RefuseOutcome
<1>2. CASE k # None
  <2>1. Chosen(r, how, t, target, k) BY <1>2, ChosenEntry
  <2>2. k.off \in Int BY <2>1, ChosenEntry
  <2>3. SeekByIdx1(r, t, target) = Land(r, off, counter, Landed(t, k.pts, 0))
    BY <1>2 DEF SeekByIdx1
  <2> HIDE DEF k
  <2>4. off \in Int BY <2>2, ClampedType
  <2> HIDE DEF off
  <2>5. counter \in [Streams -> Nat]
    <3>1. r.idx \in Tables BY ReaderTables
    <3>2. \A u \in Streams : Idx1Counter(r.idx, u, off) \in Nat BY <2>4, <3>1, Idx1CounterType
    <3> QED BY <3>2
  <2>7. \A u \in Streams : counter[u] = Recount(r, how, u, off) BY DEF Recount
  <2> HIDE DEF counter
  <2>6. off = Clamped(r, k.off) BY DEF off
  <2> QED BY <2>1, <2>3, <2>4, <2>5, <2>6, <2>7, LandOutcome
<1> QED BY <1>1, <1>2

\* The seek to the first keyframe at or after the target.
LEMMA SeekAfterOutcome ==
  ASSUME NEW F, WellFormed(F), NEW r \in Good(F), Len(r.movi) # 0,
         NEW t \in Int, NEW target \in Int
  PROVE  SeekOutcome(F, r, SeekAfter(r, t, target), "after", t, target)
<1> DEFINE k == FirstAfter(Timed(r, t), target)
           off == Clamped(r, k.off)
           gap == IF k.pts > target THEN k.pts - target ELSE 0
           counter == [u \in Streams |-> ResetByWalk(r.idx, u, off)]
<1>1. CASE k = None
  <2>1. SeekAfter(r, t, target) = Refuse(r) BY <1>1 DEF SeekAfter, Timed
  <2> QED BY <2>1, RefuseOutcome
<1>2. CASE k # None
  <2>1. Chosen(r, "after", t, target, k) BY <1>2, ChosenEntry
  <2>2. k.off \in Int /\ k.pts \in Nat BY <2>1, ChosenEntry
  <2>3. SeekAfter(r, t, target) = Land(r, off, counter, Landed(t, k.pts, gap))
    BY <1>2 DEF SeekAfter, Timed
  <2> HIDE DEF k
  <2>4. gap \in Int /\ (gap = 0 \/ (gap > 0 /\ gap \in {target - k.pts, k.pts - target}))
    <3> DEFINE p == k.pts
    <3>1. p \in Nat BY <2>2
    <3> HIDE DEF p
    <3>2. CASE p > target
      <4>1. gap = p - target BY <3>2 DEF p
      <4> QED BY <3>1, <3>2, <4>1 DEF p
    <3>3. CASE ~(p > target)
      <4>1. gap = 0 BY <3>3 DEF p
      <4> QED BY <4>1
    <3> QED BY <3>2, <3>3
  <2>5. off \in Int BY <2>2, ClampedType
  <2> HIDE DEF off, gap
  <2>6. counter \in [Streams -> Nat]
    <3>1. r.idx \in Tables BY ReaderTables
    <3>2. \A u \in Streams : ResetByWalk(r.idx, u, off) \in Nat BY <2>5, <3>1, ResetByWalkType
    <3> QED BY <3>2
  <2>8. \A u \in Streams : counter[u] = Recount(r, "after", u, off) BY DEF Recount
  <2> HIDE DEF counter
  <2>7. off = Clamped(r, k.off) BY DEF off
  <2> QED BY <2>1, <2>3, <2>4, <2>5, <2>6, <2>7, <2>8, LandOutcome
<1> QED BY <1>1, <1>2

\* seek_to: by idx1 if there is one.
LEMMA SeekOutcomes ==
  ASSUME NEW F, WellFormed(F), NEW r \in Good(F), Len(r.movi) # 0,
         NEW t \in Int, NEW target \in Int
  PROVE  SeekOutcome(F, r, Seek(r, t, target), "seek_to", t, target)
<1>1. CASE r.idx = <<>>
  <2>1. SeekTable(r, "seek_to") = r.std BY <1>1 DEF SeekTable
  <2>2. Seek(r, t, target) = SeekByStd(r, t, target) BY <1>1 DEF Seek
  <2> QED BY <1>1, <2>1, <2>2, SeekByStdOutcome
<1>2. CASE r.idx # <<>>
  <2>1. SeekTable(r, "seek_to") = r.idx BY <1>2 DEF SeekTable
  <2>2. Seek(r, t, target) = SeekByIdx1(r, t, target) BY <1>2 DEF Seek
  <2> QED BY <1>2, <2>1, <2>2, SeekByIdx1Outcome
<1> QED BY <1>1, <1>2

\* The strict seeks report the distance too.
LEMMA WithGapOutcome ==
  ASSUME NEW F, WellFormed(F), NEW r \in Good(F), Len(r.movi) # 0, NEW how, NEW t \in Int,
         NEW target \in Int, NEW p, SeekOutcome(F, r, p, how, t, target)
  PROVE  SeekOutcome(F, r, WithGap(p, target), how, t, target)
<1> DEFINE q == WithGap(p, target)
           gap == target - p.got.pts
<1>1. p \in Good(F) BY DEF SeekOutcome
<1>2. CASE ~(p.got.kind = "landed" /\ target > p.got.pts)
  <2>1. q = p BY <1>2 DEF WithGap
  <2> QED BY <2>1
<1>3. CASE p.got.kind = "landed" /\ target > p.got.pts
  <2>1. p.got # Refused BY <1>3, AnswersPlain
  <2>2. PICK k : Chosen(p, how, t, target, k) /\ LandedOn(p, t, target, k)
    BY <2>1 DEF SeekOutcome, LandsWell, Unmoved
  <2>3. p \in Readers(F) /\ InPlace(p) BY <1>1 DEF Good
  <2>4. p.got \in Landings
    <3>1. p.got \in Answers(F) BY <2>3 DEF Readers
    <3> QED BY <1>3, <3>1 DEF Answers, Nothing, Eof, Refused, IoError, PacketsIn
  <2>5. p.got.pts \in Nat /\ p.got.pts = k.pts /\ p.got.trk = t
    BY <2>2, <2>4 DEF Landings, LandedOn
  <2>6. gap \in Int /\ gap > 0 /\ gap = target - k.pts
    <3> DEFINE x == p.got.pts
    <3>1. x \in Nat /\ target > x BY <1>3, <2>5
    <3>2. x = k.pts BY <2>5
    <3> HIDE DEF x
    <3>3. target - x \in Int /\ target - x > 0 BY <3>1
    <3> QED BY <3>2, <3>3 DEF x
  <2> HIDE DEF gap
  <2> DEFINE got == [p.got EXCEPT !.gap = gap]
  <2>7. /\ got \in Landings /\ got.kind = "landed" /\ got.trk = t /\ got.pts = k.pts
        /\ got.gap = gap
    BY <2>4, <2>5, <2>6 DEF Landings
  <2>8. q = [p EXCEPT !.got = got]
    <3>1. q = [p EXCEPT !.got.gap = gap] BY <1>3 DEF WithGap, gap
    <3> QED BY <3>1
  <2> HIDE DEF got, q
  <2>9. got \in Answers(F) BY <2>7 DEF Answers
  <2>10. /\ q \in Readers(F) /\ q.got = got /\ q.seg = p.seg /\ q.pos = p.pos
         /\ q.movi = p.movi /\ q.counter = p.counter
    BY <2>3, <2>8, <2>9 DEF Readers
  <2>11. q \in Good(F)
    <3>1. InPlace(q) BY <2>3, <2>10 DEF InPlace
    <3> QED BY <2>10, <3>1 DEF Good
  <2>12. q.movi = p.movi /\ q.idx = p.idx /\ q.std = p.std /\ q.notime = p.notime
    BY <1>1, <2>11, SameTables
  <2>13. Chosen(q, how, t, target, k) BY <2>2, <2>12 DEF Chosen, Timed, SeekTable
  <2>14. LandedOn(q, t, target, k)
    BY <2>2, <2>6, <2>7, <2>10 DEF LandedOn, Clamped, Within
  <2>15. \A u \in Streams : q.counter[u] = Recount(q, how, u, q.pos)
    <3>1. \A u \in Streams : p.counter[u] = Recount(p, how, u, p.pos)
      BY <2>1 DEF SeekOutcome, Unmoved
    <3> QED BY <2>10, <2>12, <3>1 DEF Recount
  <2>16. SameSideband(r, q)
    <3>1. SameSideband(p, q) BY <2>3, <2>8 DEF Readers, SameSideband
    <3>2. SameSideband(r, p) BY DEF SeekOutcome
    <3> QED BY <3>1, <3>2 DEF SameSideband
  <2> QED BY <2>11, <2>13, <2>14, <2>15, <2>16 DEF SeekOutcome, LandsWell, q
<1> QED BY <1>2, <1>3

-----------------------------------------------------------------------------
(* The invariant: the reader is one of its file, which has a movi list, and  *)
(* the last landing was a good one.                                          *)

Candidates(r, how, t) == IF how = "after" THEN Timed(r, t) ELSE Keyframes(SeekTable(r, how), t)

\* A seek lands inside a segment, in front of the chunk of an entry its index
\* lists as a keyframe of the stream asked for; of all of these it is the latest
\* at or before the target, or the first (seek_to_first_video_keyframe_after: the
\* earliest at or after it, or the latest).
LandsOnListed ==
  d.got.kind = "landed" =>
    \E i \in DOMAIN Candidates(d, asked.how, asked.trk) :
      LET k == Candidates(d, asked.how, asked.trk)[i] IN
      /\ Chosen(d, asked.how, asked.trk, asked.target, k)
      /\ LandedOn(d, asked.trk, asked.target, k)

\* Every packet returned is a data chunk of its stream that stands in a segment
\* with its whole body.
PacketsStand ==
  d.got.kind = "packet" =>
    /\ d.got.trk \in Streams
    /\ d.got.at \in SideOf({"data"}, d.got.trk)

\* next_packet answers, and the packet it returns stood at or behind the reader
\* and is now before it: none is returned twice without a seek between.
NextPacketAdvances ==
  [][NextPacket => /\ d'.got # Nothing
                   /\ d'.got.kind = "packet" => d.pos <= d'.got.at /\ d'.got.at < d'.pos]_vars

ReaderOK == d = Closed \/ (d \in Good(file) /\ Len(d.movi) # 0)
LandingOK == d.got.kind = "landed" => LandsWell(d, asked.how, asked.trk, asked.target)
DInv == file \in Files /\ ReaderOK /\ LandingOK

\* open_avi establishes it.
LEMMA DInvInit == Init => DInv
<1> SUFFICES ASSUME Init PROVE DInv
  OBVIOUS
<1>1. file \in Files /\ WellFormed(file) /\ d = Open(file) BY FilesAssumption DEF Init
<1>2. d = Closed \/ (d \in Good(file) /\ d.got = Nothing) BY <1>1, OpenGood
<1>3. CASE d = Closed
  <2>1. d.got.kind # "landed" BY <1>3 DEF Closed, IoError
  <2> QED BY <1>1, <1>3, <2>1 DEF DInv, ReaderOK, LandingOK
<1>4. CASE d # Closed
  <2>1. d.got.kind # "landed" BY <1>2, <1>4, AnswersPlain
  <2>2. MoviSegments(file) # <<>> BY <1>1, <1>4 DEF Open
  <2>3. d.movi = MoviSegments(file) /\ MoviSegments(file) \in Segments
    BY <1>1, <1>2, <1>4, ReaderFields
  <2>4. Len(d.movi) # 0 BY <2>2, <2>3, EmptySeq DEF Segments
  <2> QED BY <1>1, <1>2, <1>4, <2>1, <2>4 DEF DInv, ReaderOK, LandingOK
<1> QED BY <1>3, <1>4

\* An open demuxer is a reader of its file.
LEMMA OpenReader ==
  ASSUME DInv, d.open
  PROVE  WellFormed(file) /\ d \in Good(file) /\ Len(d.movi) # 0
<1>1. d # Closed BY DEF Closed
<1> QED BY <1>1, FilesAssumption DEF DInv, ReaderOK

\* next_packet.
LEMMA DInvNextPacket ==
  ASSUME DInv, NextPacket
  PROVE  /\ DInv'
         /\ d'.got # Nothing
         /\ d'.got.kind = "packet" => d.pos <= d'.got.at /\ d'.got.at < d'.pos
<1>1. WellFormed(file) /\ d \in Good(file) /\ Len(d.movi) # 0 BY OpenReader DEF NextPacket
<1>2. d' = ReadPacket(file, d) /\ file' = file BY DEF NextPacket
<1> DEFINE q == ReadPacket(file, d)
<1>3. /\ q \in Good(file) /\ q.got # Nothing
      /\ q.got.kind = "packet" => d.pos <= q.got.at /\ q.got.at < q.pos
      /\ q.got.kind # "landed"
  BY <1>1, ReadPacketFacts
<1> HIDE DEF q
<1>4. q.movi = d.movi BY <1>1, <1>3, SameTables
<1>5. d' = q BY <1>2 DEF q
<1> QED BY <1>1, <1>2, <1>3, <1>4, <1>5 DEF DInv, ReaderOK, LandingOK

\* A seek that comes to a good outcome.
LEMMA DInvSought ==
  ASSUME DInv, d.open, NEW t, NEW target, NEW how,
         NEW to, SeekOutcome(file, d, to, how, t, target), Sought(to, how, t, target)
  PROVE  DInv'
<1>1. WellFormed(file) /\ d \in Good(file) /\ Len(d.movi) # 0 BY OpenReader
<1>2. d' = to /\ file' = file BY DEF Sought
<1>3. to \in Good(file) BY DEF SeekOutcome
<1>4. to.movi = d.movi BY <1>1, <1>3, SameTables
<1>5. ReaderOK' BY <1>1, <1>2, <1>3, <1>4 DEF ReaderOK
<1>6. CASE to.got.kind = "landed"
  <2>1. asked' = [how |-> how, trk |-> t, target |-> target] BY <1>6 DEF Sought
  <2>2. to.got # Refused BY <1>6, AnswersPlain
  <2>3. LandsWell(to, how, t, target) BY <2>2 DEF SeekOutcome, Unmoved
  <2>4. LandingOK' BY <1>2, <2>1, <2>3 DEF LandingOK
  <2> QED BY <1>2, <1>5, <2>4 DEF DInv
<1>7. CASE to.got.kind # "landed"
  <2>1. LandingOK' BY <1>2, <1>7 DEF LandingOK
  <2> QED BY <1>2, <1>5, <2>1 DEF DInv
<1> QED BY <1>6, <1>7

\* A step that is a seek, with its good outcome.
Seeks ==
  d.open /\ \E how, t, target, to :
    /\ how \in {"seek_to", "std", "after"} /\ target \in Int
    /\ SeekOutcome(file, d, to, how, t, target) /\ Sought(to, how, t, target)

\* Every step is next_packet or a seek.
LEMMA NextCases ==
  ASSUME DInv, Next
  PROVE  NextPacket \/ Seeks
<1>1. ASSUME NEW t \in AnyStream, NEW target \in Targets, SeekTo(t, target)
      PROVE  Seeks
  <2>1. t \in Int /\ target \in Int BY DemuxerAssumption, ReaderAssumption DEF AnyStream
  <2>2. d.open /\ Sought(Seek(d, t, target), "seek_to", t, target) BY <1>1 DEF SeekTo
  <2>3. WellFormed(file) /\ d \in Good(file) /\ Len(d.movi) # 0 BY <2>2, OpenReader
  <2>4. SeekOutcome(file, d, Seek(d, t, target), "seek_to", t, target)
    BY <2>1, <2>3, SeekOutcomes
  <2> QED BY <2>1, <2>2, <2>4 DEF Seeks
<1>2. ASSUME NEW t \in AnyStream, NEW target \in Targets, SeekToKeyframeStrict(t, target)
      PROVE  Seeks
  <2> DEFINE to == WithGap(Seek(d, t, target), target)
  <2>1. t \in Int /\ target \in Int BY DemuxerAssumption, ReaderAssumption DEF AnyStream
  <2>2. d.open /\ Sought(to, "seek_to", t, target) BY <1>2 DEF SeekToKeyframeStrict
  <2>3. WellFormed(file) /\ d \in Good(file) /\ Len(d.movi) # 0 BY <2>2, OpenReader
  <2>4. SeekOutcome(file, d, to, "seek_to", t, target)
    BY <2>1, <2>3, SeekOutcomes, WithGapOutcome
  <2> QED BY <2>1, <2>2, <2>4 DEF Seeks
<1>3. ASSUME NEW t \in AnyStream, NEW target \in Targets,
             SeekToKeyframeStrictViaStdIndex(t, target)
      PROVE  Seeks
  <2> DEFINE to == WithGap(SeekByStd(d, t, target), target)
  <2>1. t \in Int /\ target \in Int BY DemuxerAssumption, ReaderAssumption DEF AnyStream
  <2>2. d.open /\ Sought(to, "std", t, target) BY <1>3 DEF SeekToKeyframeStrictViaStdIndex
  <2>3. WellFormed(file) /\ d \in Good(file) /\ Len(d.movi) # 0 BY <2>2, OpenReader
  <2>4. "std" # "after" /\ SeekTable(d, "std") = d.std BY DEF SeekTable
  <2>5. SeekOutcome(file, d, SeekByStd(d, t, target), "std", t, target)
    BY <2>1, <2>3, <2>4, SeekByStdOutcome
  <2>6. SeekOutcome(file, d, to, "std", t, target) BY <2>1, <2>3, <2>5, WithGapOutcome
  <2> QED BY <2>1, <2>2, <2>6 DEF Seeks
<1>4. ASSUME NEW t \in AnyStream, NEW target \in Targets,
             SeekToFirstVideoKeyframeAfter(t, target)
      PROVE  Seeks
  <2>1. t \in Int /\ target \in Int BY DemuxerAssumption, ReaderAssumption DEF AnyStream
  <2>2. d.open /\ Sought(SeekAfter(d, t, target), "after", t, target)
    BY <1>4 DEF SeekToFirstVideoKeyframeAfter
  <2>3. WellFormed(file) /\ d \in Good(file) /\ Len(d.movi) # 0 BY <2>2, OpenReader
  <2>4. SeekOutcome(file, d, SeekAfter(d, t, target), "after", t, target)
    BY <2>1, <2>3, SeekAfterOutcome
  <2> QED BY <2>1, <2>2, <2>4 DEF Seeks
<1> QED BY <1>1, <1>2, <1>3, <1>4 DEF Next

\* Every step keeps it.
LEMMA DInvNext == DInv /\ [Next]_vars => DInv'
<1> SUFFICES ASSUME DInv, [Next]_vars PROVE DInv'
  OBVIOUS
<1>1. CASE UNCHANGED vars
  BY <1>1 DEF vars, DInv, ReaderOK, LandingOK
<1>2. CASE NextPacket BY <1>2, DInvNextPacket
<1>3. CASE Seeks
  <2>1. PICK how, t, target, to :
          SeekOutcome(file, d, to, how, t, target) /\ Sought(to, how, t, target)
    BY <1>3 DEF Seeks
  <2>2. d.open BY <1>3 DEF Seeks
  <2> QED BY <2>1, <2>2, DInvSought
<1> QED BY <1>1, <1>2, <1>3, NextCases

\* The invariant always holds.
LEMMA DInvAlways == Spec => []DInv
BY DInvInit, DInvNext, PTL DEF Spec

\* Of whatever well-formed file, whole or cut, the reader has its type and stays
\* in its segment through every order of reads and seeks.
THEOREM TypeCorrect == Spec => []TypeOK
<1>1. DInv => TypeOK
  <2> SUFFICES ASSUME DInv, d.open PROVE TypeOK
    BY DEF TypeOK
  <2>1. WellFormed(file) /\ d \in Good(file) BY OpenReader
  <2>2. /\ d.seg \in 1 .. Len(d.movi) + 1 /\ d.pos \in Nat /\ d.counter \in [Streams -> Nat]
        /\ d \in Readers(file)
    BY <2>1, ReaderFields
  <2>3. d.counts \in [SideIds -> [Streams -> Nat]] /\ d.got \in Answers(file)
    BY <2>2 DEF Readers
  <2>4. \A k \in SideIds, t \in Streams : d.counts[k][t] \in Nat BY <2>3
  <2>5. d.got.kind \in {"nothing", "packet", "landed", "eof", "refused", "io_error"}
    BY <2>3 DEF Answers, PacketsIn, Landings, Nothing, Eof, Refused, IoError
  <2> QED BY <2>2, <2>4, <2>5 DEF TypeOK
<1> QED BY <1>1, DInvAlways, PTL

\* No reader, wherever its seeks have gone and wherever the file is cut, returns
\* bytes that are not a whole packet of the stream it names.
THEOREM PacketsAreWhole == Spec => []PacketsStand
<1>1. DInv => PacketsStand
  <2> SUFFICES ASSUME DInv, d.got.kind = "packet"
               PROVE  d.got.trk \in Streams /\ d.got.at \in SideOf({"data"}, d.got.trk)
    BY DEF PacketsStand
  <2>1. d # Closed BY DEF Closed, IoError
  <2>2. WellFormed(file) /\ d \in Good(file) BY <2>1, FilesAssumption DEF DInv, ReaderOK
  <2>3. d.got \in Answers(file) /\ d.movi = MoviSegments(file) BY <2>2 DEF Good, Readers
  <2>4. d.got \in PacketsIn(file)
    BY <2>3 DEF Answers, Landings, Nothing, Eof, Refused, IoError
  <2> QED BY <2>3, <2>4 DEF PacketsIn, SideOf
<1> QED BY <1>1, DInvAlways, PTL

\* next_packet comes to an answer on every file, and never goes back.
THEOREM ReadingAdvances == Spec => NextPacketAdvances
<1>1. DInv /\ [Next]_vars =>
        [NextPacket => /\ d'.got # Nothing
                       /\ d'.got.kind = "packet" =>
                            d.pos <= d'.got.at /\ d'.got.at < d'.pos]_vars
  BY DInvNextPacket
<1> QED BY <1>1, DInvAlways, PTL DEF Spec, NextPacketAdvances

\* The landing of every seek, over whichever of the two indexes and whether the
\* table is bisected or walked.
THEOREM SeeksAreListed == Spec => []LandsOnListed
<1>1. DInv => LandsOnListed
  <2> SUFFICES ASSUME DInv, d.got.kind = "landed" PROVE LandsOnListed
    BY DEF LandsOnListed
  <2> DEFINE s == Candidates(d, asked.how, asked.trk)
  <2>1. PICK k : /\ Chosen(d, asked.how, asked.trk, asked.target, k)
                 /\ LandedOn(d, asked.trk, asked.target, k)
    BY DEF DInv, LandingOK, LandsWell
  <2>2. \E i \in DOMAIN s : k = s[i] BY <2>1 DEF Chosen, Candidates, Selected, SelectedAfter
  <2> HIDE DEF s
  <2> QED BY <2>1, <2>2 DEF LandsOnListed, s
<1> QED BY <1>1, DInvAlways, PTL
=============================================================================
