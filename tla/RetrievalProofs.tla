--------------------------- MODULE RetrievalProofs ---------------------------
(***************************************************************************)
(* What a turn's retrieval, its tools and the browse surface keep to, for  *)
(* any sound corpus, policy file, principal and ranking of the hits.       *)
(***************************************************************************)
EXTENDS Browse, FiniteSetTheorems, WellFoundedInduction, TLAPS

\* A set of numbers has a least one.
LEMMA Least ==
    ASSUME NEW T \in SUBSET Nat, T # {}
    PROVE  \E n \in T : \A m \in T : n <= m
<1>1. PICK n \in T : \A m \in T : ~(<<m, n>> \in OpToRel(<, Nat))
    BY NatLessThanWellFounded, WFMin
<1>2. \A m \in T : ~(m < n)
    BY <1>1 DEF OpToRel
<1>3. \A m \in T : m \in Nat /\ n \in Nat
    OBVIOUS
<1>. QED BY <1>2, <1>3

\* A set that holds 0 and, with each number below k, the next, holds all up to k.
LEMMA UpTo ==
    ASSUME NEW k \in Nat, NEW T, 0 \in T, \A n \in 0 .. k : n \in T /\ n < k => n + 1 \in T
    PROVE  0 .. k \subseteq T
<1>. SUFFICES ASSUME (0 .. k) \ T # {} PROVE FALSE
    OBVIOUS
<1>1. PICK n \in (0 .. k) \ T : \A m \in (0 .. k) \ T : n <= m
    <2>1. (0 .. k) \ T \in SUBSET Nat
        OBVIOUS
    <2>. QED BY <2>1, Least
<1>2. n # 0 /\ n - 1 \in 0 .. k /\ n - 1 < k /\ ~(n <= n - 1) /\ (n - 1) + 1 = n
    BY <1>1
<1>3. n - 1 \in T
    BY <1>1, <1>2
<1>. QED BY <1>1, <1>2, <1>3

\* f lists the results of applying F over and over, from a on.
Iterated(f, F, a, k) == \A n \in 0 .. k : f[n] = IF n = 0 THEN a ELSE F[f[n - 1]]

LEMMA Iterates ==
    ASSUME NEW A, NEW F \in [A -> A], NEW a \in A, NEW N \in Nat
    PROVE  \E f \in [0 .. N -> A] : Iterated(f, F, a, N)
<1>. DEFINE Lists(f, k) == f \in [0 .. k -> A] /\ Iterated(f, F, a, k)
            T == {k \in 0 .. N : \E f : Lists(f, k)}
<1>1. 0 \in T
    <2>1. Lists([n \in 0 .. 0 |-> a], 0)
        BY DEF Iterated
    <2>2. 0 \in 0 .. N
        OBVIOUS
    <2>. HIDE DEF Lists
    <2>. QED BY <2>1, <2>2
<1>2. ASSUME NEW k \in 0 .. N, k \in T, k < N PROVE k + 1 \in T
    <2>1. PICK f : Lists(f, k)
        BY <1>2
    <2>. DEFINE g == [n \in 0 .. (k + 1) |-> IF n = k + 1 THEN F[f[k]] ELSE f[n]]
    <2>2. f[k] \in A /\ F[f[k]] \in A
        BY <2>1
    <2>3. g \in [0 .. (k + 1) -> A]
        BY <2>1, <2>2
    <2>4. ASSUME NEW n \in 0 .. (k + 1) PROVE g[n] = IF n = 0 THEN a ELSE F[g[n - 1]]
        <3>1. CASE n = k + 1
            BY <3>1
        <3>2. CASE n # k + 1
            BY <2>1, <3>2 DEF Iterated
        <3>. QED BY <3>1, <3>2
    <2>5. Lists(g, k + 1)
        BY <2>3, <2>4 DEF Iterated
    <2>6. k + 1 \in 0 .. N
        BY <1>2
    <2>. QED BY <2>5, <2>6
<1>. HIDE DEF T
<1>3. N \in T
    BY <1>1, <1>2, UpTo
<1>. QED BY <1>3 DEF T

-----------------------------------------------------------------------------
(* Spreading, walks and joining trees.                                     *)

\* What is spread to is the least set that holds what it started from and,
\* with each of its elements, what follows it.
LEMMA SpreadIsLeast ==
    ASSUME NEW S, IsFiniteSet(S), NEW next \in [S -> SUBSET S], NEW from \in SUBSET S
    PROVE  /\ Spread(from, next) \in SUBSET S /\ from \subseteq Spread(from, next)
           /\ \A a \in Spread(from, next) : next[a] \subseteq Spread(from, next)
           /\ \A D : from \subseteq D /\ (\A a \in S \cap D : next[a] \subseteq D)
                         => Spread(from, next) \subseteq D
<1>. DEFINE N == Cardinality(DOMAIN next)
            Follow(seen) == seen \cup UNION {next[a] : a \in seen}
            Loop(m) == [n \in 0 .. N |-> IF n = 0 THEN from ELSE Follow(m[n - 1])]
            Closed(D) == from \subseteq D /\ \A a \in S \cap D : next[a] \subseteq D
<1>1. DOMAIN next = S /\ N = Cardinality(S) /\ N \in Nat
    BY FS_CardinalityType
<1>2. \A X \in SUBSET S : Follow(X) \in SUBSET S /\ X \subseteq Follow(X)
    OBVIOUS
<1>. HIDE DEF N
<1>3. \E m : m = Loop(m)
    <2>. DEFINE A == SUBSET S
                F == [X \in A |-> Follow(X)]
    <2>1. F \in [A -> A] /\ from \in A
        BY <1>2
    <2>2. \A X \in A : F[X] = Follow(X)
        OBVIOUS
    <2>. HIDE DEF F, A, Follow
    <2>3. PICK m \in [0 .. N -> A] : Iterated(m, F, from, N)
        BY <1>1, <2>1, Iterates
    <2>4. ASSUME NEW n \in 0 .. N PROVE m[n] = IF n = 0 THEN from ELSE Follow(m[n - 1])
        <3>1. CASE n = 0
            BY <2>3, <3>1 DEF Iterated
        <3>2. CASE n # 0
            <4>1. n - 1 \in 0 .. N
                BY <1>1, <3>2
            <4>2. F[m[n - 1]] = Follow(m[n - 1])
                BY <2>2, <2>3, <4>1
            <4>. QED BY <2>3, <3>2, <4>2 DEF Iterated
        <3>. QED BY <3>1, <3>2
    <2>5. m = Loop(m)
        BY <2>3, <2>4
    <2>. QED BY <2>5
<1>. DEFINE round == CHOOSE m : m = Loop(m)
<1>4. round = Loop(round)
    BY <1>3, Zenon
<1>5. Spread(from, next) = round[N]
    BY Zenon DEF Spread, N
<1>. HIDE DEF round
<1>6. \A n \in 0 .. N : round[n] = IF n = 0 THEN from ELSE Follow(round[n - 1])
    <2>1. \A n \in 0 .. N : round[n] = Loop(round)[n]
        BY <1>4, Zenon
    <2>. QED BY <2>1
<1>. HIDE DEF Follow
<1>7. round[0] = from /\ \A n \in 0 .. N : n < N => round[n + 1] = Follow(round[n])
    <2>1. 0 \in 0 .. N /\ \A n \in 0 .. N : n < N => n + 1 \in 0 .. N /\ n + 1 # 0 /\ (n + 1) - 1 = n
        BY <1>1
    <2>. QED BY <1>6, <2>1, Zenon
<1>8. ASSUME NEW D, Closed(D) PROVE \A n \in 0 .. N : round[n] \in SUBSET S /\ round[n] \subseteq D
    <2>. DEFINE T == {n \in 0 .. N : round[n] \in SUBSET S /\ round[n] \subseteq D}
    <2>1. 0 \in T
        BY <1>1, <1>7, <1>8
    <2>2. ASSUME NEW n \in 0 .. N, n \in T, n < N PROVE n + 1 \in T
        <3>1. round[n + 1] = Follow(round[n]) /\ n + 1 \in 0 .. N
            BY <1>1, <1>7, <2>2
        <3>. QED BY <1>8, <2>2, <3>1 DEF Follow
    <2>. HIDE DEF T
    <2>3. 0 .. N \subseteq T
        BY <1>1, <2>1, <2>2, UpTo
    <2>. QED BY <2>3 DEF T
<1>9. Closed(S)
    OBVIOUS
<1>10. \A n \in 0 .. N : round[n] \in SUBSET S
    BY <1>8, <1>9
<1>. DEFINE Good(n) == /\ from \subseteq round[n]
                       /\ Follow(round[n]) = round[n] \/ n <= Cardinality(round[n])
            T == {n \in 0 .. N : Good(n)}
<1>11. 0 \in T
    <2>1. IsFiniteSet(from)
        BY FS_Subset
    <2>2. Cardinality(from) \in Nat
        BY <2>1, FS_CardinalityType
    <2>. QED BY <1>1, <1>7, <2>2
<1>12. ASSUME NEW n \in 0 .. N, n \in T, n < N PROVE n + 1 \in T
    <2>1. round[n + 1] = Follow(round[n]) /\ n + 1 \in 0 .. N
        BY <1>1, <1>7, <1>12
    <2>2. from \subseteq round[n + 1]
        BY <1>12, <2>1 DEF Follow
    <2>3. CASE Follow(round[n]) = round[n]
        BY <2>1, <2>2, <2>3
    <2>4. CASE Follow(round[n]) # round[n]
        <3>. DEFINE B == round[n]  C == round[n + 1]
        <3>1. B \in SUBSET C /\ B # C /\ IsFiniteSet(C)
            <4>1. C \in SUBSET S
                BY <1>10, <2>1
            <4>2. IsFiniteSet(C)
                BY <4>1, FS_Subset
            <4>. QED BY <2>1, <2>4, <4>2 DEF Follow
        <3>2. n <= Cardinality(B)
            BY <1>12, <2>4
        <3>. HIDE DEF B, C
        <3>3. /\ Cardinality(B) <= Cardinality(C) /\ Cardinality(B) # Cardinality(C)
              /\ Cardinality(B) \in Nat /\ Cardinality(C) \in Nat
            BY <3>1, FS_Subset, FS_CardinalityType
        <3>4. n + 1 <= Cardinality(C)
            BY <3>2, <3>3
        <3>. QED BY <2>1, <2>2, <3>4 DEF C
    <2>. QED BY <2>3, <2>4
<1>. HIDE DEF T
<1>13. 0 .. N \subseteq T
    BY <1>1, <1>11, <1>12, UpTo
<1>14. N \in 0 .. N /\ Good(N) /\ round[N] \in SUBSET S
    BY <1>1, <1>10, <1>13 DEF T
<1>15. Follow(round[N]) = round[N]
    <2>1. CASE N <= Cardinality(round[N])
        <3>1. Cardinality(round[N]) <= Cardinality(S) /\ Cardinality(round[N]) \in Nat
            BY <1>14, FS_Subset, FS_CardinalityType
        <3>2. Cardinality(round[N]) = Cardinality(S)
            BY <1>1, <2>1, <3>1
        <3>3. round[N] = S
            BY <1>14, <3>2, FS_Subset
        <3>. QED BY <1>2, <3>3 DEF Follow
    <2>. QED BY <1>14, <2>1
<1>16. \A a \in round[N] : next[a] \subseteq round[N]
    BY <1>15 DEF Follow
<1>17. \A D : Closed(D) => round[N] \subseteq D
    BY <1>8, <1>14
<1>. QED BY <1>5, <1>14, <1>16, <1>17

\* A walk stays inside, holds where it started, leaves no edge unwalked, and
\* is no longer than that.
LEMMA ReachIsLeast ==
    ASSUME NEW within, IsFiniteSet(within), NEW from \in SUBSET within, NEW edges
    PROVE  /\ Reach(from, within, edges) \in SUBSET within /\ from \subseteq Reach(from, within, edges)
           /\ \A s \in Reach(from, within, edges), t \in within :
                {s, t} \in edges => t \in Reach(from, within, edges)
           /\ \A D : from \subseteq D
                     /\ (\A s \in within \cap D, t \in within : {s, t} \in edges => t \in D)
                         => Reach(from, within, edges) \subseteq D
<1>. DEFINE next == [s \in within |-> {t \in within : {s, t} \in edges}]
<1>1. next \in [within -> SUBSET within] /\ Reach(from, within, edges) = Spread(from, next)
    BY DEF Reach
<1>2. \A s \in within : next[s] = {t \in within : {s, t} \in edges}
    OBVIOUS
<1>. HIDE DEF next
<1>3. /\ Spread(from, next) \in SUBSET within /\ from \subseteq Spread(from, next)
      /\ \A a \in Spread(from, next) : next[a] \subseteq Spread(from, next)
      /\ \A D : from \subseteq D /\ (\A a \in within \cap D : next[a] \subseteq D)
                    => Spread(from, next) \subseteq D
    BY <1>1, SpreadIsLeast
<1>4. ASSUME NEW D, from \subseteq D,
             \A s \in within \cap D, t \in within : {s, t} \in edges => t \in D
      PROVE  Spread(from, next) \subseteq D
    <2>1. \A a \in within \cap D : next[a] \subseteq D
        BY <1>2, <1>4
    <2>. QED BY <1>3, <1>4, <2>1
<1>5. ASSUME NEW s \in Spread(from, next), NEW t \in within, {s, t} \in edges
      PROVE  t \in Spread(from, next)
    <2>1. s \in within
        BY <1>3
    <2>2. t \in next[s]
        BY <1>2, <1>5, <2>1
    <2>. QED BY <1>3, <2>2
<1>. QED BY <1>1, <1>3, <1>4, <1>5

\* What starts where another walk comes, with no more room and no more edges,
\* comes nowhere else.
LEMMA ReachGrows ==
    ASSUME NEW wide, IsFiniteSet(wide), NEW from2 \in SUBSET wide, NEW edges2,
           NEW within \in SUBSET wide, NEW from \in SUBSET within, NEW edges,
           from \subseteq Reach(from2, wide, edges2),
           \A s, t \in within : {s, t} \in edges => {s, t} \in edges2
    PROVE  Reach(from, within, edges) \subseteq Reach(from2, wide, edges2)
<1>. DEFINE D == Reach(from2, wide, edges2)
<1>1. IsFiniteSet(within)
    BY FS_Subset
<1>2. \A s \in D, t \in wide : {s, t} \in edges2 => t \in D
    BY ReachIsLeast
<1>3. \A X : from \subseteq X /\ (\A s \in within \cap X, t \in within : {s, t} \in edges => t \in X)
               => Reach(from, within, edges) \subseteq X
    BY <1>1, ReachIsLeast
<1>. HIDE DEF D
<1>4. \A s \in within \cap D, t \in within : {s, t} \in edges => t \in D
    BY <1>2
<1>5. from \subseteq D
    BY DEF D
<1>6. Reach(from, within, edges) \subseteq D
    BY <1>3, <1>4, <1>5
<1>. QED BY <1>6 DEF D

\* A walk from one place.
LEMMA ReachFromOne ==
    ASSUME NEW within, IsFiniteSet(within), NEW y \in within, NEW edges
    PROVE  /\ Reach({y}, within, edges) \in SUBSET within /\ y \in Reach({y}, within, edges)
           /\ \A s \in Reach({y}, within, edges), u \in within :
                {s, u} \in edges => u \in Reach({y}, within, edges)
           /\ \A X : y \in X /\ (\A s \in within \cap X, u \in within : {s, u} \in edges => u \in X)
                       => Reach({y}, within, edges) \subseteq X
<1>. DEFINE From == Reach({y}, within, edges)
<1>1. PICK start \in SUBSET within : start = {y}
    OBVIOUS
<1>2. /\ Reach(start, within, edges) \in SUBSET within /\ start \subseteq Reach(start, within, edges)
      /\ \A s \in Reach(start, within, edges), u \in within :
           {s, u} \in edges => u \in Reach(start, within, edges)
      /\ \A X : start \subseteq X /\ (\A s \in within \cap X, u \in within : {s, u} \in edges => u \in X)
                  => Reach(start, within, edges) \subseteq X
    BY ReachIsLeast
<1>3. y \in start /\ From = Reach(start, within, edges) /\ (\A X : y \in X => start \subseteq X)
    BY <1>1
<1>4. /\ From \in SUBSET within /\ y \in From
      /\ \A s \in From, u \in within : {s, u} \in edges => u \in From
      /\ \A X : y \in X /\ (\A s \in within \cap X, u \in within : {s, u} \in edges => u \in X)
                  => From \subseteq X
    <2>. HIDE DEF From
    <2>. QED BY <1>2, <1>3
<1>. QED BY <1>4

\* The same walk where there is as much room and as many edges.
LEMMA ReachWidens ==
    ASSUME NEW wide, IsFiniteSet(wide), NEW within \in SUBSET wide, NEW x \in wide, NEW y \in within,
           NEW edges2, NEW edges, y \in Reach({x}, wide, edges2),
           \A s, t \in within : {s, t} \in edges => {s, t} \in edges2
    PROVE  Reach({y}, within, edges) \subseteq Reach({x}, wide, edges2)
<1>. DEFINE D == Reach({x}, wide, edges2)
<1>1. IsFiniteSet(within)
    BY FS_Subset
<1>2. \A s \in D, t \in wide : {s, t} \in edges2 => t \in D
    BY ReachFromOne
<1>3. \A X : y \in X /\ (\A s \in within \cap X, t \in within : {s, t} \in edges => t \in X)
               => Reach({y}, within, edges) \subseteq X
    BY <1>1, ReachFromOne
<1>. HIDE DEF D
<1>4. \A s \in within \cap D, t \in within : {s, t} \in edges => t \in D
    BY <1>2
<1>5. y \in D
    BY DEF D
<1>6. Reach({y}, within, edges) \subseteq D
    BY <1>3, <1>4, <1>5
<1>. QED BY <1>6 DEF D

\* Every walk can be walked back.
LEMMA ReachBack ==
    ASSUME NEW within, IsFiniteSet(within), NEW edges, NEW x \in within,
           NEW t \in Reach({x}, within, edges)
    PROVE  t \in within /\ x \in Reach({t}, within, edges)
<1>. DEFINE From(y) == Reach({y}, within, edges)
            D == {y \in within : x \in From(y)}
<1>1. ASSUME NEW y \in within
      PROVE  /\ From(y) \in SUBSET within /\ y \in From(y)
             /\ \A s \in From(y), u \in within : {s, u} \in edges => u \in From(y)
             /\ \A X : y \in X /\ (\A s \in within \cap X, u \in within : {s, u} \in edges => u \in X)
                         => From(y) \subseteq X
    <2>1. /\ From(y) \in SUBSET within /\ y \in From(y)
          /\ \A s \in From(y), u \in within : {s, u} \in edges => u \in From(y)
        BY ReachFromOne
    <2>2. \A X : y \in X /\ (\A s \in within \cap X, u \in within : {s, u} \in edges => u \in X)
                   => From(y) \subseteq X
        BY ReachFromOne
    <2>. QED BY <2>1, <2>2
<1>3. ASSUME NEW s \in within \cap D, NEW u \in within, {s, u} \in edges PROVE u \in D
    <2>1. {u, s} \in edges
        <3>1. {u, s} = {s, u}
            OBVIOUS
        <3>. QED BY <1>3, <3>1
    <2>2. s \in From(u)
        BY <1>1, <2>1
    <2>3. From(s) \subseteq From(u)
        BY <2>2, ReachWidens
    <2>. QED BY <2>3
<1>4. x \in D
    BY <1>1
<1>. HIDE DEF D
<1>6. From(x) \subseteq D
    BY <1>1, <1>3, <1>4
<1>. QED BY <1>6 DEF D

\* The way to the nearest terminal hangs together with the tree it leaves from.
LEMMA NearestPathJoins ==
    ASSUME NEW tables, IsFiniteSet(tables), NEW tree \in SUBSET tables,
           NEW goals \in SUBSET tables, NEW edges
    PROVE  LET path == _nearest_path(tree, goals, tables, edges)
           IN  /\ path \in SUBSET tables
               /\ tree \cup path \subseteq Reach(tree, tree \cup path, edges)
<1>. DEFINE others == tables \ (tree \cup goals)
            Ways(n) == {w \in kSubset(n, others) \X goals :
                          w[2] \in Reach(tree, tree \cup w[1] \cup {w[2]}, edges)}
            lengths == {n \in 0..Cardinality(others) : Ways(n) # {}}
            way == CHOOSE w \in Ways(Min(lengths)) : TRUE
            path == _nearest_path(tree, goals, tables, edges)
<1>1. path = IF lengths = {} THEN {} ELSE way[1] \cup {way[2]}
    BY Zenon DEF _nearest_path
<1>2. IsFiniteSet(others) /\ Cardinality(others) \in Nat
    BY FS_Subset, FS_CardinalityType
<1>3. IsFiniteSet(tree)
    BY FS_Subset
<1>4. CASE lengths = {}
    <2>1. path = {}
        BY <1>1, <1>4
    <2>2. tree \subseteq Reach(tree, tree, edges)
        BY <1>3, ReachIsLeast
    <2>3. tree \cup path = tree
        BY <2>1
    <2>. QED BY <2>1, <2>2, <2>3
<1>5. CASE lengths # {}
    <2>. DEFINE m == Min(lengths)
    <2>1. m \in lengths /\ \A n \in lengths : m <= n
        <3>1. lengths \in SUBSET Nat
            BY <1>2
        <3>. HIDE DEF lengths
        <3>2. \E n \in lengths : \A k \in lengths : n <= k
            BY <1>5, <3>1, Least
        <3>. QED BY <3>2 DEF Min
    <2>2. Ways(m) # {} /\ m \in 0 .. Cardinality(others)
        BY <2>1
    <2>. HIDE DEF m
    <2>3. way \in Ways(m)
        <3>. HIDE DEF Ways
        <3>. QED BY <2>2 DEF m
    <2>. HIDE DEF way
    <2>. DEFINE w1 == way[1]  w2 == way[2]
                X == tree \cup w1 \cup {w2}
                U == w1 \cap Reach(tree, X, edges)
                Y == tree \cup U \cup {w2}
    <2>4. w1 \in kSubset(m, others) /\ w2 \in goals /\ w2 \in Reach(tree, X, edges)
        BY <2>3
    <2>5. w1 \in SUBSET others /\ Cardinality(w1) = m
        BY <2>4 DEF kSubset
    <2>. HIDE DEF w1, w2
    <2>6. /\ X \in SUBSET tables /\ IsFiniteSet(X) /\ Y \in SUBSET X /\ IsFiniteSet(Y) /\ IsFiniteSet(w1)
        <3>1. X \in SUBSET tables /\ Y \in SUBSET X /\ w1 \in SUBSET tables
            BY <2>4, <2>5
        <3>2. IsFiniteSet(X) /\ IsFiniteSet(w1)
            BY <3>1, FS_Subset
        <3>. QED BY <3>1, <3>2, FS_Subset
    <2>7. U = w1
        <3>. SUFFICES ASSUME U # w1 PROVE FALSE
            OBVIOUS
        <3>1. /\ \A s \in Reach(tree, X, edges), t \in X : {s, t} \in edges => t \in Reach(tree, X, edges)
              /\ Reach(tree, X, edges) \in SUBSET X /\ tree \subseteq Reach(tree, X, edges)
              /\ \A D : tree \subseteq D
                        /\ (\A s \in X \cap D, t \in X : {s, t} \in edges => t \in D)
                            => Reach(tree, X, edges) \subseteq D
            <4>1. tree \in SUBSET X
                OBVIOUS
            <4>. HIDE DEF X
            <4>. QED BY <2>6, <4>1, ReachIsLeast
        <3>2. /\ \A s \in Reach(tree, Y, edges), t \in Y : {s, t} \in edges => t \in Reach(tree, Y, edges)
              /\ Reach(tree, Y, edges) \in SUBSET Y /\ tree \subseteq Reach(tree, Y, edges)
            <4>1. tree \in SUBSET Y
                OBVIOUS
            <4>. HIDE DEF Y
            <4>. QED BY <2>6, <4>1, ReachIsLeast
        <3>. DEFINE D == Reach(tree, Y, edges) \cap Reach(tree, X, edges)
        <3>3. ASSUME NEW s \in X \cap D, NEW t \in X, {s, t} \in edges PROVE t \in D
            <4>1. t \in Reach(tree, X, edges)
                BY <3>1, <3>3
            <4>2. t \in Y
                BY <4>1
            <4>. QED BY <3>2, <3>3, <4>1, <4>2
        <3>4. Reach(tree, X, edges) \subseteq D
            <4>1. tree \subseteq D
                BY <3>1, <3>2
            <4>. HIDE DEF D, X
            <4>. QED BY <3>1, <3>3, <4>1
        <3>5. w2 \in Reach(tree, Y, edges)
            BY <2>4, <3>4
        <3>. DEFINE k == Cardinality(U)
        <3>6. k \in Nat /\ m \in Nat /\ k <= m /\ k # m
            <4>1. U \in SUBSET w1 /\ U # w1
                OBVIOUS
            <4>. HIDE DEF U
            <4>2. /\ IsFiniteSet(U) /\ Cardinality(U) <= Cardinality(w1)
                  /\ Cardinality(U) = Cardinality(w1) => U = w1
                BY <2>6, <4>1, FS_Subset
            <4>. QED BY <2>5, <2>6, <4>1, <4>2, FS_CardinalityType
        <3>7. U \in kSubset(k, others)
            <4>1. U \in SUBSET others
                BY <2>5
            <4>. HIDE DEF U
            <4>. QED BY <4>1 DEF kSubset
        <3>8. <<U, w2>> \in Ways(k)
            <4>1. <<U, w2>> \in kSubset(k, others) \X goals
                BY <2>4, <3>7
            <4>. HIDE DEF U, others, k
            <4>. QED BY <3>5, <4>1
        <3>9. k \in lengths
            <4>1. k \in 0 .. Cardinality(others)
                BY <1>2, <2>2, <3>6
            <4>. HIDE DEF k, others, Ways
            <4>. QED BY <3>8, <4>1
        <3>10. m <= k
            BY <2>1, <3>9 DEF m
        <3>. HIDE DEF k
        <3>. QED BY <3>6, <3>10
    <2>8. path = w1 \cup {w2}
        BY <1>1, <1>5, Zenon DEF w1, w2
    <2>9. tree \cup path = X
        BY <2>8
    <2>10. tree \subseteq Reach(tree, X, edges)
        <3>1. tree \in SUBSET X
            OBVIOUS
        <3>. HIDE DEF X
        <3>. QED BY <2>6, <3>1, ReachIsLeast
    <2>11. X \subseteq Reach(tree, X, edges)
        BY <2>4, <2>7, <2>10
    <2>12. path \in SUBSET tables
        BY <2>6, <2>8
    <2>. HIDE DEF path, X
    <2>. QED BY <2>9, <2>11, <2>12 DEF path
<1>. QED BY <1>4, <1>5

\* Every table of a set is reached from every other, inside the set.
HangsTogether(tables, edges) == \A x \in tables : tables \subseteq Reach({x}, tables, edges)

LEMMA OneHangsTogether ==
    ASSUME NEW x, NEW edges
    PROVE  HangsTogether({x}, edges)
<1>. DEFINE only == {x}
<1>1. IsFiniteSet(only) /\ x \in only /\ \A y \in only : y = x
    BY FS_Singleton
<1>. HIDE DEF only
<1>2. x \in Reach({x}, only, edges)
    BY <1>1, ReachFromOne
<1>3. HangsTogether(only, edges)
    BY <1>1, <1>2 DEF HangsTogether
<1>. QED BY <1>3 DEF only

\* A set whose tables are all reached from one of them hangs together.
LEMMA RootedHangsTogether ==
    ASSUME NEW tables, IsFiniteSet(tables), NEW root \in tables, NEW edges,
           tables \subseteq Reach({root}, tables, edges)
    PROVE  HangsTogether(tables, edges)
<1>1. ASSUME NEW x \in tables PROVE tables \subseteq Reach({x}, tables, edges)
    <2>1. root \in Reach({x}, tables, edges)
        BY ReachBack
    <2>2. Reach({root}, tables, edges) \subseteq Reach({x}, tables, edges)
        BY <2>1, ReachWidens
    <2>. QED BY <2>2
<1>. QED BY <1>1 DEF HangsTogether

\* The tree a set of terminals is joined by hangs together.
LEMMA ConnectJoins ==
    ASSUME NEW tables, IsFiniteSet(tables), NEW terminals \in SUBSET tables, terminals # {},
           NEW edges, NEW max_points,
           ~connect(terminals, tables, edges, max_points).declined
    PROVE  LET added == connect(terminals, tables, edges, max_points).added
           IN  added \in SUBSET tables /\ HangsTogether(terminals \cup added, edges)
<1>. DEFINE N == Cardinality(terminals)
            root == CHOOSE t \in terminals : TRUE
            Wider(X) == X \cup _nearest_path(X, terminals \ X, tables, edges)
            Loop(m) == [n \in 0 .. N |-> IF n = 0 THEN {root} ELSE Wider(m[n - 1])]
            grown == CHOOSE m : m = Loop(m)
            tree == grown[N]
            added == connect(terminals, tables, edges, max_points).added
            Good(X) == root \in X /\ X \in SUBSET tables /\ X \subseteq Reach({root}, X, edges)
<1>1. connect(terminals, tables, edges, max_points)
        = IF N <= 1 THEN [added |-> {}, declined |-> FALSE]
          ELSE IF ~(terminals \subseteq tree) \/ Cardinality(tree \ terminals) > max_points
               THEN [added |-> {}, declined |-> TRUE]
               ELSE [added |-> tree \ terminals, declined |-> FALSE]
    BY Zenon DEF connect
<1>2. IsFiniteSet(terminals) /\ N \in Nat
    BY FS_Subset, FS_CardinalityType
<1>3. root \in terminals
    OBVIOUS
<1>. HIDE DEF tree, root, N
<1>4. CASE N <= 1
    <2>1. added = {}
        BY <1>1, <1>4
    <2>2. \E x : terminals = {x}
        <3>1. N = 1
            BY <1>2, <1>4, FS_EmptySet DEF N
        <3>. QED BY <1>2, <3>1, FS_Singleton DEF N
    <2>3. HangsTogether(terminals, edges)
        BY <2>2, OneHangsTogether
    <2>4. terminals \cup added = terminals
        BY <2>1
    <2>. HIDE DEF added
    <2>. QED BY <2>1, <2>3, <2>4 DEF added
<1>5. CASE ~(N <= 1)
    <2>1. terminals \subseteq tree /\ added = tree \ terminals
        BY <1>1, <1>5
    <2>2. \A X \in SUBSET tables : Good(X) => Wider(X) \in SUBSET tables /\ Good(Wider(X))
        <3>1. ASSUME NEW X \in SUBSET tables, Good(X) PROVE Wider(X) \in SUBSET tables /\ Good(Wider(X))
            <4>. DEFINE path == _nearest_path(X, terminals \ X, tables, edges)  Y == X \cup path
            <4>1. path \in SUBSET tables /\ Y \subseteq Reach(X, Y, edges)
                <5>1. terminals \ X \in SUBSET tables
                    OBVIOUS
                <5>. QED BY <5>1, NearestPathJoins
            <4>2. Y \in SUBSET tables /\ IsFiniteSet(Y) /\ X \in SUBSET Y /\ root \in X
                <5>1. Y \in SUBSET tables /\ X \in SUBSET Y /\ root \in X
                    BY <3>1, <4>1
                <5>. HIDE DEF Y
                <5>. QED BY <5>1, FS_Subset
            <4>. HIDE DEF Y
            <4>3. root \in Reach({root}, Y, edges)
                BY <4>2, ReachFromOne
            <4>4. Reach({root}, X, edges) \subseteq Reach({root}, Y, edges)
                BY <4>2, <4>3, ReachWidens
            <4>5. Reach(X, Y, edges) \subseteq Reach({root}, Y, edges)
                <5>1. X \subseteq Reach({root}, Y, edges) /\ {root} \in SUBSET Y
                    BY <3>1, <4>2, <4>4
                <5>. QED BY <4>2, <5>1, ReachGrows
            <4>6. Y \subseteq Reach({root}, Y, edges)
                BY <4>1, <4>5
            <4>7. Good(Y)
                BY <4>2, <4>6
            <4>. HIDE DEF Good
            <4>. QED BY <4>2, <4>7 DEF Y
        <3>. HIDE DEF Good, Wider
        <3>. QED BY <3>1
    <2>3. Good({root})
        <3>1. PICK only : only = {root}
            OBVIOUS
        <3>2. IsFiniteSet(only) /\ root \in only
            BY <3>1, FS_Singleton
        <3>3. root \in Reach({root}, only, edges)
            BY <3>2, ReachFromOne
        <3>. QED BY <1>3, <3>1, <3>3
    <2>. HIDE DEF Good
    <2>. DEFINE A == {X \in SUBSET tables : Good(X)}
                F == [X \in A |-> Wider(X)]
    <2>4. {root} \in A /\ \A X \in A : Wider(X) \in A
        BY <1>3, <2>2, <2>3
    <2>5. F \in [A -> A] /\ \A X \in A : F[X] = Wider(X)
        BY <2>4
    <2>. HIDE DEF A, F, Wider
    <2>6. PICK m \in [0 .. N -> A] : Iterated(m, F, {root}, N)
        BY <1>2, <2>4, <2>5, Iterates
    <2>7. ASSUME NEW n \in 0 .. N PROVE m[n] = IF n = 0 THEN {root} ELSE Wider(m[n - 1])
        <3>1. CASE n = 0
            BY <2>6, <3>1 DEF Iterated
        <3>2. CASE n # 0
            <4>1. n - 1 \in 0 .. N
                BY <1>2, <3>2
            <4>2. F[m[n - 1]] = Wider(m[n - 1])
                BY <2>5, <2>6, <4>1
            <4>. QED BY <2>6, <3>2, <4>2 DEF Iterated
        <3>. QED BY <3>1, <3>2
    <2>8. m = Loop(m)
        BY <2>6, <2>7
    <2>9. grown = Loop(grown)
        <3>1. \E f : f = Loop(f)
            BY <2>8
        <3>. QED BY <3>1, Zenon
    <2>. HIDE DEF grown
    <2>10. \A n \in 0 .. N : grown[n] = IF n = 0 THEN {root} ELSE Wider(grown[n - 1])
        <3>1. \A n \in 0 .. N : grown[n] = Loop(grown)[n]
            BY <2>9, Zenon
        <3>. QED BY <3>1
    <2>. DEFINE T == {n \in 0 .. N : grown[n] \in A}
    <2>11. 0 \in T
        <3>1. 0 \in 0 .. N
            BY <1>2
        <3>2. grown[0] = {root}
            BY <2>10, <3>1, Zenon
        <3>. QED BY <2>4, <3>1, <3>2
    <2>12. ASSUME NEW n \in 0 .. N, n \in T, n < N PROVE n + 1 \in T
        <3>1. n + 1 \in 0 .. N /\ n + 1 # 0 /\ (n + 1) - 1 = n
            BY <1>2, <2>12
        <3>2. grown[n + 1] = Wider(grown[n])
            BY <2>10, <3>1, Zenon
        <3>. QED BY <2>4, <2>12, <3>1, <3>2
    <2>. HIDE DEF T
    <2>13. 0 .. N \subseteq T
        BY <1>2, <2>11, <2>12, UpTo
    <2>14. N \in 0 .. N
        BY <1>2
    <2>15. tree \in A
        BY <2>13, <2>14 DEF T, tree
    <2>16. root \in tree /\ tree \in SUBSET tables /\ tree \subseteq Reach({root}, tree, edges)
        BY <2>15 DEF A, Good
    <2>17. IsFiniteSet(tree)
        BY <2>16, FS_Subset
    <2>18. HangsTogether(tree, edges)
        BY <2>16, <2>17, RootedHangsTogether
    <2>19. terminals \cup added = tree /\ added \in SUBSET tables
        BY <2>1, <2>16
    <2>. HIDE DEF added
    <2>. QED BY <2>18, <2>19 DEF added
<1>. QED BY <1>4, <1>5

\* The terminals fall into the components they sit in, and two of one
\* component are in one group.
LEMMA Components ==
    ASSUME NEW tables, IsFiniteSet(tables), NEW terminals \in SUBSET tables, NEW edges
    PROVE  /\ \A g \in components(terminals, tables, edges) : g # {} /\ g \in SUBSET terminals
           /\ UNION components(terminals, tables, edges) = terminals
           /\ \A g, h \in components(terminals, tables, edges) : \A x \in g, y \in h :
                y \in Reach({x}, tables, edges) => g = h
<1>. DEFINE From(x) == Reach({x}, tables, edges)
<1>1. \A x \in tables : x \in From(x) /\ From(x) \in SUBSET tables
    BY ReachFromOne
<1>2. ASSUME NEW x \in tables, NEW y \in From(x) PROVE y \in tables /\ From(x) = From(y)
    <2>1. y \in tables /\ x \in From(y)
        BY ReachBack
    <2>2. From(y) \subseteq From(x)
        BY <2>1, ReachWidens
    <2>3. From(x) \subseteq From(y)
        BY <2>1, ReachWidens
    <2>. HIDE DEF From
    <2>. QED BY <2>1, <2>2, <2>3
<1>3. components(terminals, tables, edges) = {terminals \cap From(t) : t \in terminals}
    BY DEF components
<1>. HIDE DEF From
<1>4. \A g \in components(terminals, tables, edges) : g # {} /\ g \in SUBSET terminals
    BY <1>1, <1>3
<1>5. UNION components(terminals, tables, edges) = terminals
    BY <1>1, <1>3
<1>6. ASSUME NEW g \in components(terminals, tables, edges), NEW h \in components(terminals, tables, edges),
             NEW x \in g, NEW y \in h, y \in From(x)
      PROVE  g = h
    <2>1. PICK s \in terminals : g = terminals \cap From(s)
        BY <1>3
    <2>2. PICK t \in terminals : h = terminals \cap From(t)
        BY <1>3
    <2>3. From(s) = From(x)
        BY <1>2, <2>1
    <2>4. From(t) = From(y)
        BY <1>2, <2>2
    <2>5. From(x) = From(y)
        BY <1>2, <1>6, <2>1
    <2>. QED BY <2>1, <2>2, <2>3, <2>4, <2>5
<1>. QED BY <1>4, <1>5, <1>6 DEF From

\* What connects is kept with what connects it, and of what is kept two tables
\* that the join graph connects are connected by what is kept.
KeepsJoined(licence, tables, edges) ==
  \A t \in licence : Reach({t}, tables, edges) \cap licence \subseteq Reach({t}, licence, edges)

AddedBy(trees) == UNION {trees[g].added : g \in Joined(trees)}
TreesOf(trees, terminals, tables, edges, max_points) ==
  trees = [g \in components(terminals, tables, edges) |-> connect(g, tables, edges, max_points)]

TreesKeep(trees, terminals, tables, edges) ==
  /\ UNION Joined(trees) \in SUBSET terminals /\ AddedBy(trees) \in SUBSET tables
  /\ Joined(trees) = DOMAIN trees => UNION Joined(trees) = terminals
  /\ KeepsJoined((UNION Joined(trees)) \cup AddedBy(trees), tables, edges)

LEMMA TreesKeepJoined ==
    ASSUME NEW tables, IsFiniteSet(tables), NEW terminals \in SUBSET tables, NEW edges, NEW max_points,
           NEW trees, TreesOf(trees, terminals, tables, edges, max_points)
    PROVE  TreesKeep(trees, terminals, tables, edges)
<1>. DEFINE joined == Joined(trees)
            added == AddedBy(trees)
<1>0. /\ trees = [g \in components(terminals, tables, edges) |-> connect(g, tables, edges, max_points)]
      /\ joined = {g \in DOMAIN trees : ~trees[g].declined}
      /\ added = UNION {trees[g].added : g \in joined}
    BY DEF TreesOf, Joined, AddedBy
<1>. HIDE DEF joined, added
<1>. DEFINE groups == components(terminals, tables, edges)
            Full(g) == g \cup trees[g].added
            licence == (UNION joined) \cup added
<1>1. /\ \A g \in groups : g # {} /\ g \in SUBSET terminals
      /\ UNION groups = terminals
      /\ \A g, h \in groups : \A x \in g, y \in h : y \in Reach({x}, tables, edges) => g = h
    BY Components
<1>2. DOMAIN trees = groups /\ joined \in SUBSET groups
    BY <1>0
<1>3. ASSUME NEW g \in joined
      PROVE  trees[g].added \in SUBSET tables /\ HangsTogether(Full(g), edges)
    <2>1. g \in groups /\ trees[g] = connect(g, tables, edges, max_points) /\ ~trees[g].declined
        BY <1>0
    <2>2. g \in SUBSET tables /\ g # {}
        BY <1>1, <2>1
    <2>. HIDE DEF groups
    <2>3. ~connect(g, tables, edges, max_points).declined /\ g \in SUBSET tables
        BY <2>1, <2>2
    <2>4. connect(g, tables, edges, max_points).added \in SUBSET tables
        BY <2>2, <2>3, ConnectJoins
    <2>5. HangsTogether(g \cup connect(g, tables, edges, max_points).added, edges)
        BY <2>2, <2>3, ConnectJoins
    <2>. QED BY <2>1, <2>4, <2>5
<1>. HIDE DEF groups
<1>4. UNION joined \in SUBSET terminals /\ added \in SUBSET tables
    <2>1. UNION joined \in SUBSET terminals
        BY <1>1, <1>2
    <2>2. \A g \in joined : trees[g].added \in SUBSET tables
        BY <1>3
    <2>3. added \in SUBSET tables
        BY <1>0, <2>2
    <2>. QED BY <2>1, <2>3
<1>5. licence \in SUBSET tables /\ IsFiniteSet(licence)
    <2>1. licence \in SUBSET tables
        BY <1>4
    <2>. HIDE DEF licence
    <2>. QED BY <2>1, FS_Subset
<1>6. \A t \in licence : \E g \in joined : t \in Full(g)
    BY <1>0
<1>7. \A g \in joined : Full(g) \in SUBSET licence
    BY <1>0
<1>. HIDE DEF Full, licence
<1>8. ASSUME NEW g \in joined, NEW s \in Full(g), NEW t \in Full(g)
      PROVE  /\ t \in Reach({s}, licence, edges) /\ t \in Reach({s}, tables, edges)
             /\ s \in tables /\ t \in tables
    <2>1. Full(g) \in SUBSET licence /\ Full(g) \in SUBSET tables
        BY <1>5, <1>7
    <2>2. t \in Reach({s}, Full(g), edges)
        BY <1>3 DEF HangsTogether
    <2>3. s \in licence /\ s \in tables /\ t \in tables
        BY <2>1
    <2>4. s \in Reach({s}, licence, edges) /\ s \in Reach({s}, tables, edges)
        BY <1>5, <2>3, ReachFromOne
    <2>5. Reach({s}, Full(g), edges) \subseteq Reach({s}, licence, edges)
        BY <1>5, <2>1, <2>3, <2>4, ReachWidens
    <2>6. Reach({s}, Full(g), edges) \subseteq Reach({s}, tables, edges)
        BY <2>1, <2>3, <2>4, ReachWidens
    <2>. QED BY <2>2, <2>3, <2>5, <2>6
<1>9. ASSUME NEW s \in tables, NEW t \in Reach({s}, tables, edges), NEW u \in Reach({t}, tables, edges)
      PROVE  u \in Reach({s}, tables, edges)
    <2>1. t \in tables
        BY ReachBack
    <2>2. Reach({t}, tables, edges) \subseteq Reach({s}, tables, edges)
        BY <2>1, ReachWidens
    <2>. QED BY <2>2
<1>10. ASSUME NEW t \in licence, NEW u \in licence, u \in Reach({t}, tables, edges)
       PROVE  u \in Reach({t}, licence, edges)
    <2>1. PICK g \in joined : t \in Full(g)
        BY <1>6
    <2>2. PICK h \in joined : u \in Full(h)
        BY <1>6
    <2>3. PICK x \in g : x \in Full(g)
        BY <1>1, <1>2 DEF Full
    <2>4. PICK y \in h : y \in Full(h)
        BY <1>1, <1>2 DEF Full
    <2>5. t \in Reach({x}, tables, edges) /\ y \in Reach({u}, tables, edges) /\ x \in tables
        BY <1>8, <2>1, <2>2, <2>3, <2>4
    <2>6. u \in Reach({x}, tables, edges)
        BY <1>9, <1>10, <2>5
    <2>7. y \in Reach({x}, tables, edges)
        BY <1>9, <2>5, <2>6
    <2>8. g = h
        BY <1>1, <1>2, <2>7
    <2>. QED BY <1>8, <2>1, <2>2, <2>8
<1>11. KeepsJoined(licence, tables, edges)
    BY <1>10 DEF KeepsJoined
<1>. QED BY <1>1, <1>2, <1>4, <1>11 DEF licence, joined, added, TreesKeep

-----------------------------------------------------------------------------
(* What an asset that is served still says.                                *)

\* The endpoints each type of asset has, and whether it declares a schema.
LEMMA Classes ==
    ASSUME NEW a \in Ids
    PROVE  /\ Corpus[a] \in Asset /\ Corpus[a].requires \in Seq(Spelling)
           /\ Corpus[a].type \in {"schema", "table", "column", "join", "metric", "term", "few_shot"}
           /\ Corpus[a].type \in {"schema", "table", "term", "few_shot"} => Corpus[a].requires = <<>>
           /\ Corpus[a].type \in {"schema", "join", "metric", "term"} => Corpus[a].schema = NoSchema
           /\ Corpus[a].type \in {"table", "column", "few_shot"} => Corpus[a].schema # NoSchema
           /\ Corpus[a].type \in {"column", "metric"} => Len(Corpus[a].requires) = 1
           /\ Corpus[a].type = "join" => Len(Corpus[a].requires) = 2
           /\ Corpus[a].type = "column" /\ Len(Corpus[a].requires[1]) = 2
                => Corpus[a].requires[1][1] = Corpus[a].schema
           /\ Corpus[a].type \in {"schema", "column", "join", "few_shot"} => Corpus[a].points = {}
           /\ Corpus[a].type = "term" => Cardinality(Corpus[a].points) <= 1
           /\ Corpus[a].type # "column" => Corpus[a].fk = {}
           /\ Corpus[a].type # "few_shot" => Corpus[a].cites = {}
<1>1. Corpus[a] \in Asset /\ class_for(Corpus[a])
    BY CorpusAssumption
<1>. DEFINE r == Corpus[a]
<1>2. /\ r.type \in {"schema", "table", "column", "join", "metric", "term", "few_shot"}
      /\ r.requires \in Seq(Spelling)
    BY <1>1 DEF Asset
<1>. DEFINE Empty(field) ==
       CASE field = "schema" -> r.schema = NoSchema [] field = "requires" -> r.requires = <<>>
         [] field = "points" -> r.points = {} [] field = "cites" -> r.cites = {}
         [] field = "fk" -> r.fk = {} [] OTHER -> r.on = {}
<1>3. DOMAIN NoFields = {"schema", "requires", "points", "cites", "fk", "on"}
    BY DEF NoFields
<1>4. ASSUME NEW fields, Has(r, fields), NEW field \in DOMAIN NoFields \ fields PROVE Empty(field)
    <2>1. r[field] = NoFields[field]
        BY <1>4 DEF Has
    <2>. QED BY <1>3, <1>4, <2>1 DEF NoFields
<1>. HIDE DEF r, Empty
<1>5. CASE r.type = "schema"
    <2>1. Has(r, {})
        BY <1>1, <1>5 DEF class_for, SchemaAsset, r
    <2>2. \A field \in DOMAIN NoFields \ {} : Empty(field)
        BY <1>4, <2>1
    <2>3. Empty("schema") /\ Empty("requires") /\ Empty("points") /\ Empty("cites") /\ Empty("fk")
        BY <1>3, <2>2
    <2>4. r.schema = NoSchema /\ r.requires = <<>> /\ r.points = {} /\ r.cites = {} /\ r.fk = {}
        BY <2>3 DEF Empty
    <2>. QED BY <1>1, <1>2, <1>5, <2>1, <2>4 DEF r
<1>6. CASE r.type = "table"
    <2>1. Has(r, {"schema", "points"}) /\ r.schema # NoSchema
        BY <1>1, <1>6 DEF class_for, TableAsset, r
    <2>2. \A field \in DOMAIN NoFields \ {"schema", "points"} : Empty(field)
        BY <1>4, <2>1
    <2>3. Empty("requires") /\ Empty("cites") /\ Empty("fk")
        BY <1>3, <2>2
    <2>4. r.requires = <<>> /\ r.cites = {} /\ r.fk = {}
        BY <2>3 DEF Empty
    <2>. QED BY <1>1, <1>2, <1>6, <2>1, <2>4 DEF r
<1>7. CASE r.type = "column"
    <2>1. /\ Has(r, {"schema", "requires", "fk"}) /\ r.schema # NoSchema /\ Len(r.requires) = 1
          /\ Len(r.requires[1]) = 2 => r.requires[1][1] = r.schema
        BY <1>1, <1>7 DEF class_for, ColumnAsset, r
    <2>2. \A field \in DOMAIN NoFields \ {"schema", "requires", "fk"} : Empty(field)
        BY <1>4, <2>1
    <2>3. Empty("points") /\ Empty("cites")
        BY <1>3, <2>2
    <2>4. r.points = {} /\ r.cites = {}
        BY <2>3 DEF Empty
    <2>. QED BY <1>1, <1>2, <1>7, <2>1, <2>4 DEF r
<1>8. CASE r.type = "join"
    <2>1. Has(r, {"requires", "on"}) /\ Len(r.requires) = 2
        BY <1>1, <1>8 DEF class_for, JoinAsset, r
    <2>2. \A field \in DOMAIN NoFields \ {"requires", "on"} : Empty(field)
        BY <1>4, <2>1
    <2>3. Empty("schema") /\ Empty("points") /\ Empty("cites") /\ Empty("fk")
        BY <1>3, <2>2
    <2>4. r.schema = NoSchema /\ r.points = {} /\ r.cites = {} /\ r.fk = {}
        BY <2>3 DEF Empty
    <2>. QED BY <1>1, <1>2, <1>8, <2>1, <2>4 DEF r
<1>9. CASE r.type = "metric"
    <2>1. Has(r, {"requires", "points"}) /\ Len(r.requires) = 1
        BY <1>1, <1>9 DEF class_for, MetricAsset, r
    <2>2. \A field \in DOMAIN NoFields \ {"requires", "points"} : Empty(field)
        BY <1>4, <2>1
    <2>3. Empty("schema") /\ Empty("cites") /\ Empty("fk")
        BY <1>3, <2>2
    <2>4. r.schema = NoSchema /\ r.cites = {} /\ r.fk = {}
        BY <2>3 DEF Empty
    <2>. QED BY <1>1, <1>2, <1>9, <2>1, <2>4 DEF r
<1>10. CASE r.type = "term"
    <2>1. Has(r, {"points"}) /\ Cardinality(r.points) <= 1
        BY <1>1, <1>10 DEF class_for, TermAsset, r
    <2>2. \A field \in DOMAIN NoFields \ {"points"} : Empty(field)
        BY <1>4, <2>1
    <2>3. Empty("schema") /\ Empty("requires") /\ Empty("cites") /\ Empty("fk")
        BY <1>3, <2>2
    <2>4. r.schema = NoSchema /\ r.requires = <<>> /\ r.cites = {} /\ r.fk = {}
        BY <2>3 DEF Empty
    <2>. QED BY <1>1, <1>2, <1>10, <2>1, <2>4 DEF r
<1>11. CASE r.type = "few_shot"
    <2>1. Has(r, {"schema", "cites"}) /\ r.schema # NoSchema
        BY <1>1, <1>11 DEF class_for, FewShotAsset, r
    <2>2. \A field \in DOMAIN NoFields \ {"schema", "cites"} : Empty(field)
        BY <1>4, <2>1
    <2>3. Empty("requires") /\ Empty("points") /\ Empty("fk")
        BY <1>3, <2>2
    <2>4. r.requires = <<>> /\ r.points = {} /\ r.fk = {}
        BY <2>3 DEF Empty
    <2>. QED BY <1>1, <1>2, <1>11, <2>1, <2>4 DEF r
<1>. QED BY <1>2, <1>5, <1>6, <1>7, <1>8, <1>9, <1>10, <1>11

\* What is served of a corpus, and how its endpoints bind there: as they do
\* in the whole of it, to one table.
ServedOf(assets) ==
  /\ DOMAIN assets \subseteq Ids
  /\ \A a \in DOMAIN assets :
       /\ assets[a].type = Corpus[a].type /\ assets[a].schema = Corpus[a].schema
       /\ assets[a].name = Corpus[a].name /\ assets[a].requires = Corpus[a].requires
       /\ assets[a].fk = Corpus[a].fk
       /\ assets[a].points \subseteq Corpus[a].points /\ assets[a] \in Asset
       /\ assets[a].type \in {"table", "term"} => assets[a].points \subseteq DOMAIN assets
       /\ \A n \in DOMAIN assets[a].requires :
            /\ Endpoint(a, n, assets) = Endpoint(a, n, Corpus)
            /\ \E t \in OfType(assets, "table") : Endpoint(a, n, assets) = {t}

\* An endpoint binds to one table or to none.
LEMMA OneEndpoint ==
    ASSUME NEW assets, IsFiniteSet(DOMAIN assets), NEW spelling, NEW scope,
           bind_endpoint(spelling, assets, scope) # {}
    PROVE  \E t \in OfType(assets, "table") : bind_endpoint(spelling, assets, scope) = {t}
<1>. DEFINE named == table_lookup(assets, spelling)
            scoped == IF scope = NoSchema THEN {}
                      ELSE table_lookup(assets, <<scope, spelling[Len(spelling)]>>)
<1>1. named \subseteq OfType(assets, "table") /\ scoped \subseteq OfType(assets, "table")
    BY DEF table_lookup
<1>2. OfType(assets, "table") \subseteq DOMAIN assets
    BY DEF OfType
<1>3. IsFiniteSet(named) /\ IsFiniteSet(scoped)
    BY <1>1, <1>2, FS_Subset
<1>4. \/ Cardinality(scoped) = 1 /\ bind_endpoint(spelling, assets, scope) = scoped
      \/ Cardinality(named) = 1 /\ bind_endpoint(spelling, assets, scope) = named
    BY DEF bind_endpoint
<1>. HIDE DEF named, scoped
<1>5. \A X : IsFiniteSet(X) /\ Cardinality(X) = 1 => \E t : X = {t}
    BY FS_Singleton
<1>. QED BY <1>1, <1>3, <1>4, <1>5

\* What the referring asset's schema has under a name, the name has.
LEMMA ScopedIsNamed ==
    ASSUME NEW assets, NEW a \in Ids, NEW n \in DOMAIN Corpus[a].requires,
           Corpus[a].schema # NoSchema
    PROVE  LET s == Corpus[a].requires[n]
           IN  table_lookup(assets, <<Corpus[a].schema, s[Len(s)]>>) \subseteq table_lookup(assets, s)
<1>. DEFINE s == Corpus[a].requires[n]  scope == Corpus[a].schema
<1>1. Corpus[a].type = "column" /\ n = 1
    BY Classes
<1>2. s \in Spelling /\ (Len(s) = 2 => s[1] = scope)
    BY <1>1, Classes
<1>3. CASE Len(s) = 2
    <2>1. s = <<scope, s[Len(s)]>>
        BY <1>2, <1>3 DEF Spelling
    <2>. QED BY <2>1
<1>4. CASE Len(s) = 1
    <2>1. s = <<s[1]>>
        BY <1>2, <1>4 DEF Spelling
    <2>. HIDE DEF s, scope
    <2>2. ASSUME NEW t, <<scope, s[1]>> \in {<<assets[t].schema, assets[t].name>>, <<assets[t].name>>}
          PROVE  s \in {<<assets[t].schema, assets[t].name>>, <<assets[t].name>>}
        BY <2>1, <2>2
    <2>. QED BY <1>4, <2>1, <2>2 DEF table_lookup, s, scope
<1>. QED BY <1>2, <1>3, <1>4 DEF Spelling

\* Where what is left of a corpus holds the table an endpoint binds to, it
\* binds there still.
LEMMA StillBinds ==
    ASSUME NEW assets, DOMAIN assets \subseteq Ids,
           \A t \in DOMAIN assets : /\ assets[t].type = Corpus[t].type
                                    /\ assets[t].schema = Corpus[t].schema
                                    /\ assets[t].name = Corpus[t].name
                                    /\ assets[t].requires = Corpus[t].requires,
           NEW a \in DOMAIN assets, NEW n \in DOMAIN Corpus[a].requires,
           Endpoint(a, n, Corpus) \subseteq DOMAIN assets
    PROVE  /\ Endpoint(a, n, assets) = Endpoint(a, n, Corpus)
           /\ \E t \in OfType(assets, "table") : Endpoint(a, n, assets) = {t}
<1>. DEFINE s == Corpus[a].requires[n]
            scope == Corpus[a].schema
            own == <<scope, s[Len(s)]>>
            NamedBy(all) == table_lookup(all, s)
            Scoped(all) == IF scope = NoSchema THEN {} ELSE table_lookup(all, own)
<1>1. a \in Ids /\ IsFiniteSet(Ids) /\ IsFiniteSet(DOMAIN assets)
    BY CorpusAssumption, FS_Subset
<1>2. Endpoint(a, n, Corpus) # {}
    <2>1. a \notin fatal_problems(Corpus)
        BY CorpusIsSound
    <2>. QED BY <1>1, <2>1 DEF fatal_problems, BindsAll, Ids
<1>3. /\ Endpoint(a, n, Corpus) = bind_endpoint(s, Corpus, scope)
      /\ Endpoint(a, n, assets) = bind_endpoint(s, assets, scope)
    BY DEF Endpoint
<1>4. PICK t \in OfType(Corpus, "table") : Endpoint(a, n, Corpus) = {t}
    <2>1. IsFiniteSet(DOMAIN Corpus) /\ bind_endpoint(s, Corpus, scope) # {}
        BY <1>1, <1>2, <1>3 DEF Ids
    <2>. QED BY <1>3, <2>1, OneEndpoint
<1>5. \A spelling : table_lookup(assets, spelling) = table_lookup(Corpus, spelling) \cap DOMAIN assets
    <2>1. ASSUME NEW spelling, NEW x
          PROVE  x \in table_lookup(assets, spelling)
                   <=> x \in table_lookup(Corpus, spelling) /\ x \in DOMAIN assets
        <3>1. CASE x \in DOMAIN assets
            BY <3>1 DEF table_lookup, OfType, Ids
        <3>2. CASE x \notin DOMAIN assets
            BY <3>2 DEF table_lookup, OfType
        <3>. QED BY <3>1, <3>2
    <2>. QED BY <2>1
<1>6. Scoped(Corpus) \subseteq NamedBy(Corpus)
    BY <1>1, ScopedIsNamed
<1>7. NamedBy(assets) = NamedBy(Corpus) \cap DOMAIN assets /\ Scoped(assets) = Scoped(Corpus) \cap DOMAIN assets
    BY <1>5
<1>8. \A all : bind_endpoint(s, all, scope) = IF Cardinality(Scoped(all)) = 1 THEN Scoped(all)
                                              ELSE IF Cardinality(NamedBy(all)) = 1 THEN NamedBy(all) ELSE {}
    BY DEF bind_endpoint
<1>9. t \in DOMAIN assets
    BY <1>4
<1>10. Scoped(Corpus) = {t} \/ NamedBy(Corpus) = {t}
    BY <1>3, <1>4, <1>8
<1>. HIDE DEF Scoped, NamedBy
<1>11. \A x : Cardinality({x}) = 1
    BY FS_Singleton
<1>12. CASE Scoped(Corpus) = {t}
    <2>1. Scoped(assets) = {t}
        BY <1>7, <1>9, <1>12
    <2>. QED BY <1>3, <1>4, <1>8, <1>9, <1>11, <2>1 DEF OfType
<1>13. CASE NamedBy(Corpus) = {t}
    <2>1. NamedBy(assets) = {t} /\ (Scoped(assets) = {} \/ Scoped(assets) = {t})
        BY <1>6, <1>7, <1>9, <1>13
    <2>2. bind_endpoint(s, assets, scope) = {t}
        <3>1. bind_endpoint(s, assets, scope) = IF Cardinality(Scoped(assets)) = 1 THEN Scoped(assets)
                  ELSE IF Cardinality(NamedBy(assets)) = 1 THEN NamedBy(assets) ELSE {}
            BY <1>8
        <3>2. Cardinality({t}) = 1 /\ Cardinality({}) # 1
            BY <1>11, FS_EmptySet
        <3>. HIDE DEF s, scope
        <3>. QED BY <2>1, <3>1, <3>2
    <2>. QED BY <1>3, <1>4, <1>9, <2>2 DEF OfType
<1>. QED BY <1>10, <1>12, <1>13

\* What leaves with some assets: they, and with each what requires it.
LEMMA WithheldCloses ==
    ASSUME NEW flagged \in SUBSET Ids
    PROVE  /\ _withheld_closure(flagged) \in SUBSET Ids /\ flagged \subseteq _withheld_closure(flagged)
           /\ \A a \in Ids \ _withheld_closure(flagged) :
                Endpoints(a, Corpus) \cap _withheld_closure(flagged) = {}
<1>. DEFINE next == [gone \in Ids |-> {a \in Ids : gone \in Endpoints(a, Corpus)}]
<1>1. next \in [Ids -> SUBSET Ids] /\ IsFiniteSet(Ids)
    BY CorpusAssumption
<1>2. _withheld_closure(flagged) = Spread(flagged, next)
    BY DEF _withheld_closure
<1>3. \A gone \in Ids : next[gone] = {a \in Ids : gone \in Endpoints(a, Corpus)}
    OBVIOUS
<1>. HIDE DEF next
<1>4. /\ Spread(flagged, next) \in SUBSET Ids /\ flagged \subseteq Spread(flagged, next)
      /\ \A gone \in Spread(flagged, next) : next[gone] \subseteq Spread(flagged, next)
    BY <1>1, SpreadIsLeast
<1>. QED BY <1>2, <1>3, <1>4

\* What a session serves is what is left, each asset as it was but for the
\* mentions of what is gone.
LEMMA VisibleIsServed ==
    ASSUME NEW flagged \in SUBSET Ids
    PROVE  ServedOf(_visible(flagged)) /\ DOMAIN _visible(flagged) \subseteq Ids \ flagged
<1>. DEFINE withheld == _withheld_closure(flagged)
            v == _visible(flagged)
<1>1. /\ withheld \in SUBSET Ids /\ flagged \subseteq withheld
      /\ \A a \in Ids \ withheld : Endpoints(a, Corpus) \cap withheld = {}
    BY WithheldCloses
<1>2. v = [a \in Ids \ withheld |-> [Corpus[a] EXCEPT !.points = @ \ withheld]]
    BY DEF _visible, _without_withheld_refs
<1>. HIDE DEF withheld, v
<1>3. ASSUME NEW a \in DOMAIN v
      PROVE  /\ a \in Ids \ withheld /\ v[a].points = Corpus[a].points \ withheld
             /\ v[a].type = Corpus[a].type /\ v[a].schema = Corpus[a].schema
             /\ v[a].name = Corpus[a].name /\ v[a].requires = Corpus[a].requires
             /\ v[a].fk = Corpus[a].fk /\ v[a] \in Asset
    <2>1. a \in Ids \ withheld /\ Corpus[a] \in Asset
        BY <1>2, Classes
    <2>2. v[a] = [Corpus[a] EXCEPT !.points = @ \ withheld]
        BY <1>2, <2>1
    <2>. HIDE DEF Spelling
    <2>. QED BY <2>1, <2>2 DEF Asset
<1>4. DOMAIN v = Ids \ withheld
    BY <1>2
<1>5. ASSUME NEW a \in DOMAIN v, NEW n \in DOMAIN Corpus[a].requires
      PROVE  /\ Endpoint(a, n, v) = Endpoint(a, n, Corpus)
             /\ \E t \in OfType(v, "table") : Endpoint(a, n, v) = {t}
    <2>1. Endpoint(a, n, Corpus) \subseteq Endpoints(a, Corpus) /\ Endpoint(a, n, Corpus) \subseteq Ids
        <3>1. Endpoint(a, n, Corpus) \subseteq Endpoints(a, Corpus)
            BY DEF Endpoints
        <3>2. Endpoint(a, n, Corpus) \subseteq Ids
            <4>1. \A spelling : table_lookup(Corpus, spelling) \subseteq Ids
                BY DEF table_lookup, OfType, Ids
            <4>. QED BY <4>1 DEF Endpoint, bind_endpoint
        <3>. QED BY <3>1, <3>2
    <2>2. Endpoint(a, n, Corpus) \subseteq DOMAIN v
        BY <1>1, <1>3, <1>4, <2>1
    <2>. QED BY <1>3, <1>4, <2>2, StillBinds
<1>6. ASSUME NEW a \in DOMAIN v, v[a].type \in {"table", "term"} PROVE v[a].points \subseteq DOMAIN v
    <2>1. a \notin fatal_problems(Corpus) /\ a \in Ids
        BY <1>3, CorpusIsSound
    <2>2. Corpus[a].points \subseteq Ids
        BY <1>3, <1>6, <2>1 DEF fatal_problems, Ids
    <2>. QED BY <1>3, <1>4, <2>2
<1>. QED BY <1>1, <1>3, <1>4, <1>5, <1>6 DEF ServedOf, v

\* No asset that is served is a reason to refuse what is served.
LEMMA ServedIsSound ==
    ASSUME NEW assets, ServedOf(assets)
    PROVE  fatal_problems(assets) = {}
<1>1. \A a \in DOMAIN assets : BindsAll(a, assets)
    BY DEF ServedOf, BindsAll
<1>. QED BY <1>1 DEF fatal_problems, ServedOf

\* What is built of a served set: its references stay inside it, a table is
\* tagged with its schema.
LEMMA TableTags ==
    ASSUME NEW assets, IsFiniteSet(DOMAIN assets)
    PROVE  \A t \in OfType(assets, "table") : schema_tags(assets)[t] = assets[t].schema
<1>. DEFINE S == DOMAIN assets
            Declared(a) ==
              CASE assets[a].type = "schema" -> assets[a].name
                [] assets[a].type \in {"table", "few_shot"} -> assets[a].schema
                [] assets[a].type \in {"column", "metric", "join"} ->
                     IF Endpoint(a, 1, assets) = {} THEN NoSchema
                     ELSE assets[CHOOSE t \in Endpoint(a, 1, assets) : TRUE].schema
                [] OTHER -> NoSchema
            Terms == OfType(assets, "term")
            Through(tags) ==
              [a \in DOMAIN tags |->
                 IF a \in Terms /\ assets[a].points \cap DOMAIN tags # {}
                 THEN tags[CHOOSE target \in assets[a].points \cap DOMAIN tags : TRUE]
                 ELSE tags[a]]
            first == [a \in S |-> Declared(a)]
            N == Cardinality(Terms)
            Loop(m) == [n \in 0 .. N |-> IF n = 0 THEN first ELSE Through(m[n - 1])]
            round == CHOOSE m : m = Loop(m)
<1>1. schema_tags(assets) = round[N]
    BY Zenon DEF schema_tags
<1>2. N \in Nat
    <2>1. Terms \in SUBSET S
        BY DEF OfType
    <2>2. IsFiniteSet(Terms)
        BY <2>1, FS_Subset
    <2>. QED BY <2>2, FS_CardinalityType
<1>. HIDE DEF N
<1>. DEFINE V == {Declared(a) : a \in S}
            A == {f \in [S -> V] : \A t \in OfType(assets, "table") : f[t] = assets[t].schema}
            F == [f \in A |-> Through(f)]
<1>3. first \in A
    <2>1. first \in [S -> V]
        OBVIOUS
    <2>2. ASSUME NEW t \in OfType(assets, "table") PROVE first[t] = assets[t].schema
        <3>1. t \in S /\ assets[t].type = "table"
            BY DEF OfType
        <3>2. Declared(t) = assets[t].schema
            BY <3>1
        <3>. HIDE DEF Declared
        <3>. QED BY <3>1, <3>2
    <2>. HIDE DEF Declared, first
    <2>. QED BY <2>1, <2>2
<1>. HIDE DEF Declared, first
<1>4. ASSUME NEW f \in A PROVE Through(f) \in A
    <2>1. f \in [S -> V] /\ DOMAIN f = S
        OBVIOUS
    <2>. HIDE DEF V
    <2>2. ASSUME NEW a \in S
          PROVE  (IF a \in Terms /\ assets[a].points \cap DOMAIN f # {}
                  THEN f[CHOOSE target \in assets[a].points \cap DOMAIN f : TRUE]
                  ELSE f[a]) \in V
        <3>1. CASE a \in Terms /\ assets[a].points \cap DOMAIN f # {}
            <4>1. (CHOOSE target \in assets[a].points \cap DOMAIN f : TRUE) \in S
                BY <2>1, <3>1
            <4>. QED BY <2>1, <3>1, <4>1
        <3>2. CASE ~(a \in Terms /\ assets[a].points \cap DOMAIN f # {})
            BY <2>1, <3>2
        <3>. QED BY <3>1, <3>2
    <2>3. Through(f) \in [S -> V]
        BY <2>1, <2>2
    <2>4. ASSUME NEW t \in OfType(assets, "table") PROVE Through(f)[t] = assets[t].schema
        <3>1. t \in S /\ t \notin Terms
            BY DEF OfType
        <3>2. Through(f)[t] = f[t]
            BY <2>1, <3>1
        <3>. QED BY <3>2
    <2>. HIDE DEF Through
    <2>. QED BY <2>3, <2>4
<1>5. F \in [A -> A] /\ \A f \in A : F[f] = Through(f)
    <2>. HIDE DEF A, Through
    <2>. QED BY <1>4
<1>. HIDE DEF F, Through
<1>6. \E m : m = Loop(m)
    <2>. HIDE DEF A
    <2>1. PICK m \in [0 .. N -> A] : Iterated(m, F, first, N)
        BY <1>2, <1>3, <1>5, Iterates
    <2>2. ASSUME NEW n \in 0 .. N PROVE m[n] = IF n = 0 THEN first ELSE Through(m[n - 1])
        <3>1. CASE n = 0
            BY <2>1, <3>1 DEF Iterated
        <3>2. CASE n # 0
            <4>1. n - 1 \in 0 .. N
                BY <1>2, <3>2
            <4>2. F[m[n - 1]] = Through(m[n - 1])
                BY <1>5, <2>1, <4>1
            <4>. QED BY <2>1, <3>2, <4>2 DEF Iterated
        <3>. QED BY <3>1, <3>2
    <2>3. m = Loop(m)
        BY <2>1, <2>2
    <2>. QED BY <2>3
<1>7. round = Loop(round)
    BY <1>6, Zenon
<1>. HIDE DEF round
<1>8. \A n \in 0 .. N : round[n] = IF n = 0 THEN first ELSE Through(round[n - 1])
    <2>1. \A n \in 0 .. N : round[n] = Loop(round)[n]
        BY <1>7, Zenon
    <2>. QED BY <2>1
<1>. DEFINE T == {n \in 0 .. N : round[n] \in A}
<1>9. 0 \in T
    <2>1. 0 \in 0 .. N
        BY <1>2
    <2>2. round[0] = first
        BY <1>8, <2>1, Zenon
    <2>. HIDE DEF A
    <2>. QED BY <1>3, <2>1, <2>2
<1>10. ASSUME NEW n \in 0 .. N, n \in T, n < N PROVE n + 1 \in T
    <2>1. n + 1 \in 0 .. N /\ n + 1 # 0 /\ (n + 1) - 1 = n
        BY <1>2, <1>10
    <2>2. round[n + 1] = Through(round[n])
        BY <1>8, <2>1, Zenon
    <2>. HIDE DEF A
    <2>. QED BY <1>4, <1>10, <2>1, <2>2
<1>. HIDE DEF T
<1>11. 0 .. N \subseteq T
    BY <1>2, <1>9, <1>10, UpTo
<1>12. N \in 0 .. N
    BY <1>2
<1>13. round[N] \in A
    BY <1>11, <1>12 DEF T
<1>. QED BY <1>1, <1>13

\* What is built of a served set.
LEMMA BuiltOf ==
    ASSUME NEW assets, ServedOf(assets)
    PROVE  LET built == build_structure(assets)
           IN  /\ built.assets = assets /\ built.fatal = {}
               /\ built.references \in [DOMAIN assets -> SUBSET DOMAIN assets]
               /\ \A t \in OfType(assets, "table") : built.tags[t] = assets[t].schema
               /\ DOMAIN built.joins \subseteq OfType(assets, "join")
               /\ \A j \in DOMAIN built.joins : built.joins[j] = Endpoints(j, assets)
               /\ built.edges = {e \in {built.joins[j] : j \in DOMAIN built.joins} : Cardinality(e) = 2}
<1>. DEFINE built == build_structure(assets)
<1>1. /\ built.assets = assets /\ built.references = references(assets)
      /\ built.edges = join_edges(assets) /\ built.tags = schema_tags(assets)
      /\ built.joins = [j \in BoundJoins(assets) |-> Endpoints(j, assets)]
      /\ built.fatal = fatal_problems(assets)
    BY DEF build_structure
<1>. HIDE DEF built
<1>2. built.fatal = {}
    BY <1>1, ServedIsSound
<1>3. references(assets) \in [DOMAIN assets -> SUBSET DOMAIN assets]
    <2>. DEFINE To(a) == IF BindsAll(a, assets)
                         THEN Endpoints(a, assets)
                              \cup (assets[a].points \cap DOMAIN assets)
                              \cup UNION {bind_endpoint(s, assets, assets[a].schema) : s \in assets[a].cites}
                         ELSE {}
    <2>1. references(assets) = [a \in DOMAIN assets |-> To(a)]
        BY DEF references
    <2>2. \A spelling : table_lookup(assets, spelling) \subseteq DOMAIN assets
        BY DEF table_lookup, OfType
    <2>3. \A s, scope : bind_endpoint(s, assets, scope) \subseteq DOMAIN assets
        BY <2>2 DEF bind_endpoint
    <2>4. \A a : Endpoints(a, assets) \subseteq DOMAIN assets
        BY <2>3 DEF Endpoints, Endpoint
    <2>5. ASSUME NEW a PROVE To(a) \in SUBSET DOMAIN assets
        <3>1. UNION {bind_endpoint(s, assets, assets[a].schema) : s \in assets[a].cites} \subseteq DOMAIN assets
            BY <2>3
        <3>. QED BY <2>4, <3>1
    <2>. HIDE DEF To
    <2>. QED BY <2>1, <2>5
<1>4. IsFiniteSet(DOMAIN assets)
    BY CorpusAssumption, FS_Subset DEF ServedOf
<1>5. \A t \in OfType(assets, "table") : built.tags[t] = assets[t].schema
    BY <1>1, <1>4, TableTags
<1>6. /\ DOMAIN built.joins = BoundJoins(assets)
      /\ \A j \in DOMAIN built.joins : built.joins[j] = Endpoints(j, assets)
    BY <1>1
<1>7. BoundJoins(assets) \subseteq OfType(assets, "join")
    BY DEF BoundJoins
<1>8. {Endpoints(j, assets) : j \in BoundJoins(assets)} = {built.joins[j] : j \in DOMAIN built.joins}
    BY <1>6
<1>. QED BY <1>1, <1>2, <1>3, <1>5, <1>6, <1>7, <1>8 DEF join_edges, built

-----------------------------------------------------------------------------
(* What a turn is given, and keeps.                                        *)

StructureOK == ServedOf(structure.assets) /\ structure = build_structure(structure.assets)
AskerOK ==
  /\ asker.policy = NoPolicy \/ asker.policy \in Policies
  /\ Starts(asker.policy, asker.roles)
  /\ grant = resolve_access_grant(asker.policy, asker.roles)
Given == StructureOK /\ AskerOK

LEMMA GivenFirst == Init => Given
<1>. SUFFICES ASSUME Init PROVE Given
    OBVIOUS
<1>1. PICK flagged \in SUBSET MayBeWithheld : structure = build_structure(_visible(flagged))
    BY DEF Init
<1>2. flagged \in SUBSET Ids
    BY CorpusAssumption
<1>3. ServedOf(_visible(flagged))
    BY <1>2, VisibleIsServed
<1>4. structure.assets = _visible(flagged)
    BY <1>1, <1>3, BuiltOf
<1>5. StructureOK
    BY <1>1, <1>3, <1>4 DEF StructureOK
<1>6. AskerOK
    BY DEF Init, AskerOK
<1>. QED BY <1>5, <1>6 DEF Given

LEMMA StepsAreFixed ==
    ASSUME [Next]_vars
    PROVE  structure' = structure /\ asker' = asker /\ grant' = grant
<1>1. ASSUME Fixed PROVE structure' = structure /\ asker' = asker /\ grant' = grant
    BY <1>1 DEF Fixed
<1>2. CASE \E f \in Facets : FacetRuns(f) \/ FacetCrashes(f)
    BY <1>1, <1>2 DEF FacetRuns, FacetCrashes
<1>3. CASE FacetsDone \/ PassesOver
    BY <1>1, <1>3 DEF FacetsDone, PassesOver
<1>4. CASE route_node \/ resolve_node \/ connect_node \/ assemble_node \/ abstain_node
    BY <1>1, <1>4 DEF route_node, resolve_node, connect_node, assemble_node, abstain_node, Runs
<1>5. CASE UNCHANGED vars
    BY <1>5 DEF vars
<1>. QED BY <1>2, <1>3, <1>4, <1>5 DEF Next

LEMMA GivenKept == Given /\ [Next]_vars => Given'
<1>. SUFFICES ASSUME Given, [Next]_vars PROVE Given'
    OBVIOUS
<1>1. structure' = structure /\ asker' = asker /\ grant' = grant
    BY StepsAreFixed
<1>. QED BY <1>1 DEF Given, StructureOK, AskerOK

LEMMA GivenAlways == Spec => []Given
<1>1. Init => Given
    BY GivenFirst
<1>2. Given /\ [Next]_vars => Given'
    BY GivenKept
<1>. QED BY <1>1, <1>2, PTL DEF Spec

\* What the session serves is built of a sound set, and so is what it would
\* serve with any two more of its assets withheld (serve/session.py,
\* retrieve/structure.py): no curator can make a sound corpus one that is
\* refused at load.
THEOREM WithholdingIsSafe == Spec => []WithholdingNeverBreaksTheCorpus
<1>1. ASSUME Given PROVE WithholdingNeverBreaksTheCorpus
    <2>1. structure.fatal = {}
        BY <1>1, BuiltOf DEF Given, StructureOK
    <2>2. ASSUME NEW a \in Served, NEW b \in Served
          PROVE  build_structure(_visible((Ids \ Served) \cup {a, b})).fatal = {}
        <3>1. Served \in SUBSET Ids
            BY <1>1 DEF Given, StructureOK, ServedOf, Served
        <3>2. (Ids \ Served) \cup {a, b} \in SUBSET Ids
            BY <2>2, <3>1
        <3>3. ServedOf(_visible((Ids \ Served) \cup {a, b}))
            BY <3>2, VisibleIsServed
        <3>. QED BY <3>3, BuiltOf
    <2>. QED BY <2>1, <2>2 DEF WithholdingNeverBreaksTheCorpus
<1>2. Given => WithholdingNeverBreaksTheCorpus
    BY <1>1
<1>. QED BY <1>2, GivenAlways, PTL

-----------------------------------------------------------------------------
(* How a turn stands at each stage, as long as it has not ended.           *)

\* What a facet that did not crash reports of its channels.
Accounted(f) ==
  /\ facets[f].hits \subseteq Served /\ DOMAIN facets[f].channels = Channel
  /\ \A ch \in Channel : expected_channel_state(f, ch) = "ran" =>
       facets[f].channels[ch] \in {"ran", "failed"} \/ (ch = "semantic" /\ ~embedder)
FacetsInv ==
  /\ facets = [f \in Facets |-> facets[f]]
  /\ \A f \in Facets : facets[f] = NotRun \/ Accounted(f)
  /\ stage # "facets" => \A f \in Facets : facets[f] # NotRun

Shown == found \cup DOMAIN pulled_in

\* The licence is of the tables among what was found and what that pulled in;
\* from connect on these hold every join between licensed tables, and what
\* the join graph connects is connected by them.
LicenceInv ==
  /\ Shown \subseteq Served
  /\ stage \in {"facets", "route"} => licensed = {} /\ Shown = {}
  /\ stage = "resolve" => DOMAIN pulled_in = {}
  /\ licensed = Tabled(Shown)
  /\ stage \in {"assemble", "abstain", "agent"} =>
       /\ complete_joins(licensed, structure) \subseteq Shown
       /\ KeepsJoined(licensed, Tables, structure.edges)

BlockInv ==
  stage \in {"abstain", "agent"} =>
    \E gone \in SUBSET Evictable(Renderable) : block = render_context(Renderable, gone)

AbstentionInv ==
  /\ stage # "agent" => abstention = "none"
  /\ abstention = "answer" => licensed # {} /\ block.evicted = {} /\ _failed_channels = {}

TurnInv ==
  /\ stage \in Stages
  /\ path_kind \notin Terminal => FacetsInv /\ LicenceInv /\ BlockInv /\ AbstentionInv

LEMMA TurnFirst == Init => TurnInv
<1>. SUFFICES ASSUME Init PROVE TurnInv
    OBVIOUS
<1>1. stage = "facets" /\ facets = [f \in Facets |-> NotRun] /\ found = {} /\ pulled_in = Nothing
      /\ licensed = {} /\ abstention = "none"
    BY DEF Init
<1>2. FacetsInv
    BY <1>1 DEF FacetsInv
<1>3. Shown = {}
    BY <1>1 DEF Shown, Nothing
<1>4. LicenceInv /\ BlockInv /\ AbstentionInv
    BY <1>1, <1>3 DEF LicenceInv, BlockInv, AbstentionInv, Tabled
<1>. QED BY <1>1, <1>2, <1>4 DEF TurnInv, Stages

LEMMA AfterStages ==
    /\ \A s \in Stages : After(s) \in Stages
    /\ After("route") = "resolve" /\ After("resolve") = "connect" /\ After("connect") = "assemble"
    /\ After("assemble") = "abstain" /\ After("abstain") = "agent"
BY DEF After, Stages

\* What is served, and the tables of it, of a session that stays the same.
LEMMA SameSession ==
    ASSUME structure' = structure
    PROVE  /\ Served' = Served /\ Tables' = Tables
           /\ \A a : TypeOf(a)' = TypeOf(a) /\ Tag(a)' = Tag(a)
           /\ \A X : Tabled(X)' = Tabled(X)
BY DEF Served, Tables, TypeOf, Tag, Tabled

\* What a facet that runs is left with.
LEMMA FacetAccounts ==
    ASSUME FacetsInv, NEW f \in Facets, FacetRuns(f)
    PROVE  FacetsInv'
<1>1. stage = "facets" /\ stage' = stage /\ structure' = structure
    BY DEF FacetRuns, Fixed
<1>2. PICK rewritten \in _rewritten_query(f), vector \in vector_for_query :
        \E hits \in _pass_one_hits(f, _consulted(f, rewritten, vector)) :
          facets' = merge_facets(f, [hits |-> hits,
                      channels |-> _channels_for(f, _consulted(f, rewritten, vector), vector)])
    BY DEF FacetRuns
<1>. DEFINE ran == _consulted(f, rewritten, vector)
            channels == _channels_for(f, ran, vector)
<1>3. PICK hits \in _pass_one_hits(f, ran) : facets' = merge_facets(f, [hits |-> hits, channels |-> channels])
    BY <1>2
<1>4. hits \subseteq Served
    BY DEF _pass_one_hits
<1>. HIDE DEF ran
<1>5. DOMAIN channels = Channel
    BY DEF _channels_for
<1>6. ASSUME NEW ch \in Channel, expected_channel_state(f, ch) = "ran"
      PROVE  channels[ch] \in {"ran", "failed"} \/ (ch = "semantic" /\ ~embedder)
    <2>1. channels[ch] = IF ch \in ran THEN "ran" ELSE IF ch = "semantic" THEN vector ELSE "failed"
        BY <1>6 DEF _channels_for
    <2>2. vector \in {"ran", "failed"} \/ ~embedder
        BY DEF vector_for_query
    <2>. HIDE DEF channels
    <2>. QED BY <2>1, <2>2
<1>. HIDE DEF channels
<1>7. facets' = [facets EXCEPT ![f] = [hits |-> hits, channels |-> channels]]
    BY <1>3 DEF merge_facets
<1>8. /\ facets' = [g \in Facets |-> facets'[g]]
      /\ facets'[f] = [hits |-> hits, channels |-> channels]
      /\ \A g \in Facets \ {f} : facets'[g] = facets[g]
    BY <1>7 DEF FacetsInv
<1>9. Accounted(f)'
    BY <1>1, <1>4, <1>5, <1>6, <1>8, SameSession DEF Accounted, expected_channel_state
<1>10. ASSUME NEW g \in Facets \ {f} PROVE facets'[g] = NotRun \/ Accounted(g)'
    <2>1. facets[g] = NotRun \/ Accounted(g)
        BY DEF FacetsInv
    <2>. QED BY <1>1, <1>8, <2>1, SameSession DEF Accounted, expected_channel_state
<1>. QED BY <1>1, <1>8, <1>9, <1>10 DEF FacetsInv

\* As long as the facets run, the rest of the turn is empty.
LEMMA FacetsKeepTurn ==
    ASSUME Given, TurnInv, \E f \in Facets : FacetRuns(f) \/ FacetCrashes(f)
    PROVE  TurnInv'
<1>1. PICK f \in Facets : FacetRuns(f) \/ FacetCrashes(f)
    OBVIOUS
<1>2. CASE FacetCrashes(f)
    BY <1>2 DEF FacetCrashes, TurnInv, Terminal
<1>3. CASE FacetRuns(f)
    <2>1. /\ stage' = stage /\ stage = "facets" /\ structure' = structure /\ path_kind' = path_kind
          /\ found' = found /\ pulled_in' = pulled_in /\ licensed' = licensed /\ abstention' = abstention
        BY <1>3 DEF FacetRuns, Fixed
    <2>2. SUFFICES ASSUME path_kind \notin Terminal
                   PROVE  FacetsInv' /\ LicenceInv' /\ BlockInv' /\ AbstentionInv'
        BY <2>1 DEF TurnInv
    <2>3. FacetsInv /\ LicenceInv /\ AbstentionInv
        BY <2>2 DEF TurnInv
    <2>4. FacetsInv'
        BY <1>3, <2>3, FacetAccounts
    <2>5. LicenceInv'
        BY <2>1, <2>3, SameSession DEF LicenceInv, Shown
    <2>6. BlockInv' /\ AbstentionInv'
        BY <2>1, <2>3 DEF BlockInv, AbstentionInv
    <2>. QED BY <2>4, <2>5, <2>6
<1>. QED BY <1>1, <1>2, <1>3

\* A stage that leaves what the facets found alone.
LEMMA FacetsStay ==
    ASSUME FacetsInv, stage' # "facets", stage # "facets", facets' = facets, structure' = structure
    PROVE  FacetsInv' /\ _failed_channels' = _failed_channels
<1>1. ASSUME NEW f \in Facets PROVE Accounted(f)' <=> Accounted(f)
    BY SameSession DEF Accounted, expected_channel_state
<1>2. _failed_channels' = _failed_channels
    BY DEF _failed_channels
<1>. QED BY <1>1, <1>2 DEF FacetsInv

LEMMA DoneKeepsTurn ==
    ASSUME Given, TurnInv, FacetsDone \/ PassesOver
    PROVE  TurnInv'
<1>1. CASE PassesOver
    <2>1. path_kind' \in Terminal /\ stage' \in Stages
        BY <1>1, AfterStages DEF PassesOver, TurnInv, turn
    <2>. QED BY <2>1 DEF TurnInv
<1>2. CASE FacetsDone
    <2>1. /\ stage = "facets" /\ stage' = "route" /\ structure' = structure /\ facets' = facets
          /\ path_kind' = path_kind /\ found' = found /\ pulled_in' = pulled_in
          /\ licensed' = licensed /\ abstention' = abstention
          /\ \A f \in Facets : facets[f] # NotRun
        BY <1>2 DEF FacetsDone, Fixed, turn
    <2>2. SUFFICES ASSUME path_kind \notin Terminal
                   PROVE  FacetsInv' /\ LicenceInv' /\ BlockInv' /\ AbstentionInv'
        BY <2>1 DEF TurnInv, Stages
    <2>3. FacetsInv /\ LicenceInv /\ AbstentionInv
        BY <2>2 DEF TurnInv
    <2>4. FacetsInv'
        <3>1. ASSUME NEW f \in Facets PROVE Accounted(f)' <=> Accounted(f)
            BY <2>1, SameSession DEF Accounted, expected_channel_state
        <3>. QED BY <2>1, <2>3, <3>1 DEF FacetsInv
    <2>5. LicenceInv'
        BY <2>1, <2>3, SameSession DEF LicenceInv, Shown
    <2>6. BlockInv' /\ AbstentionInv'
        BY <2>1, <2>3 DEF BlockInv, AbstentionInv
    <2>. QED BY <2>4, <2>5, <2>6
<1>. QED BY <1>1, <1>2

\* What runs leaves the session alone and goes on to the next stage.
LEMMA RunsOn ==
    ASSUME NEW node, Runs(node)
    PROVE  /\ stage = node /\ stage' = After(node) /\ path_kind \notin Terminal
           /\ structure' = structure /\ asker' = asker /\ grant' = grant
BY DEF Runs, Fixed

LEMMA RouteKeepsTurn ==
    ASSUME Given, TurnInv, route_node
    PROVE  TurnInv'
<1>1. /\ stage = "route" /\ stage' = "resolve" /\ structure' = structure /\ path_kind \notin Terminal
    BY RunsOn, AfterStages DEF route_node
<1>2. FacetsInv /\ LicenceInv /\ AbstentionInv
    BY <1>1 DEF TurnInv
<1>3. CASE NoSchemaMatched
    BY <1>1, <1>3 DEF NoSchemaMatched, TurnInv, Terminal, Stages
<1>4. CASE PassTwo
    <2>1. PICK chosen \in SUBSET Voted :
            LET carried == Carried
                candidates == [f \in Facets |-> _candidate_ids(f, chosen) \ carried]
            IN  \E kept \in SUBSET (carried \cup UNION {candidates[f] : f \in Facets}) :
                  found' = kept /\ licensed' = IF Tabled(kept) = {} THEN licensed ELSE Tabled(kept)
        BY <1>4 DEF PassTwo
    <2>2. facets' = facets /\ path_kind' = path_kind /\ pulled_in' = pulled_in /\ abstention' = abstention
        BY <1>4 DEF PassTwo
    <2>3. Carried \subseteq Served
        <3>1. \A f \in Facets : facets[f].hits \subseteq Served
            BY <1>1, <1>2 DEF FacetsInv, Accounted
        <3>. QED BY <3>1 DEF Carried, Hits
    <2>4. \A f \in Facets : _candidate_ids(f, chosen) \subseteq Served
        BY DEF _candidate_ids
    <2>5. PICK kept : /\ kept \subseteq Served
                      /\ found' = kept /\ licensed' = IF Tabled(kept) = {} THEN licensed ELSE Tabled(kept)
        <3>. DEFINE candidates == [f \in Facets |-> _candidate_ids(f, chosen) \ Carried]
                    all == Carried \cup UNION {candidates[f] : f \in Facets}
        <3>1. all \subseteq Served
            BY <2>3, <2>4
        <3>2. PICK kept \in SUBSET all :
                found' = kept /\ licensed' = IF Tabled(kept) = {} THEN licensed ELSE Tabled(kept)
            BY <2>1
        <3>. HIDE DEF all
        <3>3. kept \subseteq Served
            BY <3>1
        <3>. QED BY <3>2, <3>3
    <2>6. Shown' = kept /\ licensed = {} /\ DOMAIN pulled_in = {}
        BY <1>1, <1>2, <2>2, <2>5 DEF LicenceInv, Shown
    <2>7. licensed' = Tabled(kept)
        BY <2>5, <2>6
    <2>8. LicenceInv'
        BY <1>1, <2>2, <2>5, <2>6, <2>7, SameSession DEF LicenceInv
    <2>9. FacetsInv' /\ BlockInv' /\ AbstentionInv'
        BY <1>1, <1>2, <2>2, FacetsStay DEF BlockInv, AbstentionInv
    <2>. QED BY <1>1, <2>8, <2>9 DEF TurnInv, Stages
<1>. QED BY <1>3, <1>4 DEF route_node

\* What the found assets refer to is served.
LEMMA ResolveServes ==
    ASSUME Given, NEW ids \in SUBSET Served
    PROVE  resolve(ids) \in SUBSET Served
<1>1. structure.references \in [Served -> SUBSET Served]
    BY BuiltOf DEF Given, StructureOK, Served
<1>2. IsFiniteSet(Served)
    BY CorpusAssumption, FS_Subset DEF Given, StructureOK, ServedOf, Served
<1>. QED BY <1>1, <1>2, SpreadIsLeast DEF resolve

LEMMA ResolveKeepsTurn ==
    ASSUME Given, TurnInv, resolve_node
    PROVE  TurnInv'
<1>1. /\ stage = "resolve" /\ stage' = "connect" /\ structure' = structure /\ path_kind \notin Terminal
    BY RunsOn, AfterStages DEF resolve_node
<1>2. FacetsInv /\ LicenceInv /\ AbstentionInv
    BY <1>1 DEF TurnInv
<1>. DEFINE added == resolve(found) \ found
<1>3. /\ pulled_in' = [a \in added |-> "resolve"]
      /\ licensed' = licensed \cup Tabled(found) \cup Tabled(added)
      /\ facets' = facets /\ path_kind' = path_kind /\ found' = found /\ abstention' = abstention
    BY DEF resolve_node
<1>4. found \subseteq Served /\ licensed = Tabled(found)
    BY <1>1, <1>2 DEF LicenceInv, Shown
<1>5. added \subseteq Served
    BY <1>4, ResolveServes
<1>. HIDE DEF added
<1>6. Shown' = found \cup added
    BY <1>3 DEF Shown
<1>7. licensed' = Tabled(found \cup added)
    BY <1>3, <1>4 DEF Tabled
<1>8. LicenceInv'
    BY <1>1, <1>4, <1>5, <1>6, <1>7, SameSession DEF LicenceInv
<1>9. FacetsInv' /\ BlockInv' /\ AbstentionInv'
    BY <1>1, <1>2, <1>3, FacetsStay DEF BlockInv, AbstentionInv
<1>. QED BY <1>1, <1>8, <1>9 DEF TurnInv, Stages

LEMMA ConnectKeepsTurn ==
    ASSUME Given, TurnInv, connect_node
    PROVE  TurnInv'
<1>1. /\ stage = "connect" /\ stage' = "assemble" /\ structure' = structure /\ path_kind \notin Terminal
    BY RunsOn, AfterStages DEF connect_node
<1>2. FacetsInv /\ LicenceInv /\ AbstentionInv
    BY <1>1 DEF TurnInv
<1>. DEFINE trees == Trees
            joined == Joined(trees)
            kept == UNION joined
            added == UNION {trees[g].added : g \in joined}
            stay == IF joined = DOMAIN trees THEN Served ELSE _restrict_to_component(kept, Terminals \ kept)
            narrowed == DOMAIN pulled_in \cap stay
            joins == Completed(kept, added) \ (narrowed \cup added)
<1>3. CASE NothingConnects(trees)
    BY <1>1, <1>3 DEF NothingConnects, TurnInv, Terminal, Stages
<1>4. CASE Connects(trees)
    <2>1. /\ facets' = facets /\ abstention' = abstention
          /\ found' = found \cap stay
          /\ pulled_in' = [a \in narrowed \cup added \cup joins |->
                             IF a \in narrowed \ added THEN pulled_in[a] ELSE "connect"]
          /\ path_kind' = "decline" \/ (licensed' = kept \cup added /\ path_kind' = path_kind)
        BY <1>4 DEF Connects
    <2>2. CASE path_kind' = "decline"
        BY <1>1, <2>2 DEF TurnInv, Terminal, Stages
    <2>3. CASE licensed' = kept \cup added /\ path_kind' = path_kind
        <3>1. /\ licensed = Tabled(Shown) /\ Shown \subseteq Served
              /\ Served = DOMAIN structure.assets /\ ServedOf(structure.assets)
            BY <1>1, <1>2 DEF LicenceInv, Given, StructureOK, Served
        <3>2. Terminals = licensed
            BY <3>1 DEF Terminals, Tabled, Shown
        <3>3. /\ Tables \subseteq Served /\ IsFiniteSet(Tables) /\ licensed \in SUBSET Tables
              /\ \A t \in Tables : TypeOf(t) = "table" /\ Tag(t) = structure.assets[t].schema
            <4>1. Tables \subseteq Served /\ licensed \in SUBSET Tables
                  /\ \A t \in Tables : TypeOf(t) = "table"
                BY <3>1 DEF Tables, OfType, Tabled, Served, TypeOf
            <4>2. IsFiniteSet(Served)
                BY <3>1, CorpusAssumption, FS_Subset DEF ServedOf
            <4>3. \A t \in Tables : Tag(t) = structure.assets[t].schema
                BY <3>1, BuiltOf DEF Given, StructureOK, Tag, Tables
            <4>. QED BY <4>1, <4>2, <4>3, FS_Subset
        <3>4. trees = [g \in components(licensed, Tables, structure.edges) |->
                         connect(g, Tables, structure.edges, max_steiner_points)]
            BY <3>2 DEF Trees, Groups
        <3>5. /\ kept \in SUBSET licensed /\ added \in SUBSET Tables
              /\ joined = DOMAIN trees => kept = licensed
              /\ KeepsJoined(kept \cup added, Tables, structure.edges)
            <4>1. TreesOf(trees, licensed, Tables, structure.edges, max_steiner_points)
                BY <3>4 DEF TreesOf
            <4>2. joined = Joined(trees) /\ added = AddedBy(trees)
                BY DEF AddedBy
            <4>. HIDE DEF trees, joined, added
            <4>3. IsFiniteSet(Tables) /\ licensed \in SUBSET Tables
                BY <3>3
            <4>4. TreesKeep(trees, licensed, Tables, structure.edges)
                BY <4>1, <4>3, TreesKeepJoined
            <4>. QED BY <4>2, <4>4 DEF TreesKeep
        <3>6. joins \subseteq Served /\ joins \cap Tables = {}
            <4>1. DOMAIN structure.joins \subseteq OfType(structure.assets, "join")
                BY <3>1, BuiltOf DEF Given, StructureOK
            <4>2. OfType(structure.assets, "join") \subseteq Served /\ OfType(structure.assets, "join") \cap Tables = {}
                BY <3>1 DEF OfType, Tables
            <4>3. joins \subseteq DOMAIN structure.joins
                BY DEF Completed, complete_joins
            <4>. QED BY <4>1, <4>2, <4>3
        <3>. HIDE DEF trees
        <3>7. Tabled(Shown \cap stay) = kept
            <4>1. CASE joined = DOMAIN trees
                <5>1. Shown \cap stay = Shown
                    BY <3>1, <4>1
                <5>. QED BY <3>1, <3>5, <4>1, <5>1
            <4>2. CASE joined # DOMAIN trees
                <5>1. stay = _restrict_to_component(kept, licensed \ kept)
                    BY <3>2, <4>2
                <5>. HIDE DEF joined, kept, stay
                <5>2. ASSUME NEW t \in kept PROVE t \in stay /\ t \in Tabled(Shown)
                    <6>1. t \in Tables /\ t \in licensed /\ t \in Served
                        BY <3>3, <3>5
                    <6>2. Tag(t) \in {structure.assets[u].schema : u \in kept}
                        BY <3>3, <6>1
                    <6>. QED BY <3>1, <5>1, <6>1, <6>2 DEF _restrict_to_component
                <5>3. ASSUME NEW t \in Tabled(Shown), t \in stay PROVE t \in kept
                    BY <3>1, <5>1, <5>3 DEF _restrict_to_component
                <5>. QED BY <5>2, <5>3 DEF Tabled
            <4>. QED BY <4>1, <4>2
        <3>. HIDE DEF stay, joined
        <3>8. Shown' = (Shown \cap stay) \cup added \cup joins
            BY <2>1 DEF Shown
        <3>. HIDE DEF joins, added, kept
        <3>9. licensed' = Tabled(Shown')
            BY <2>3, <3>5, <3>6, <3>7, <3>8 DEF Tabled
        <3>10. Shown' \subseteq Served
            BY <3>1, <3>3, <3>5, <3>6, <3>8
        <3>11. complete_joins(licensed', structure) \subseteq Shown'
            <4>1. Completed(kept, added) = complete_joins(licensed', structure)
                BY <2>3 DEF Completed
            <4>2. Completed(kept, added) \subseteq joins \cup narrowed \cup added
                BY DEF joins
            <4>3. narrowed \subseteq Shown \cap stay
                BY DEF Shown
            <4>. QED BY <3>8, <4>1, <4>2, <4>3
        <3>12. KeepsJoined(licensed', Tables, structure.edges)
            BY <2>3, <3>5
        <3>13. LicenceInv'
            BY <1>1, <3>9, <3>10, <3>11, <3>12, SameSession DEF LicenceInv
        <3>14. FacetsInv' /\ BlockInv' /\ AbstentionInv'
            BY <1>1, <1>2, <2>1, FacetsStay DEF BlockInv, AbstentionInv
        <3>. QED BY <1>1, <3>13, <3>14 DEF TurnInv, Stages
    <2>. QED BY <2>1, <2>2, <2>3
<1>. QED BY <1>3, <1>4 DEF connect_node

\* What a stage that changes nothing of the licence or the block keeps.
LEMMA SameBlock ==
    ASSUME structure' = structure, grant' = grant, schemas' = schemas, found' = found,
           pulled_in' = pulled_in
    PROVE  /\ Renderable' = Renderable /\ Evictable(Renderable)' = Evictable(Renderable)
           /\ \A gone : render_context(Renderable, gone)' = render_context(Renderable, gone)
<1>1. Renderable' = Renderable
    BY DEF Renderable, SchemaAssets, Served, TypeOf
<1>2. Evictable(Renderable)' = Evictable(Renderable)
    BY <1>1, SameSession DEF Evictable
<1>3. ASSUME NEW gone PROVE render_context(Renderable, gone)' = render_context(Renderable, gone)
    <2>1. Drop(Renderable, gone)' = Drop(Renderable, gone)
        <3>1. \A a : _parent_table_id(a, Renderable)' = _parent_table_id(a, Renderable)
            BY <1>1 DEF _parent_table_id, Tabled, Tables
        <3>. QED BY <1>1, <3>1 DEF Drop, Under, _fold_pulled_in_columns, TypeOf
    <2>2. _collect_rules(Renderable)' = _collect_rules(Renderable)
        BY <1>1 DEF _collect_rules, TypeOf
    <2>3. _collect_caveats(Renderable)' = _collect_caveats(Renderable)
        BY <1>1 DEF _collect_caveats
    <2>. QED BY <2>1, <2>2, <2>3 DEF render_context
<1>. QED BY <1>1, <1>2, <1>3

LEMMA AssembleKeepsTurn ==
    ASSUME Given, TurnInv, assemble_node
    PROVE  TurnInv'
<1>1. /\ stage = "assemble" /\ stage' = "abstain" /\ structure' = structure /\ grant' = grant
      /\ path_kind \notin Terminal
    BY RunsOn, AfterStages DEF assemble_node
<1>2. FacetsInv /\ LicenceInv /\ AbstentionInv
    BY <1>1 DEF TurnInv
<1>3. /\ facets' = facets /\ path_kind' = path_kind /\ schemas' = schemas /\ found' = found
      /\ pulled_in' = pulled_in /\ licensed' = licensed /\ abstention' = abstention
    BY DEF assemble_node
<1>4. PICK gone \in SUBSET Evictable(Renderable) : block' = render_context(Renderable, gone)
    BY DEF assemble_node
<1>5. BlockInv'
    BY <1>1, <1>3, <1>4, SameBlock DEF BlockInv
<1>6. LicenceInv'
    BY <1>1, <1>2, <1>3, SameSession DEF LicenceInv, Shown, complete_joins
<1>7. FacetsInv' /\ AbstentionInv'
    BY <1>1, <1>2, <1>3, FacetsStay DEF AbstentionInv
<1>. QED BY <1>1, <1>5, <1>6, <1>7 DEF TurnInv, Stages

\* When no rule of the policy fires, nothing it looks for is there.
LEMMA NoRuleFires ==
    ASSUME {n \in DOMAIN ABSTENTION_RULES : Fires(ABSTENTION_RULES[n])} = {}
    PROVE  licensed # {} /\ block.evicted = {} /\ _failed_channels = {}
<1>1. /\ DOMAIN ABSTENTION_RULES = 1 .. 4
      /\ ABSTENTION_RULES[1] = "retrieval_channel_failed" /\ ABSTENTION_RULES[2] = "nothing_licensed"
      /\ ABSTENTION_RULES[4] = "licensed_table_evicted"
    BY DEF ABSTENTION_RULES
<1>2. /\ ~Fires("retrieval_channel_failed") /\ ~Fires("nothing_licensed")
      /\ ~Fires("licensed_table_evicted")
    <2>1. \A n \in 1 .. 4 : ~Fires(ABSTENTION_RULES[n])
        BY <1>1
    <2>2. 1 \in 1 .. 4 /\ 2 \in 1 .. 4 /\ 4 \in 1 .. 4
        OBVIOUS
    <2>. QED BY <1>1, <2>1, <2>2
<1>3. ~Fires("retrieval_channel_failed") => _failed_channels = {}
    BY DEF Fires
<1>4. ~Fires("nothing_licensed") => licensed # {}
    BY DEF Fires
<1>5. ~Fires("licensed_table_evicted") => block.evicted = {}
    BY DEF Fires
<1>. QED BY <1>2, <1>3, <1>4, <1>5

LEMMA AbstainKeepsTurn ==
    ASSUME Given, TurnInv, abstain_node
    PROVE  TurnInv'
<1>1. /\ stage = "abstain" /\ stage' = "agent" /\ structure' = structure /\ grant' = grant
      /\ path_kind \notin Terminal
    BY RunsOn, AfterStages DEF abstain_node
<1>2. FacetsInv /\ LicenceInv /\ BlockInv
    BY <1>1 DEF TurnInv
<1>3. /\ facets' = facets /\ schemas' = schemas /\ found' = found
      /\ pulled_in' = pulled_in /\ licensed' = licensed /\ block' = block
    BY DEF abstain_node
<1>4. /\ path_kind' = "decline" \/ abstention' = "disabled"
         \/ (abstention' = "answer" /\ {n \in DOMAIN ABSTENTION_RULES : Fires(ABSTENTION_RULES[n])} = {})
    BY DEF abstain_node
<1>5. CASE path_kind' \in Terminal
    BY <1>1, <1>5 DEF TurnInv, Stages
<1>6. CASE path_kind' \notin Terminal
    <2>1. _failed_channels' = _failed_channels /\ FacetsInv'
        BY <1>1, <1>2, <1>3, FacetsStay
    <2>2. AbstentionInv'
        <3>1. CASE abstention' = "disabled"
            BY <1>1, <3>1 DEF AbstentionInv
        <3>2. CASE {n \in DOMAIN ABSTENTION_RULES : Fires(ABSTENTION_RULES[n])} = {}
            <4>1. licensed # {} /\ block.evicted = {} /\ _failed_channels = {}
                BY <3>2, NoRuleFires
            <4>. QED BY <1>1, <1>3, <2>1, <4>1 DEF AbstentionInv
        <3>. QED BY <1>4, <1>6, <3>1, <3>2 DEF Terminal
    <2>3. LicenceInv'
        BY <1>1, <1>2, <1>3, SameSession DEF LicenceInv, Shown, complete_joins
    <2>4. BlockInv'
        BY <1>1, <1>2, <1>3, SameBlock DEF BlockInv
    <2>. QED BY <1>1, <2>1, <2>2, <2>3, <2>4 DEF TurnInv, Stages
<1>. QED BY <1>5, <1>6

LEMMA TurnKept == Given /\ TurnInv /\ [Next]_vars => TurnInv'
<1>. SUFFICES ASSUME Given, TurnInv, [Next]_vars PROVE TurnInv'
    OBVIOUS
<1>1. CASE UNCHANGED vars
    <2>1. /\ structure' = structure /\ grant' = grant /\ stage' = stage /\ facets' = facets
          /\ path_kind' = path_kind /\ schemas' = schemas /\ found' = found /\ pulled_in' = pulled_in
          /\ licensed' = licensed /\ block' = block /\ abstention' = abstention
        BY <1>1 DEF vars, turn
    <2>2. CASE path_kind \in Terminal
        BY <2>1, <2>2 DEF TurnInv
    <2>3. CASE path_kind \notin Terminal
        <3>1. FacetsInv /\ LicenceInv /\ BlockInv /\ AbstentionInv
            BY <2>3 DEF TurnInv
        <3>2. FacetsInv' /\ _failed_channels' = _failed_channels
            BY <2>1, <3>1, SameSession DEF FacetsInv, Accounted, expected_channel_state, _failed_channels
        <3>3. LicenceInv'
            BY <2>1, <3>1, SameSession DEF LicenceInv, Shown, complete_joins
        <3>4. BlockInv'
            BY <2>1, <3>1, SameBlock DEF BlockInv
        <3>5. AbstentionInv'
            BY <2>1, <3>1, <3>2 DEF AbstentionInv
        <3>. QED BY <2>1, <3>2, <3>3, <3>4, <3>5 DEF TurnInv
    <2>. QED BY <2>2, <2>3
<1>2. CASE Next
    BY <1>2, FacetsKeepTurn, DoneKeepsTurn, RouteKeepsTurn, ResolveKeepsTurn, ConnectKeepsTurn,
       AssembleKeepsTurn, AbstainKeepsTurn DEF Next
<1>. QED BY <1>1, <1>2

\* How a turn's retrieval stands at every stage (serve/nodes/route_retrieve.py,
\* assemble.py, abstain.py): the licence is of the tables among what it found
\* and pulled in, the block is of these, and the verdict is of both.
THEOREM RetrievalIsInOrder == Spec => [](Given /\ TurnInv)
<1>1. Init => Given /\ TurnInv
    BY GivenFirst, TurnFirst
<1>2. (Given /\ TurnInv) /\ [Next]_vars => (Given /\ TurnInv)'
    BY GivenKept, TurnKept
<1>. QED BY <1>1, <1>2, PTL DEF Spec

-----------------------------------------------------------------------------
(* What the grant of the asker says, and what it withholds.                *)

\* A grant authorizes exactly the tables, denies exactly the columns and
\* refuses exactly the rows that the file, role by role, says.
LEMMA GrantSays ==
    ASSUME AskerOK
    PROVE  /\ \A t \in OfType(Corpus, "table") :
                /\ authorizes_table(grant, Folded(table_qualifier(t))) <=> t \notin denied
                /\ refuses_for_row_predicate(grant, Folded(table_qualifier(t)))
                     <=> t \in RowsNotForThem(asker.policy, asker.roles)
           /\ \A c \in OfType(Corpus, "column") :
                denies_column(grant, Folded(column_qualifier(c))) <=> c \in denied
<1>. DEFINE rows == RowsNotForThem(asker.policy, asker.roles)
<1>1. grant = resolve_access_grant(asker.policy, asker.roles)
    BY DEF AskerOK
<1>2. OfType(Corpus, "table") \cap OfType(Corpus, "column") = {}
    BY DEF OfType
<1>3. CASE asker.policy = NoPolicy
    <2>1. grant = resolve_grant(OPEN_GRANT)
        BY <1>1, <1>3 DEF resolve_access_grant
    <2>2. /\ OPEN_GRANT.reach = "every_table" /\ OPEN_GRANT.tables = {}
          /\ OPEN_GRANT.denied_columns = {} /\ OPEN_GRANT.row_predicates = {}
        BY DEF OPEN_GRANT, NoGrant
    <2>3. every_table(grant) /\ grant.denied_columns = {} /\ grant.refusing_tables = {}
        BY <2>1, <2>2 DEF resolve_grant, every_table, Refusing
    <2>4. denied = {} /\ rows = {}
        BY <1>3 DEF denied, NotForThem, RowsNotForThem
    <2>. QED BY <2>3, <2>4 DEF authorizes_table, denies_column, refuses_for_row_predicate
<1>4. CASE asker.policy # NoPolicy
    <2>. DEFINE held == Known(asker.policy, asker.roles)
                given == grant_for(asker.policy, asker.roles)
    <2>1. grant = resolve_grant(given)
        BY <1>1, <1>4 DEF resolve_access_grant
    <2>2. /\ (given.reach = "every_table") <=> \E g \in held : every_table(g)
          /\ (~\E g \in held : every_table(g)) => given.tables = UNION {g.tables : g \in held}
          /\ given.denied_columns = UNION {g.denied_columns : g \in held}
          /\ given.row_predicates = UNION {g.row_predicates : g \in held}
        <3>1. CASE held = {}
            <4>1. given = NoGrant
                BY <3>1 DEF grant_for
            <4>. QED BY <3>1, <4>1 DEF NoGrant
        <3>2. CASE held # {}
            <4>1. given = [reach |-> IF \E g \in held : every_table(g) THEN "every_table" ELSE "listed",
                           tables |-> IF \E g \in held : every_table(g) THEN {}
                                      ELSE UNION {g.tables : g \in held},
                           denied_columns |-> UNION {g.denied_columns : g \in held},
                           row_predicates |-> UNION {g.row_predicates : g \in held}]
                BY <3>2 DEF grant_for
            <4>. HIDE DEF held, given
            <4>. QED BY <4>1
        <3>. QED BY <3>1, <3>2
    <2>. HIDE DEF held, given
    <2>3. /\ every_table(grant) <=> \E g \in held : every_table(g)
          /\ grant.tables = {Folded(key) : key \in given.tables}
          /\ grant.denied_columns = {Folded(key) : key \in given.denied_columns}
          /\ grant.refusing_tables = {Folded(p.table) : p \in Refusing(given.row_predicates)}
        BY <2>1, <2>2 DEF resolve_grant, every_table
    <2>4. denied = {t \in OfType(Corpus, "table") :
                      ~\E role \in held : \/ every_table(role)
                                          \/ \E key \in role.tables : Spells(key, table_qualifier(t))}
                   \cup {c \in OfType(Corpus, "column") :
                      \E role \in held : \E key \in role.denied_columns : Spells(key, column_qualifier(c))}
        BY <1>4 DEF denied, NotForThem, held
    <2>5. rows = {t \in OfType(Corpus, "table") :
                    \E role \in held : \E p \in Refusing(role.row_predicates) :
                      Spells(p.table, table_qualifier(t))}
        BY <1>4 DEF RowsNotForThem, held
    <2>6. ASSUME NEW t \in OfType(Corpus, "table")
          PROVE  authorizes_table(grant, Folded(table_qualifier(t))) <=> t \notin denied
        <3>. DEFINE name == Folded(table_qualifier(t))
        <3>1. t \in denied <=> ~\E role \in held : \/ every_table(role)
                                                   \/ \E key \in role.tables : Folded(key) = name
            BY <1>2, <2>4 DEF Spells
        <3>. HIDE DEF name
        <3>2. CASE \E g \in held : every_table(g)
            BY <2>3, <3>1, <3>2 DEF authorizes_table, name
        <3>3. CASE ~\E g \in held : every_table(g)
            <4>1. authorizes_table(grant, name) <=> \E key \in given.tables : name = Folded(key)
                BY <2>3, <3>3 DEF authorizes_table
            <4>2. (\E key \in given.tables : name = Folded(key))
                    <=> \E role \in held : \E key \in role.tables : Folded(key) = name
                BY <2>2, <3>3
            <4>. QED BY <3>1, <3>3, <4>1, <4>2 DEF name
        <3>. QED BY <3>2, <3>3
    <2>7. ASSUME NEW t \in OfType(Corpus, "table")
          PROVE  refuses_for_row_predicate(grant, Folded(table_qualifier(t))) <=> t \in rows
        <3>. DEFINE name == Folded(table_qualifier(t))
        <3>1. t \in rows <=> \E role \in held : \E p \in Refusing(role.row_predicates) : Folded(p.table) = name
            BY <2>5 DEF Spells
        <3>. HIDE DEF name
        <3>2. refuses_for_row_predicate(grant, name)
                <=> \E p \in Refusing(given.row_predicates) : name = Folded(p.table)
            BY <2>3 DEF refuses_for_row_predicate
        <3>3. \A p : p \in Refusing(given.row_predicates)
                <=> \E role \in held : p \in Refusing(role.row_predicates)
            BY <2>2 DEF Refusing
        <3>. QED BY <3>1, <3>2, <3>3 DEF name
    <2>8. ASSUME NEW c \in OfType(Corpus, "column")
          PROVE  denies_column(grant, Folded(column_qualifier(c))) <=> c \in denied
        <3>. DEFINE name == Folded(column_qualifier(c))
        <3>1. c \in denied <=> \E role \in held : \E key \in role.denied_columns : Folded(key) = name
            BY <1>2, <2>4 DEF Spells
        <3>. HIDE DEF name
        <3>2. denies_column(grant, name) <=> \E key \in given.denied_columns : name = Folded(key)
            BY <2>3 DEF denies_column
        <3>3. \A key : key \in given.denied_columns <=> \E role \in held : key \in role.denied_columns
            BY <2>2
        <3>. QED BY <3>1, <3>2, <3>3 DEF name
    <2>. QED BY <2>6, <2>7, <2>8
<1>. QED BY <1>3, <1>4

\* The table an endpoint binds to is one that the endpoint names.
LEMMA EndpointIsNamed ==
    ASSUME Given, NEW a \in Served, NEW n \in DOMAIN Corpus[a].requires,
           NEW t \in Endpoint(a, n, structure.assets), NEW tables, t \in tables
    PROVE  /\ t \in Tables
           /\ Corpus[a].type \in {"column", "join", "metric"}
           /\ NamesOneOf(Corpus[a].requires[n], tables)
<1>. DEFINE assets == structure.assets
            s == Corpus[a].requires[n]
            scope == Corpus[a].schema
<1>1. ServedOf(assets) /\ a \in DOMAIN assets /\ a \in Ids
    BY DEF Given, StructureOK, ServedOf, Served
<1>2. assets[a].requires = Corpus[a].requires /\ assets[a].schema = Corpus[a].schema
    BY <1>1 DEF ServedOf
<1>3. t \in table_lookup(assets, s)
    <2>1. Endpoint(a, n, assets) = bind_endpoint(s, assets, scope)
        BY <1>2 DEF Endpoint
    <2>2. scope # NoSchema => table_lookup(assets, <<scope, s[Len(s)]>>) \subseteq table_lookup(assets, s)
        BY <1>1, ScopedIsNamed
    <2>3. bind_endpoint(s, assets, scope) \subseteq
            table_lookup(assets, s) \cup (IF scope = NoSchema THEN {}
                                          ELSE table_lookup(assets, <<scope, s[Len(s)]>>))
        BY DEF bind_endpoint
    <2>. HIDE DEF s, scope, assets
    <2>. QED BY <2>1, <2>2, <2>3 DEF assets
<1>4. /\ t \in Tables
      /\ s \in {<<assets[t].schema, assets[t].name>>, <<assets[t].name>>}
    BY <1>3 DEF table_lookup, Tables
<1>5. t \in DOMAIN assets /\ assets[t].schema = Corpus[t].schema /\ assets[t].name = Corpus[t].name
    BY <1>1, <1>4 DEF ServedOf, Tables, OfType
<1>6. IF Len(s) = 2 THEN s = table_qualifier(t) ELSE s = <<Corpus[t].name>>
    <2>. HIDE DEF s
    <2>. QED BY <1>4, <1>5 DEF table_qualifier
<1>7. NamesOneOf(s, tables)
    BY <1>6 DEF NamesOneOf
<1>8. Corpus[a].type \in {"column", "join", "metric"}
    <2>1. Corpus[a].requires # <<>>
        OBVIOUS
    <2>. QED BY <1>1, <2>1, Classes
<1>. QED BY <1>4, <1>7, <1>8

withheld_now == withheld_by_grant(structure.assets, grant)

\* What the grant withholds of what is served: of the tables exactly those the
\* asker may not see; every column they may not see; what requires a table
\* they may not see; a term bound to anything withheld before it; and nothing
\* when they may see all that is served.
LEMMA WithheldSays ==
    ASSUME Given
    PROVE  /\ withheld_now \subseteq Served
           /\ \A t \in Tables : t \in withheld_now <=> t \in denied
           /\ \A c \in OfType(structure.assets, "column") : c \in denied => c \in withheld_now
           /\ \A a \in Served : Endpoints(a, structure.assets) \cap denied # {} => a \in withheld_now
           /\ \A t \in OfType(structure.assets, "term"), a \in withheld_now :
                a \in structure.assets[t].points
                /\ (a \in OfType(structure.assets, "term") => Place[a] < Place[t])
                  => t \in withheld_now
           /\ denied \cap Served = {} => withheld_now = {}
<1>. DEFINE assets == structure.assets
            tables == {t \in OfType(assets, "table") :
                         ~authorizes_table(grant, Folded(table_qualifier(t)))}
            columns == {c \in OfType(assets, "column") :
                          denies_column(grant, Folded(column_qualifier(c)))}
            spelled(a, n) ==
              IF assets[a].schema = NoSchema \/ Len(assets[a].requires[n]) = 2
              THEN {assets[a].requires[n]}
              ELSE {assets[a].requires[n], <<assets[a].schema, assets[a].requires[n][1]>>}
            naming == {a \in OfType(assets, "column") \cup OfType(assets, "join")
                             \cup OfType(assets, "metric") :
                        \E n \in DOMAIN assets[a].requires :
                          \E s \in spelled(a, n) : NamesOneOf(s, tables)}
            terms == OfType(assets, "term")
            next == [a \in DOMAIN assets |->
                       {t \in terms : a \in assets[t].points /\ (a \in terms => Place[a] < Place[t])}]
            base == tables \cup columns \cup naming
<1>1. withheld_now = Spread(base, next)
    BY DEF withheld_now, withheld_by_grant
<1>2. /\ ServedOf(assets) /\ AskerOK /\ Served = DOMAIN assets /\ Tables = OfType(assets, "table")
      /\ IsFiniteSet(Served)
    BY CorpusAssumption, FS_Subset DEF Given, StructureOK, ServedOf, Served, Tables
<1>3. \A a \in DOMAIN assets : /\ a \in Ids /\ assets[a].type = Corpus[a].type
                               /\ assets[a].requires = Corpus[a].requires
    BY <1>2 DEF ServedOf
<1>4. /\ OfType(assets, "table") \subseteq OfType(Corpus, "table")
      /\ OfType(assets, "column") \subseteq OfType(Corpus, "column")
      /\ \A type : OfType(assets, type) \subseteq Served
    BY <1>2, <1>3 DEF OfType, Ids
<1>5. tables = Tables \cap denied
    BY <1>2, <1>4, GrantSays
<1>6. columns = OfType(assets, "column") \cap denied
    BY <1>2, <1>4, GrantSays
<1>. HIDE DEF tables, columns
<1>7. next \in [Served -> SUBSET Served] /\ terms \subseteq Served
    BY <1>2, <1>4
<1>8. \A a \in Served : next[a] = {t \in terms : a \in assets[t].points /\ (a \in terms => Place[a] < Place[t])}
    BY <1>2
<1>9. naming \subseteq Served /\ naming \cap Tables = {} /\ base \in SUBSET Served
    <2>1. naming \subseteq Served /\ naming \cap Tables = {}
        BY <1>2, <1>4 DEF OfType
    <2>2. tables \subseteq Served /\ columns \subseteq Served
        BY <1>2, <1>4, <1>5, <1>6
    <2>. QED BY <2>1, <2>2
<1>10. ASSUME NEW a \in Served, NEW t \in Endpoints(a, assets) \cap denied PROVE a \in naming
    <2>1. PICK n \in DOMAIN assets[a].requires : t \in Endpoint(a, n, assets)
        BY <1>10 DEF Endpoints
    <2>2. n \in DOMAIN Corpus[a].requires /\ assets[a].requires = Corpus[a].requires
        BY <1>2, <1>3, <2>1
    <2>3. t \in Tables
        <3>1. PICK any : t \in any
            BY <1>10
        <3>. QED BY <2>1, <2>2, <3>1, EndpointIsNamed
    <2>4. t \in tables
        BY <1>5, <1>10, <2>3
    <2>5. Corpus[a].type \in {"column", "join", "metric"} /\ NamesOneOf(Corpus[a].requires[n], tables)
        BY <2>1, <2>2, <2>4, EndpointIsNamed
    <2>6. a \in OfType(assets, "column") \cup OfType(assets, "join") \cup OfType(assets, "metric")
        BY <1>2, <1>3, <2>5 DEF OfType
    <2>7. assets[a].requires[n] \in spelled(a, n)
        OBVIOUS
    <2>. HIDE DEF spelled
    <2>. QED BY <2>1, <2>2, <2>5, <2>6, <2>7
<1>11. tables = {} => naming = {}
    BY DEF NamesOneOf
<1>. HIDE DEF naming, next
<1>12. /\ Spread(base, next) \in SUBSET Served /\ base \subseteq Spread(base, next)
       /\ \A a \in Spread(base, next) : next[a] \subseteq Spread(base, next)
       /\ \A D : base \subseteq D /\ (\A a \in Served \cap D : next[a] \subseteq D)
                   => Spread(base, next) \subseteq D
    <2>. HIDE DEF base
    <2>. QED BY <1>2, <1>7, <1>9, SpreadIsLeast
<1>13. ASSUME NEW t \in Tables PROVE t \in Spread(base, next) <=> t \in denied
    <2>1. base \subseteq base \cup terms /\ \A a \in Served : next[a] \subseteq base \cup terms
        BY <1>8
    <2>2. Spread(base, next) \subseteq base \cup terms
        <3>. DEFINE D == base \cup terms
        <3>. HIDE DEF D
        <3>. QED BY <1>12, <2>1 DEF D
    <2>3. t \notin columns /\ t \notin terms /\ t \notin naming
        BY <1>2, <1>6, <1>9 DEF OfType
    <2>4. t \in tables <=> t \in denied
        BY <1>5
    <2>. QED BY <1>12, <2>2, <2>3, <2>4
<1>14. ASSUME denied \cap Served = {} PROVE Spread(base, next) = {}
    <2>1. tables = {} /\ columns = {}
        BY <1>2, <1>4, <1>5, <1>6, <1>14
    <2>2. base = {}
        BY <1>11, <2>1
    <2>3. Spread(base, next) \subseteq {}
        BY <1>12, <2>2
    <2>. QED BY <2>3
<1>15. ASSUME NEW t \in terms, NEW a \in Spread(base, next), a \in assets[t].points,
              a \in terms => Place[a] < Place[t]
       PROVE  t \in Spread(base, next)
    <2>1. a \in Served /\ t \in next[a]
        BY <1>8, <1>12, <1>15
    <2>. QED BY <1>12, <2>1
<1>16. ASSUME NEW a \in Served, Endpoints(a, assets) \cap denied # {} PROVE a \in Spread(base, next)
    BY <1>10, <1>12, <1>16
<1>17. \A c \in OfType(assets, "column") : c \in denied => c \in Spread(base, next)
    BY <1>6, <1>12
<1>. QED BY <1>1, <1>12, <1>13, <1>14, <1>15, <1>16, <1>17

-----------------------------------------------------------------------------
(* What a turn that goes on to the agent has in its prompt.                *)

\* The lines of the block are what may be rendered less the evicted tables
\* and columns under them; its caveats and rules lose nothing to the eviction.
LEMMA BlockSays ==
    ASSUME Given, TurnInv, Delivered
    PROVE  /\ block.evicted \subseteq Renderable \ found /\ block.evicted \subseteq Tables
           /\ block.lines \subseteq Renderable
           /\ Tabled(block.lines) = Tabled(Renderable) \ block.evicted
           /\ \A a \in Renderable : TypeOf(a) \notin {"table", "column"} => a \in block.lines
           /\ block.caveats = Renderable \cap Suspect
           /\ block.rules \subseteq Renderable /\ Tabled(Renderable) \cap HasRules \subseteq block.rules
<1>1. BlockInv
    BY DEF TurnInv, Delivered
<1>2. PICK gone \in SUBSET Evictable(Renderable) : block = render_context(Renderable, gone)
    BY <1>1 DEF BlockInv, Delivered
<1>3. /\ block.lines = Drop(Renderable, gone) /\ block.evicted = gone
      /\ block.caveats = _collect_caveats(Renderable) /\ block.rules = _collect_rules(Renderable)
    BY <1>2 DEF render_context
<1>4. Renderable \subseteq Served
    BY DEF Given, Renderable, SchemaAssets, TurnInv, Delivered, LicenceInv, Shown
<1>5. gone \subseteq Renderable \ found /\ \A a \in gone : TypeOf(a) = "table"
    BY DEF Evictable
<1>6. \A a : a \in Tables <=> a \in Served /\ TypeOf(a) = "table"
    BY DEF Tables, OfType, Served, TypeOf
<1>7. gone \subseteq Tables
    BY <1>4, <1>5, <1>6
<1>8. \A t, a : a \in Under(t, Renderable) => TypeOf(a) = "column"
    BY DEF Under, _fold_pulled_in_columns
<1>9. \A a : a \in Drop(Renderable, gone) => a \in Renderable /\ a \notin gone
    BY DEF Drop
<1>10. \A a \in Renderable \ gone : TypeOf(a) # "column" => a \in Drop(Renderable, gone)
    BY <1>8 DEF Drop
<1>11. Tabled(block.lines) = Tabled(Renderable) \ block.evicted
    BY <1>3, <1>6, <1>9, <1>10 DEF Tabled
<1>12. \A a \in Renderable : TypeOf(a) \notin {"table", "column"} => a \in block.lines
    BY <1>3, <1>5, <1>10
<1>13. Tabled(Renderable) \cap HasRules \subseteq _collect_rules(Renderable)
    BY <1>6 DEF Tabled, _collect_rules
<1>14. block.caveats = Renderable \cap Suspect /\ block.rules \subseteq Renderable
    BY <1>3 DEF _collect_caveats, _collect_rules
<1>. QED BY <1>3, <1>5, <1>7, <1>9, <1>11, <1>12, <1>13, <1>14

\* The prompt carries a join path for the tables it offers (serve/nodes/
\* route_retrieve.py connect, retrieve/connect.py): what the whole join graph
\* connects of the licence is connected inside it, by joins that were
\* completed into the prompt and that no eviction drops.
THEOREM OffersCanBeJoined == Spec => []OfferedTablesCanBeJoined
<1>1. ASSUME Given, TurnInv, Delivered, denied = {} PROVE
        LET Spelled == {structure.joins[j] : j \in block.lines \cap DOMAIN structure.joins}
        IN  \A t \in licensed :
              Reach({t}, Tables, structure.edges) \cap licensed \subseteq Reach({t}, licensed, Spelled)
    <2>. DEFINE Spelled == {structure.joins[j] : j \in block.lines \cap DOMAIN structure.joins}
    <2>1. LicenceInv /\ stage = "agent"
        BY <1>1 DEF TurnInv, Delivered
    <2>2. /\ Shown \subseteq Served /\ licensed = Tabled(Shown)
          /\ complete_joins(licensed, structure) \subseteq Shown
          /\ KeepsJoined(licensed, Tables, structure.edges)
        BY <2>1 DEF LicenceInv
    <2>3. licensed \subseteq Tables /\ IsFiniteSet(licensed)
        <3>1. Tables \subseteq Ids
            BY <1>1 DEF Given, StructureOK, ServedOf, Tables, OfType
        <3>2. licensed \subseteq Tables
            BY <2>2 DEF Tabled
        <3>. QED BY <3>1, <3>2, CorpusAssumption, FS_Subset
    <2>4. withheld_now = {}
        BY <1>1, WithheldSays
    <2>5. Shown \subseteq Renderable
        BY <2>4 DEF Renderable, Shown, withheld_now
    <2>6. /\ DOMAIN structure.joins \subseteq OfType(structure.assets, "join")
          /\ structure.edges = {e \in {structure.joins[j] : j \in DOMAIN structure.joins} : Cardinality(e) = 2}
        BY <1>1, BuiltOf DEF Given, StructureOK
    <2>7. ASSUME NEW s \in licensed, NEW u \in licensed, {s, u} \in structure.edges
          PROVE  {s, u} \in Spelled
        <3>1. PICK j \in DOMAIN structure.joins : {s, u} = structure.joins[j]
            BY <2>6, <2>7
        <3>2. j \in complete_joins(licensed, structure)
            BY <2>7, <3>1 DEF complete_joins
        <3>3. j \in Renderable /\ TypeOf(j) = "join"
            BY <2>2, <2>5, <2>6, <3>2 DEF OfType, TypeOf
        <3>4. j \in block.lines
            BY <1>1, <3>3, BlockSays
        <3>. QED BY <3>1, <3>4
    <2>. HIDE DEF Spelled
    <2>8. ASSUME NEW t \in licensed
          PROVE  Reach({t}, Tables, structure.edges) \cap licensed \subseteq Reach({t}, licensed, Spelled)
        <3>1. Reach({t}, Tables, structure.edges) \cap licensed \subseteq Reach({t}, licensed, structure.edges)
            BY <2>2 DEF KeepsJoined
        <3>2. t \in Reach({t}, licensed, Spelled)
            BY <2>3, ReachFromOne
        <3>3. Reach({t}, licensed, structure.edges) \subseteq Reach({t}, licensed, Spelled)
            BY <2>3, <2>7, <3>2, ReachWidens
        <3>. QED BY <3>1, <3>3
    <2>. QED BY <2>8 DEF Spelled
<1>2. Given /\ TurnInv => OfferedTablesCanBeJoined
    BY <1>1 DEF OfferedTablesCanBeJoined
<1>. QED BY <1>2, RetrievalIsInOrder, PTL

\* A served column's parent is the one table its endpoint binds to, and it is
\* withheld with the parent.
LEMMA ParentOf ==
    ASSUME Given, NEW c \in OfType(structure.assets, "column")
    PROVE  /\ c \in Served /\ c \in OfType(Corpus, "column")
           /\ Parent(c) \in Tables /\ Parent(c) \in OfType(Corpus, "table")
           /\ Endpoints(c, structure.assets) = {Parent(c)}
<1>1. /\ ServedOf(structure.assets) /\ c \in DOMAIN structure.assets
      /\ structure.assets[c].type = "column"
    BY DEF Given, StructureOK, OfType
<1>2. /\ c \in Ids /\ Corpus[c].type = "column" /\ structure.assets[c].requires = Corpus[c].requires
    BY <1>1 DEF ServedOf
<1>3. Len(Corpus[c].requires) = 1 /\ Corpus[c].requires \in Seq(Spelling)
    BY <1>2, Classes
<1>4. DOMAIN structure.assets[c].requires = {1}
    <2>1. DOMAIN Corpus[c].requires = 1 .. 1
        BY <1>3
    <2>. QED BY <1>2, <2>1
<1>5. PICK t \in OfType(structure.assets, "table") : Endpoint(c, 1, structure.assets) = {t}
    BY <1>1, <1>4 DEF ServedOf
<1>6. Endpoint(c, 1, structure.assets) = Endpoint(c, 1, Corpus)
    BY <1>1, <1>4 DEF ServedOf
<1>7. Parent(c) = t
    BY <1>5, <1>6 DEF Parent
<1>8. Endpoints(c, structure.assets) = {t}
    BY <1>4, <1>5 DEF Endpoints
<1>9. t \in OfType(Corpus, "table")
    BY <1>1, <1>5 DEF ServedOf, OfType, Ids
<1>. QED BY <1>1, <1>2, <1>5, <1>7, <1>8, <1>9 DEF Tables, Served, OfType, Ids

\* What the tables of the block are, and the tools' bounds.
LEMMA OfferIs ==
    ASSUME Given, TurnInv, Delivered
    PROVE  /\ Tabled(Renderable) = licensed \ denied /\ licensed \subseteq Tables
           /\ block.lines \subseteq Served \ withheld_now /\ Renderable \subseteq Served \ withheld_now
           /\ tool_bounds_from_state.licensed = licensed /\ tool_bounds_from_state.grant = grant
           /\ tool_bounds_from_state.withheld = withheld_now
           /\ tool_bounds_from_state.readable_assets = Shown \ withheld_now
           /\ Shown \subseteq Served
<1>1. LicenceInv
    BY DEF TurnInv, Delivered
<1>2. Shown \subseteq Served /\ licensed = Tabled(Shown)
    BY <1>1 DEF LicenceInv
<1>3. \A a \in SchemaAssets : a \in Served /\ a \notin Tables
    BY DEF SchemaAssets, TypeOf, Tables, OfType
<1>4. Renderable = (SchemaAssets \cup Shown) \ withheld_now
    BY DEF Renderable, Shown, withheld_now
<1>5. \A t \in Tables : t \in withheld_now <=> t \in denied
    BY WithheldSays
<1>6. Tabled(Renderable) = licensed \ denied /\ licensed \subseteq Tables
    BY <1>2, <1>3, <1>4, <1>5 DEF Tabled
<1>7. Renderable \subseteq Served \ withheld_now
    BY <1>2, <1>3, <1>4
<1>8. block.lines \subseteq Served \ withheld_now
    BY <1>7, BlockSays
<1>9. /\ tool_bounds_from_state.licensed = licensed /\ tool_bounds_from_state.grant = grant
      /\ tool_bounds_from_state.withheld = withheld_now
      /\ tool_bounds_from_state.readable_assets = Shown \ withheld_now
    BY DEF tool_bounds_from_state, withheld_now, Shown
<1>. QED BY <1>2, <1>6, <1>7, <1>8, <1>9

\* What the prompt offers is what the turn may use (serve/context.py,
\* govern/bounds.py, serve/fetch.py): the offered tables are the licensed ones
\* less the denied and the evicted, a turn let through lost none and failed on
\* no channel, rules and caveats outlive an eviction, and the tools answer for
\* what is offered, and for a suspect column exactly when it is not blocked.
THEOREM OfferIsUsable == Spec => []PromptAndLicenceAgree
<1>1. ASSUME Given, TurnInv, Delivered PROVE PromptAndLicenceAgree
    <2>. DEFINE bounds == tool_bounds_from_state
                rows == RowsNotForThem(asker.policy, asker.roles)
    <2>1. /\ Tabled(Renderable) = licensed \ denied /\ licensed \subseteq Tables
          /\ block.lines \subseteq Served \ withheld_now
          /\ bounds.licensed = licensed /\ bounds.grant = grant /\ bounds.withheld = withheld_now
        BY <1>1, OfferIs
    <2>. HIDE DEF bounds, rows
    <2>2. /\ block.evicted \subseteq Renderable /\ block.evicted \subseteq Tables
          /\ block.lines \subseteq Renderable
          /\ Tabled(block.lines) = Tabled(Renderable) \ block.evicted
          /\ block.caveats = Renderable \cap Suspect
          /\ Tabled(Renderable) \cap HasRules \subseteq block.rules
        BY <1>1, BlockSays
    <2>3. block.evicted \subseteq licensed \ denied
        BY <2>1, <2>2 DEF Tabled
    <2>4. Tabled(block.lines) \subseteq licensed
          /\ licensed \ (Tabled(block.lines) \cup denied) = block.evicted
        BY <2>1, <2>2, <2>3
    <2>5. block.lines \cap Suspect \subseteq block.caveats
          /\ Tabled(block.lines) \cap HasRules \subseteq block.rules
        BY <2>2
    <2>6. ASSUME abstention = "answer"
          PROVE  /\ licensed # {} /\ block.evicted = {}
                 /\ \A f \in Facets : \A ch \in Channel :
                      expected_channel_state(f, ch) = "ran" =>
                        facets[f].channels[ch] = "ran" \/ (ch = "semantic" /\ ~embedder)
        <3>1. AbstentionInv /\ FacetsInv /\ stage = "agent"
            BY <1>1 DEF TurnInv, Delivered
        <3>2. licensed # {} /\ block.evicted = {} /\ _failed_channels = {}
            BY <2>6, <3>1 DEF AbstentionInv
        <3>3. ASSUME NEW f \in Facets, NEW ch \in Channel, expected_channel_state(f, ch) = "ran"
              PROVE  facets[f].channels[ch] = "ran" \/ (ch = "semantic" /\ ~embedder)
            <4>1. Accounted(f)
                BY <3>1 DEF FacetsInv
            <4>2. ch \in DOMAIN facets[f].channels
                  /\ (facets[f].channels[ch] \in {"ran", "failed"} \/ (ch = "semantic" /\ ~embedder))
                BY <3>3, <4>1 DEF Accounted
            <4>3. facets[f].channels[ch] # "failed"
                <5>. SUFFICES ASSUME facets[f].channels[ch] = "failed" PROVE FALSE
                    OBVIOUS
                <5>1. <<f, ch>> \in _failed_channels
                    BY <4>2 DEF _failed_channels
                <5>. QED BY <3>2, <5>1
            <4>. QED BY <4>2, <4>3
        <3>. QED BY <3>2, <3>3
    <2>7. ASSUME NEW t \in Tabled(block.lines) PROVE t \in inspect_schema(bounds, t, structure.assets)
        <3>1. t \in Tables /\ t \in licensed /\ t \notin denied /\ t \notin withheld_now
            BY <2>1, <2>2, <2>4 DEF Tabled
        <3>2. t \in OfType(structure.assets, "table") /\ t \in OfType(Corpus, "table")
            BY <1>1, <3>1 DEF Given, StructureOK, ServedOf, Tables, OfType, Ids
        <3>3. authorizes_table(grant, Folded(table_qualifier(t)))
            BY <1>1, <3>1, <3>2, GrantSays DEF Given
        <3>4. may_inspect_schema(bounds, t)
            BY <2>1, <3>1, <3>3 DEF may_inspect_schema, discloses
        <3>. QED BY <3>2, <3>4 DEF inspect_schema
    <2>8. ASSUME NEW c \in by_type(block.lines, "column"), Parent(c) \in licensed \ rows
          PROVE  LET served == ~(hard_block_suspect /\ c \in Suspect)
                 IN  run_query(bounds, c) = served /\ sample_rows(bounds, c) = served
        <3>1. c \in OfType(structure.assets, "column") /\ c \in Served /\ c \notin withheld_now
            BY <2>1 DEF by_type, TypeOf, OfType, Served
        <3>2. /\ c \in OfType(Corpus, "column") /\ Parent(c) \in Tables
              /\ Parent(c) \in OfType(Corpus, "table") /\ Endpoints(c, structure.assets) = {Parent(c)}
            BY <1>1, <3>1, ParentOf
        <3>3. c \notin denied /\ Parent(c) \notin denied /\ Parent(c) \notin withheld_now
            <4>1. c \notin denied
                BY <1>1, <3>1, WithheldSays
            <4>2. Endpoints(c, structure.assets) \cap denied = {}
                BY <1>1, <3>1, WithheldSays
            <4>3. Parent(c) \notin denied
                BY <3>2, <4>2
            <4>. QED BY <1>1, <3>2, <4>1, <4>3, WithheldSays
        <3>4. /\ authorizes_table(grant, Folded(table_qualifier(Parent(c))))
              /\ ~refuses_for_row_predicate(grant, Folded(table_qualifier(Parent(c))))
              /\ ~denies_column(grant, Folded(column_qualifier(c)))
            BY <1>1, <2>8, <3>2, <3>3, GrantSays DEF Given, rows
        <3>5. may_sample(bounds, c)
            BY <2>1, <2>8, <3>1, <3>3, <3>4 DEF may_sample, discloses
        <3>6. _tables(bounds, Parent(c)) = "passed"
            BY <2>1, <2>8, <3>4 DEF _tables
        <3>7. CASE hard_block_suspect /\ c \in Suspect
            <4>1. _columns(bounds, c) = "r_column_suspect"
                BY <3>7 DEF _columns
            <4>2. check(bounds, c) # "passed"
                BY <4>1 DEF check
            <4>. QED BY <3>7, <4>2 DEF run_query, sample_rows
        <3>8. CASE ~(hard_block_suspect /\ c \in Suspect)
            <4>1. _columns(bounds, c) = "passed"
                BY <2>1, <3>4, <3>8 DEF _columns
            <4>. QED BY <3>5, <3>6, <3>8, <4>1 DEF run_query, sample_rows, check
        <3>. QED BY <3>7, <3>8
    <2>. QED BY <2>4, <2>5, <2>6, <2>7, <2>8 DEF PromptAndLicenceAgree, bounds, rows
<1>2. Given /\ TurnInv => PromptAndLicenceAgree
    BY <1>1 DEF PromptAndLicenceAgree
<1>. QED BY <1>2, RetrievalIsInOrder, PTL

\* What may not be named is withheld; a column of it is denied to the asker,
\* or its table is.
LEMMA HiddenIsWithheld ==
    ASSUME Given
    PROVE  /\ NotToBeNamed \subseteq withheld_now
           /\ \A c \in OfType(structure.assets, "column") \cap NotToBeNamed :
                c \in denied \/ Parent(c) \in denied
<1>. DEFINE assets == structure.assets
            hidden == IF denied = {} THEN {}
                      ELSE {a \in Served : a \in denied \/ Endpoints(a, assets) \cap denied # {}}
            next == [a \in Served |->
                       {t \in OfType(assets, "term") :
                          a \in assets[t].points /\ (a \in OfType(assets, "term") => Place[a] < Place[t])}]
<1>1. NotToBeNamed = Spread(hidden, next)
    BY DEF NotToBeNamed
<1>2. /\ Served = DOMAIN assets /\ Served \subseteq Ids /\ IsFiniteSet(Served)
      /\ \A a \in Served : assets[a].type = Corpus[a].type /\ assets[a].points \subseteq Corpus[a].points
    BY CorpusAssumption, FS_Subset DEF Given, StructureOK, ServedOf, Served
<1>3. /\ OfType(assets, "term") \subseteq OfType(Corpus, "term") /\ OfType(assets, "term") \subseteq Served
      /\ \A a \in Served : a \in OfType(Corpus, "term") <=> a \in OfType(assets, "term")
    BY <1>2 DEF OfType, Ids
<1>4. hidden \in SUBSET Served /\ next \in [Served -> SUBSET Served]
    BY <1>3
<1>5. \A a \in Served : next[a] = {t \in OfType(assets, "term") :
                               a \in assets[t].points /\ (a \in OfType(assets, "term") => Place[a] < Place[t])}
    OBVIOUS
<1>6. \A a \in hidden : a \in Served /\ (a \in denied \/ Endpoints(a, assets) \cap denied # {})
    OBVIOUS
<1>. HIDE DEF hidden, next
<1>7. \A D : hidden \subseteq D /\ (\A a \in Served \cap D : next[a] \subseteq D)
               => NotToBeNamed \subseteq D
    BY <1>1, <1>2, <1>4, SpreadIsLeast
<1>8. ASSUME NEW a \in hidden PROVE a \in withheld_now
    <2>1. CASE Endpoints(a, assets) \cap denied # {}
        BY <1>6, <2>1, WithheldSays
    <2>2. CASE a \in denied
        <3>1. a \in OfType(Corpus, "table") \cup OfType(Corpus, "column")
            BY <2>2 DEF denied, NotForThem
        <3>2. a \in Tables \cup OfType(assets, "column")
            BY <1>2, <1>6, <3>1 DEF OfType, Tables
        <3>. QED BY <2>2, <3>2, WithheldSays
    <2>. QED BY <1>6, <2>1, <2>2
<1>9. ASSUME NEW a \in Served \cap withheld_now PROVE next[a] \subseteq withheld_now
    <2>. SUFFICES ASSUME NEW t \in OfType(assets, "term"), a \in assets[t].points,
                         a \in OfType(assets, "term") => Place[a] < Place[t]
                  PROVE  t \in withheld_now
        BY <1>5
    <2>. QED BY WithheldSays
<1>10. NotToBeNamed \subseteq withheld_now
    BY <1>7, <1>8, <1>9
<1>11. NotToBeNamed \subseteq hidden \cup OfType(assets, "term")
    <2>. DEFINE D == hidden \cup OfType(assets, "term")
    <2>1. hidden \subseteq D /\ \A a \in Served \cap D : next[a] \subseteq D
        BY <1>5
    <2>. HIDE DEF D
    <2>2. NotToBeNamed \subseteq D
        BY <1>7, <2>1
    <2>. QED BY <2>2 DEF D
<1>12. ASSUME NEW c \in OfType(assets, "column") \cap NotToBeNamed PROVE c \in denied \/ Parent(c) \in denied
    <2>1. c \notin OfType(assets, "term")
        BY DEF OfType
    <2>2. c \in denied \/ Endpoints(c, assets) \cap denied # {}
        BY <1>6, <1>11, <2>1
    <2>3. Endpoints(c, assets) = {Parent(c)}
        BY ParentOf
    <2>. QED BY <2>2, <2>3
<1>. QED BY <1>10, <1>12

\* A term that is not withheld leads to nothing withheld but a term that was
\* loaded after it.
LEMMA LeadsOnlyAhead ==
    ASSUME Given, NEW t \in Served, t \notin withheld_now, TypeOf(t) = "term",
           NEW u \in structure.assets[t].points, u \in withheld_now
    PROVE  TypeOf(u) = "term" /\ Place[t] <= Place[u]
<1>1. u \in Served /\ t \in OfType(structure.assets, "term")
    BY WithheldSays DEF OfType, TypeOf, Served
<1>2. u \in OfType(structure.assets, "term") /\ ~(Place[u] < Place[t])
    BY <1>1, WithheldSays
<1>3. Place[t] \in Nat /\ Place[u] \in Nat
    BY <1>1, CorpusAssumption DEF Given, StructureOK, ServedOf, Served
<1>. QED BY <1>2, <1>3 DEF OfType, TypeOf

\* Nothing a turn's prompt or its tools tell is withheld, and a statement or a
\* sample is let through only for a column and a table the asker may see.
LEMMA TurnTells ==
    ASSUME Given, TurnInv
    PROVE  TurnNamesNothingWithheld
<1>. SUFFICES ASSUME Delivered PROVE TurnNamesNothingWithheld
    BY DEF TurnNamesNothingWithheld
<1>. DEFINE bounds == tool_bounds_from_state
            rows == RowsNotForThem(asker.policy, asker.roles)
            bodies == UNION {read_body(bounds, a) : a \in Served}
            schemes == UNION {inspect_schema(bounds, t, structure.assets) : t \in Tables}
<1>1. /\ block.lines \subseteq Served \ withheld_now /\ Renderable \subseteq Served \ withheld_now
      /\ bounds.licensed = licensed /\ bounds.grant = grant /\ bounds.withheld = withheld_now
      /\ bounds.readable_assets = Shown \ withheld_now
    BY OfferIs
<1>2. block.caveats \subseteq Renderable /\ block.rules \subseteq Renderable
    BY BlockSays
<1>. HIDE DEF bounds, rows
<1>3. bodies \cap withheld_now = {}
    BY <1>1 DEF read_body, may_read_body
<1>4. schemes \cap withheld_now = {}
    <2>1. \A t \in Tables : inspect_schema(bounds, t, structure.assets) \cap withheld_now = {}
        BY <1>1 DEF inspect_schema, may_inspect_schema, discloses
    <2>. QED BY <2>1
<1>. HIDE DEF bodies, schemes
<1>5. (block.lines \cup block.caveats \cup block.rules \cup bodies \cup schemes) \cap NotToBeNamed = {}
    BY <1>1, <1>2, <1>3, <1>4, HiddenIsWithheld
<1>6. ASSUME NEW c \in OfType(structure.assets, "column"), run_query(bounds, c) \/ sample_rows(bounds, c)
      PROVE  c \notin NotToBeNamed /\ Parent(c) \in licensed \ rows
    <2>1. check(bounds, c) = "passed"
        BY <1>6 DEF run_query, sample_rows
    <2>2. _columns(bounds, c) = "passed" /\ _tables(bounds, Parent(c)) = "passed"
        BY <2>1 DEF check
    <2>3. ~denies_column(grant, Folded(column_qualifier(c)))
        BY <1>1, <2>2 DEF _columns
    <2>4. /\ Parent(c) \in licensed
          /\ authorizes_table(grant, Folded(table_qualifier(Parent(c))))
          /\ ~refuses_for_row_predicate(grant, Folded(table_qualifier(Parent(c))))
        BY <1>1, <2>2 DEF _tables
    <2>5. c \in OfType(Corpus, "column") /\ Parent(c) \in OfType(Corpus, "table")
        BY ParentOf
    <2>6. c \notin denied /\ Parent(c) \notin denied /\ Parent(c) \notin rows
        BY <2>3, <2>4, <2>5, GrantSays DEF Given, rows
    <2>. QED BY <2>4, <2>6, HiddenIsWithheld
<1>. DEFINE terms == by_type(block.lines, "term")
<1>7. ASSUME NEW t \in terms, NEW u \in structure.assets[t].points, u \in NotToBeNamed
      PROVE  u \in Overtaken(terms)
    <2>1. t \in Served /\ t \notin withheld_now /\ TypeOf(t) = "term" /\ u \in withheld_now
        BY <1>1, <1>7, HiddenIsWithheld DEF by_type
    <2>2. TypeOf(u) = "term" /\ Place[t] <= Place[u]
        BY <2>1, LeadsOnlyAhead
    <2>. QED BY <2>2 DEF Overtaken
<1>. HIDE DEF terms
<1>8. (UNION {structure.assets[t].points : t \in terms}) \cap NotToBeNamed \subseteq Overtaken(terms)
    BY <1>7
<1>. QED BY <1>5, <1>6, <1>8 DEF TurnNamesNothingWithheld, bounds, rows, bodies, schemes, terms

-----------------------------------------------------------------------------
(* What the browse surface answers.                                        *)

\* A session that shows nothing of gone: no asset of it, no edge that ends in
\* it, no join of it, and no reference to it but a term's to one it overtook.
ShowsNone(v, gone) ==
  /\ Seen(v) \cap gone = {}
  /\ \A a \in Seen(v) : /\ v.assets[a].points \cap gone \subseteq Overtaken(OfType(v.assets, "term"))
                        /\ v.assets[a].fk \cap gone = {}
  /\ \A e \in v.structure.edges : e \cap gone = {}
  /\ DOMAIN v.structure.joins \cap gone = {}

\* The answers over such a session name nothing else of it.
LEMMA RowsNameNone ==
    ASSUME NEW v, NEW gone, ShowsNone(v, gone), NEW type, NEW predicates, NEW field, NEW offset, NEW limit,
           NEW row \in corpus_rows(v, type, predicates, field, offset, limit).rows
    PROVE  row \cap gone \subseteq Overtaken(OfType(v.assets, "term"))
<1>. DEFINE listed == Page(v, apply_where(v, type, predicates).rows, field, offset, limit)
<1>1. PICK a \in listed : row = row_for(v, a)
    BY DEF corpus_rows
<1>2. a \in apply_where(v, type, predicates).rows
    BY DEF Page
<1>3. a \in Seen(v)
    BY <1>2 DEF apply_where, OfType, Seen
<1>. QED BY <1>1, <1>3 DEF row_for, ShowsNone

LEMMA DetailsNameNone ==
    ASSUME NEW v, NEW gone, ShowsNone(v, gone), NEW schema, NEW offset, NEW limit,
           NEW d \in schema_summary(v, schema, offset, limit).items
    PROVE  ({d.id} \cup UNION {{c.id} \cup c.references : c \in d.columns}) \cap gone = {}
<1>. DEFINE tables == {t \in OfType(v.assets, "table") : schema \in {NoSchema, v.assets[t].schema}}
<1>1. PICK t \in Page(v, tables, "id", offset, limit) : d = table_view(v, t)
    BY DEF schema_summary
<1>2. t \in tables
    BY DEF Page
<1>3. t \in Seen(v)
    BY <1>2 DEF OfType, Seen
<1>4. /\ d.id = t
      /\ d.columns = {[id |-> c, references |-> v.assets[c].fk] : c \in v.assets[t].points \cap Seen(v)}
    BY <1>1 DEF table_view
<1>5. ASSUME NEW c \in d.columns PROVE ({c.id} \cup c.references) \cap gone = {}
    <2>1. PICK a \in v.assets[t].points \cap Seen(v) : c = [id |-> a, references |-> v.assets[a].fk]
        BY <1>4
    <2>2. c.id = a /\ c.references = v.assets[a].fk
        BY <2>1
    <2>. QED BY <2>1, <2>2 DEF ShowsNone
<1>6. d.id \notin gone
    BY <1>3, <1>4 DEF ShowsNone
<1>. QED BY <1>5, <1>6

LEMMA GraphsNameNone ==
    ASSUME NEW v, NEW gone, ShowsNone(v, gone), NEW g \in {_graph_payload(v), _knowledge_payload(v)}
    PROVE  (DOMAIN g.nodes \cup UNION {e.ends \cup e.joins : e \in g.edges}) \cap gone = {}
<1>1. CASE g = _graph_payload(v)
    <2>1. DOMAIN g.nodes = OfType(v.assets, "table")
        BY <1>1 DEF _graph_payload, Drawn
    <2>2. ASSUME NEW e \in g.edges PROVE (e.ends \cup e.joins) \cap gone = {}
        <3>1. PICK pair \in v.structure.edges :
                e = [ends |-> pair,
                     joins |-> {j \in DOMAIN v.structure.joins : v.structure.joins[j] = pair},
                     predicate |-> pair \in {v.structure.joins[j] : j \in DOMAIN v.structure.joins}]
            BY <1>1, <2>2 DEF _graph_payload
        <3>2. e.ends = pair /\ e.joins \subseteq DOMAIN v.structure.joins
            BY <3>1
        <3>. QED BY <3>2 DEF ShowsNone
    <2>. QED BY <2>1, <2>2 DEF ShowsNone, OfType, Seen
<1>2. CASE g = _knowledge_payload(v)
    <2>. DEFINE refs == v.structure.references
                joins == OfType(v.assets, "join")
                predicated(e) == \E j \in joins \cap e : (refs[j] \cap e) \ {j} # {}
                ends == (UNION {{{s, t} : s \in _semantic_id(v, a),
                                          t \in UNION {_semantic_id(v, b) : b \in refs[a]}} :
                                  a \in DOMAIN refs}) \ {{s} : s \in Seen(v)}
    <2>1. /\ DOMAIN g.nodes = {a \in Seen(v) : v.assets[a].type \in _SEMANTIC_NODE_KINDS}
          /\ g.edges = {[ends |-> e, joins |-> {}, predicate |-> predicated(e)] : e \in ends}
        BY <1>2 DEF _knowledge_payload, Drawn
    <2>2. \A a : _semantic_id(v, a) \subseteq Seen(v)
        BY DEF _semantic_id, Owner, OfType, Seen
    <2>3. ASSUME NEW e \in ends PROVE e \subseteq Seen(v)
        <3>1. PICK a \in DOMAIN refs :
                e \in {{s, t} : s \in _semantic_id(v, a), t \in UNION {_semantic_id(v, b) : b \in refs[a]}}
            OBVIOUS
        <3>2. PICK s \in _semantic_id(v, a), t \in UNION {_semantic_id(v, b) : b \in refs[a]} : e = {s, t}
            BY <3>1
        <3>. QED BY <2>2, <3>2
    <2>. HIDE DEF ends, predicated
    <2>4. ASSUME NEW e \in g.edges PROVE (e.ends \cup e.joins) \cap gone = {}
        <3>1. PICK pair \in ends :
                e = [ends |-> pair, joins |-> {}, predicate |-> predicated(pair)]
            BY <2>1
        <3>2. e.ends = pair /\ e.joins = {}
            BY <3>1
        <3>. QED BY <2>3, <3>2 DEF ShowsNone
    <2>5. DOMAIN g.nodes \cap gone = {}
        BY <2>1 DEF ShowsNone
    <2>. QED BY <2>4, <2>5
<1>. QED BY <1>1, <1>2

LEMMA RelationsAreSeen ==
    ASSUME NEW v, NEW c
    PROVE  LET r == related_to_column(v, c)
           IN  r.terms \cup r.fk_out \cup r.fk_in \cup r.joins \cup r.metrics \subseteq Seen(v)
<1>. DEFINE r == related_to_column(v, c)
            named == {""} \cup {v.assets[t].name : t \in Owner(v, c)}
<1>1. /\ r.terms = {t \in OfType(v.assets, "term") : c \in v.assets[t].points}
      /\ r.fk_out = v.assets[c].fk \cap OfType(v.assets, "column")
      /\ r.fk_in = {o \in OfType(v.assets, "column") : c \in v.assets[o].fk}
      /\ r.joins = {j \in OfType(v.assets, "join") :
                      \E n \in named : <<n, v.assets[c].name>> \in v.assets[j].on}
      /\ r.metrics = {m \in OfType(v.assets, "metric") : v.assets[m].requires[1] = v.assets[c].requires[1]}
    BY DEF related_to_column
<1>. HIDE DEF r
<1>2. /\ r.terms \subseteq Seen(v) /\ r.fk_out \subseteq Seen(v) /\ r.fk_in \subseteq Seen(v)
      /\ r.joins \subseteq Seen(v) /\ r.metrics \subseteq Seen(v)
    BY <1>1 DEF OfType, Seen
<1>. QED BY <1>2 DEF r

LEMMA NamesNone ==
    ASSUME NEW v, NEW gone, ShowsNone(v, gone)
    PROVE  Named(v) \cap gone \subseteq Overtaken(OfType(v.assets, "term"))
<1>. DEFINE types == {Corpus[a].type : a \in Ids}
            rows == UNION {corpus_rows(v, t, {}, "id", 0, Cardinality(Ids)).rows : t \in types}
            details == schema_summary(v, NoSchema, 0, Cardinality(Ids)).items
            graphs == {_graph_payload(v), _knowledge_payload(v)}
            related == {related_to_column(v, c) : c \in OfType(v.assets, "column")}
            listed == UNION rows
            detailed == UNION {{d.id} \cup UNION {{c.id} \cup c.references : c \in d.columns} : d \in details}
            drawn == UNION {DOMAIN g.nodes \cup UNION {e.ends \cup e.joins : e \in g.edges} : g \in graphs}
            relations == UNION {r.terms \cup r.fk_out \cup r.fk_in \cup r.joins \cup r.metrics : r \in related}
<1>1. Named(v) = listed \cup detailed \cup drawn \cup relations
    BY DEF Named
<1>2. ASSUME NEW row \in rows PROVE row \cap gone \subseteq Overtaken(OfType(v.assets, "term"))
    <2>1. PICK t \in types : row \in corpus_rows(v, t, {}, "id", 0, Cardinality(Ids)).rows
        OBVIOUS
    <2>. QED BY <2>1, RowsNameNone
<1>3. \A d \in details : ({d.id} \cup UNION {{c.id} \cup c.references : c \in d.columns}) \cap gone = {}
    BY DetailsNameNone
<1>4. \A g \in graphs : (DOMAIN g.nodes \cup UNION {e.ends \cup e.joins : e \in g.edges}) \cap gone = {}
    BY GraphsNameNone
<1>5. ASSUME NEW r \in related
      PROVE  (r.terms \cup r.fk_out \cup r.fk_in \cup r.joins \cup r.metrics) \cap gone = {}
    <2>1. PICK c \in OfType(v.assets, "column") : r = related_to_column(v, c)
        OBVIOUS
    <2>2. \A type : OfType(v.assets, type) \subseteq Seen(v)
        BY DEF OfType, Seen
    <2>. QED BY <2>1, <2>2, RelationsAreSeen DEF ShowsNone
<1>. HIDE DEF rows, details, graphs, related
<1>6. listed \cap gone \subseteq Overtaken(OfType(v.assets, "term"))
    BY <1>2
<1>7. detailed \cap gone = {}
    BY <1>3
<1>8. drawn \cap gone = {}
    BY <1>4
<1>9. relations \cap gone = {}
    BY <1>5
<1>. QED BY <1>1, <1>6, <1>7, <1>8, <1>9

\* The session as the grant discloses it shows all that is served but what the
\* grant withholds, and of that nothing.
LEMMA VisibleShowsNone ==
    ASSUME Given
    PROVE  Seen(visible) = Served \ withheld_now /\ ShowsNone(visible, withheld_now)
<1>. DEFINE gone == withheld_now  assets == structure.assets
<1>1. /\ visible.assets = [a \in Served \ gone |-> _narrow_asset(assets[a], gone)]
      /\ visible.structure = _narrow_structure(gone)
    BY DEF visible, _VisibleSession, withheld_for, withheld_now
<1>2. Seen(visible) = Served \ gone
    BY <1>1 DEF Seen
<1>3. ASSUME NEW a \in Served \ gone
      PROVE  /\ visible.assets[a].points \cap gone \subseteq Overtaken(OfType(visible.assets, "term"))
             /\ visible.assets[a].fk \cap gone = {}
    <2>1. /\ a \in Ids /\ a \in DOMAIN assets /\ assets[a].type = Corpus[a].type
          /\ assets[a].fk = Corpus[a].fk /\ assets[a].points \subseteq Corpus[a].points
        BY DEF Given, StructureOK, ServedOf, Served
    <2>2. visible.assets[a] = _narrow_asset(assets[a], gone)
        BY <1>1
    <2>3. /\ visible.assets[a].fk = assets[a].fk \ gone
          /\ visible.assets[a].points = IF assets[a].type \in {"table", "metric"}
                                        THEN assets[a].points \ gone ELSE assets[a].points
        BY <2>1, <2>2 DEF _narrow_asset, Asset
    <2>4. CASE assets[a].type \in {"table", "metric"}
        BY <2>3, <2>4
    <2>5. CASE assets[a].type = "term"
        <3>1. ASSUME NEW u \in assets[a].points \cap gone
              PROVE  u \in Overtaken(OfType(visible.assets, "term"))
            <4>1. TypeOf(u) = "term" /\ Place[a] <= Place[u]
                BY <2>5, LeadsOnlyAhead DEF TypeOf
            <4>2. visible.assets[a].type = "term"
                BY <2>1, <2>2, <2>5 DEF _narrow_asset, Asset
            <4>3. a \in OfType(visible.assets, "term")
                BY <1>2, <4>2 DEF OfType, Seen
            <4>. QED BY <4>1, <4>3 DEF Overtaken
        <3>. QED BY <2>3, <2>5, <3>1
    <2>6. CASE assets[a].type \notin {"table", "metric", "term"}
        <3>1. Corpus[a].points = {}
            BY <2>1, <2>6, Classes
        <3>. QED BY <2>1, <2>3, <2>6, <3>1
    <2>. QED BY <2>4, <2>5, <2>6
<1>4. /\ visible.structure.edges = {e \in structure.edges : e \cap gone = {}}
      /\ visible.structure.joins = [j \in {j \in DOMAIN structure.joins \ gone : structure.joins[j] \cap gone = {}}
                                      |-> structure.joins[j]]
    BY <1>1 DEF _narrow_structure
<1>. HIDE DEF gone, assets
<1>5. (\A e \in visible.structure.edges : e \cap gone = {}) /\ DOMAIN visible.structure.joins \cap gone = {}
    BY <1>4
<1>6. \A a \in Seen(visible) :
        /\ visible.assets[a].points \cap gone \subseteq Overtaken(OfType(visible.assets, "term"))
        /\ visible.assets[a].fk \cap gone = {}
    BY <1>2, <1>3
<1>. QED BY <1>2, <1>5, <1>6 DEF ShowsNone, gone

\* Neither a turn nor an answer of the browse surface names what the asker may
\* not see (serve/context.py withheld_by_grant, govern/bounds.py,
\* serve/fetch.py, api/visibility.py), for any corpus and any order it is
\* loaded in, but for a hidden term that a term loaded before it leads to; nor
\* is anything kept from an asker who may see all that is served.
THEOREM WithheldStaysUnnamed == Spec => []NothingWithheldIsNamed
<1>1. ASSUME Given, TurnInv PROVE NothingWithheldIsNamed
    <2>1. TurnNamesNothingWithheld
        BY <1>1, TurnTells
    <2>2. NotToBeNamed \subseteq withheld_now
        BY <1>1, HiddenIsWithheld
    <2>3. Seen(visible) = Served \ withheld_now /\ ShowsNone(visible, withheld_now)
        BY <1>1, VisibleShowsNone
    <2>4. Named(visible) \cap withheld_now \subseteq Overtaken(OfType(visible.assets, "term"))
        BY <2>3, NamesNone
    <2>5. denied \cap Served = {} => withheld_now = {}
        BY <1>1, WithheldSays
    <2>. QED BY <2>1, <2>2, <2>3, <2>4, <2>5 DEF NothingWithheldIsNamed
<1>2. Given /\ TurnInv => NothingWithheldIsNamed
    BY <1>1
<1>. QED BY <1>2, RetrievalIsInOrder, PTL
=============================================================================
