---------------------------- MODULE NatInduction ----------------------------
(***************************************************************************)
(* Induction over the naturals in a form the provers can use: over a set   *)
(* where the library's theorems take a predicate.                          *)
(***************************************************************************)
EXTENDS Integers, WellFoundedInduction, TLAPS

LEMMA LeastNat ==
  ASSUME NEW T, T \subseteq Nat, T # {}
  PROVE  \E x \in T : \A y \in T : x <= y
<1>1. PICK x \in T : \A y \in T : ~(<<y, x>> \in OpToRel(<, Nat))
  BY NatLessThanWellFounded, WFMin
<1>2. \A y \in T : <<y, x>> \in Nat \X Nat
  OBVIOUS
<1>3. \A y \in T : ~(y < x)
  BY <1>1, <1>2 DEF OpToRel
<1> QED BY <1>3

LEMMA SetInduction ==
  ASSUME NEW S, 0 \in S, \A n \in Nat : n \in S => n + 1 \in S
  PROVE  Nat \subseteq S
<1> DEFINE T == {n \in Nat : n \notin S}
<1> SUFFICES ASSUME T # {} PROVE FALSE
  OBVIOUS
<1>1. PICK x \in T : \A y \in T : x <= y
  BY LeastNat
<1>2. x \in Nat /\ x \notin S /\ x # 0
  BY <1>1
<1>3. x - 1 \in Nat /\ x - 1 + 1 = x /\ ~(x <= x - 1)
  BY <1>2
<1>4. x - 1 \in S
  BY <1>1, <1>3
<1> QED BY <1>2, <1>3, <1>4

LEMMA StrongInduction ==
  ASSUME NEW S, \A n \in Nat : (\A m \in Nat : m < n => m \in S) => n \in S
  PROVE  Nat \subseteq S
<1> DEFINE T == {n \in Nat : n \notin S}
<1> SUFFICES ASSUME T # {} PROVE FALSE
  OBVIOUS
<1>1. PICK x \in T : \A y \in T : x <= y
  BY LeastNat
<1>2. x \in Nat /\ x \notin S
  BY <1>1
<1>3. \A m \in Nat : m < x => m \in S
  BY <1>1, <1>2
<1> QED BY <1>2, <1>3

-----------------------------------------------------------------------------
(* Functions that are defined by recursion exist. *)

IsRecursive(f, T, base, step) ==
  f \in [Nat -> T] /\ f[0] = base /\ \A n \in Nat : f[n + 1] = step[<<n, f[n]>>]

\* From a first value, with a step that may look at where it is.
LEMMA Recursion ==
  ASSUME NEW T, NEW base \in T, NEW step \in [Nat \X T -> T]
  PROVE  \E f : IsRecursive(f, T, base, step)
<1> DEFINE Start(n) == {f \in [0..n -> T] : /\ f[0] = base
                                            /\ \A i \in 0..n : i < n => f[i + 1] = step[<<i, f[i]>>]}
<1>1. \A n \in Nat : Start(n) # {}
  <2> DEFINE S == {n \in Nat : Start(n) # {}}
  <2>1. 0 \in S
    <3>1. [i \in 0..0 |-> base] \in Start(0)
      OBVIOUS
    <3> QED BY <3>1
  <2>2. ASSUME NEW n \in Nat, n \in S
        PROVE  n + 1 \in S
    <3>1. PICK f \in Start(n) : TRUE
      BY <2>2
    <3> DEFINE g == [i \in 0..n + 1 |-> IF i <= n THEN f[i] ELSE step[<<n, f[n]>>]]
    <3>2. f[n] \in T /\ \A i \in 0..n : f[i] \in T
      BY <3>1
    <3>3. g \in [0..n + 1 -> T]
      BY <3>2
    <3>4. g[0] = base
      BY <3>1
    <3>5. \A i \in 0..n + 1 : i < n + 1 => g[i + 1] = step[<<i, g[i]>>]
      <4> SUFFICES ASSUME NEW i \in 0..n + 1, i < n + 1 PROVE g[i + 1] = step[<<i, g[i]>>]
        OBVIOUS
      <4>1. CASE i < n
        <5>1. i \in 0..n /\ i + 1 \in 0..n + 1 /\ i + 1 <= n /\ i <= n
          BY <4>1
        <5>2. f[i + 1] = step[<<i, f[i]>>]
          BY <3>1, <4>1, <5>1
        <5> QED BY <5>1, <5>2
      <4>2. CASE i = n
        BY <4>2
      <4> QED BY <4>1, <4>2
    <3> HIDE DEF g
    <3>6. g \in Start(n + 1)
      BY <3>3, <3>4, <3>5
    <3> HIDE DEF Start
    <3> QED BY <3>6
  <2> HIDE DEF S
  <2>3. Nat \subseteq S
    BY <2>1, <2>2, SetInduction
  <2> QED BY <2>3 DEF S
<1>2. ASSUME NEW m \in Nat, NEW n \in Nat, m <= n, NEW f \in Start(m), NEW g \in Start(n)
      PROVE  \A i \in 0..m : f[i] = g[i]
  <2> DEFINE S == {i \in Nat : i <= m => f[i] = g[i]}
  <2>1. 0 \in S
    OBVIOUS
  <2>2. ASSUME NEW i \in Nat, i \in S
        PROVE  i + 1 \in S
    <3> SUFFICES ASSUME i + 1 <= m PROVE f[i + 1] = g[i + 1]
      OBVIOUS
    <3>1. i \in 0..m /\ i < m /\ i \in 0..n /\ i < n /\ i <= m
      BY <1>2
    <3>2. f[i + 1] = step[<<i, f[i]>>] /\ g[i + 1] = step[<<i, g[i]>>]
      BY <3>1
    <3> QED BY <2>2, <3>1, <3>2
  <2> HIDE DEF S
  <2>3. Nat \subseteq S
    BY <2>1, <2>2, SetInduction
  <2>4. \A i \in 0..m : i \in Nat /\ i <= m
    OBVIOUS
  <2>5. \A i \in Nat : i <= m => f[i] = g[i]
    BY <2>3 DEF S
  <2> QED BY <2>4, <2>5
<1> DEFINE A(n) == CHOOSE f : f \in Start(n)
           F == [n \in Nat |-> A(n)[n]]
<1> HIDE DEF Start
<1>3. \A n \in Nat : A(n) \in Start(n)
  BY <1>1
<1> HIDE DEF A
<1>4. \A n \in Nat : A(n)[n] \in T
  BY <1>3 DEF Start
<1>5. F \in [Nat -> T]
  BY <1>4
<1>6. F[0] = base
  BY <1>3 DEF Start
<1>7. ASSUME NEW n \in Nat
      PROVE  F[n + 1] = step[<<n, F[n]>>]
  <2>1. n + 1 \in Nat /\ n <= n + 1 /\ n \in 0..n /\ n \in 0..n + 1 /\ n < n + 1
    OBVIOUS
  <2>2. A(n + 1)[n + 1] = step[<<n, A(n + 1)[n]>>]
    BY <1>3, <2>1 DEF Start
  <2>3. A(n)[n] = A(n + 1)[n]
    BY <1>2, <1>3, <2>1
  <2> QED BY <2>1, <2>2, <2>3
<1> HIDE DEF F
<1>8. IsRecursive(F, T, base, step)
  BY <1>5, <1>6, <1>7 DEF IsRecursive
<1> QED BY <1>8

\* What iterating a function from a number on gives, as a function of how often.
LEMMA Iteration ==
  ASSUME NEW base \in Nat, NEW step \in [Nat -> Nat]
  PROVE  \E f \in [Nat -> Nat] : f[0] = base /\ \A n \in Nat : f[n + 1] = step[f[n]]
<1> DEFINE next == [p \in Nat \X Nat |-> step[p[2]]]
<1>1. next \in [Nat \X Nat -> Nat]
  OBVIOUS
<1>2. \A n, m \in Nat : next[<<n, m>>] = step[m]
  OBVIOUS
<1> HIDE DEF next
<1>3. PICK f : IsRecursive(f, Nat, base, next)
  BY <1>1, Recursion
<1> QED BY <1>2, <1>3 DEF IsRecursive

IsCourse(f, T, limit, base, step, before) ==
  /\ f \in [Nat -> T]
  /\ \A n \in Nat : f[n] = IF n < limit THEN base[n] ELSE step[<<n, f[before[n]]>>]

\* From a smaller argument, which need not be the one before.
LEMMA CourseOfValues ==
  ASSUME NEW T, NEW limit \in Nat, NEW base \in [Nat -> T], NEW step \in [Nat \X T -> T],
         NEW before \in [Nat -> Nat], \A n \in Nat : n >= limit => before[n] < n
  PROVE  \E f : IsCourse(f, T, limit, base, step, before)
<1> DEFINE Better(g) == [n \in Nat |-> IF n < limit THEN base[n] ELSE step[<<n, g[before[n]]>>]]
           better == [p \in Nat \X [Nat -> T] |-> Better(p[2])]
<1>1. \A g \in [Nat -> T] : Better(g) \in [Nat -> T]
  OBVIOUS
<1>2. \A g \in [Nat -> T], n \in Nat :
        Better(g)[n] = IF n < limit THEN base[n] ELSE step[<<n, g[before[n]]>>]
  OBVIOUS
<1> HIDE DEF Better
<1>3. better \in [Nat \X [Nat -> T] -> [Nat -> T]]
  BY <1>1
<1>4. \A k \in Nat, g \in [Nat -> T] : better[<<k, g>>] = Better(g)
  OBVIOUS
<1> HIDE DEF better
<1>5. PICK G \in [Nat -> [Nat -> T]] :
        G[0] = base /\ \A k \in Nat : G[k + 1] = better[<<k, G[k]>>]
  <2> DEFINE U == [Nat -> T]
  <2>1. base \in U /\ better \in [Nat \X U -> U]
    BY <1>3
  <2> HIDE DEF U
  <2>2. \E G : IsRecursive(G, U, base, better)
    BY <2>1, Recursion
  <2> QED BY <2>2 DEF U, IsRecursive
<1>6. \A k, n \in Nat : n < limit => G[k][n] = base[n]
  <2> TAKE k, n \in Nat
  <2>1. CASE k = 0
    BY <1>5, <2>1
  <2>2. CASE k # 0
    <3>1. k - 1 \in Nat /\ k - 1 + 1 = k
      BY <2>2
    <3>2. G[k - 1] \in [Nat -> T] /\ G[k] = Better(G[k - 1])
      BY <1>4, <1>5, <3>1
    <3>3. n < limit => Better(G[k - 1])[n] = base[n]
      BY <1>2, <3>2
    <3> QED BY <3>2, <3>3
  <2> QED BY <2>1, <2>2
<1>7. \A k, n \in Nat : n >= limit => G[k + 1][n] = step[<<n, G[k][before[n]]>>]
  <2> TAKE k, n \in Nat
  <2>1. G[k + 1] = Better(G[k])
    BY <1>4, <1>5
  <2> QED BY <1>2, <2>1
<1>8. \A n \in Nat, k \in Nat : n <= k => G[k][n] = G[n][n]
  <2> DEFINE S == {m \in Nat : \A k \in Nat : m <= k => G[k][m] = G[m][m]}
  <2>1. ASSUME NEW n \in Nat, \A m \in Nat : m < n => m \in S
        PROVE  n \in S
    <3> SUFFICES ASSUME NEW k \in Nat, n <= k PROVE G[k][n] = G[n][n]
      OBVIOUS
    <3>1. CASE n < limit
      BY <1>6, <3>1
    <3>2. CASE n >= limit
      <4>1. before[n] \in Nat /\ before[n] < n
        BY <3>2
      <4>2. n - 1 \in Nat /\ n - 1 + 1 = n /\ k - 1 \in Nat /\ k - 1 + 1 = k
        BY <4>1
      <4>3. before[n] <= n - 1 /\ before[n] <= k - 1
        BY <4>1
      <4>4. G[k][n] = step[<<n, G[k - 1][before[n]]>>]
        BY <1>7, <3>2, <4>2
      <4>5. G[n][n] = step[<<n, G[n - 1][before[n]]>>]
        BY <1>7, <3>2, <4>2
      <4>6. before[n] \in S
        BY <2>1, <4>1
      <4>7. G[k - 1][before[n]] = G[n - 1][before[n]]
        BY <4>1, <4>2, <4>3, <4>6
      <4> QED BY <4>4, <4>5, <4>7
    <3> QED BY <3>1, <3>2
  <2> HIDE DEF S
  <2>2. Nat \subseteq S
    BY <2>1, StrongInduction
  <2> QED BY <2>2 DEF S
<1> DEFINE f == [n \in Nat |-> G[n][n]]
<1>9. f \in [Nat -> T]
  OBVIOUS
<1>10. ASSUME NEW n \in Nat
       PROVE  f[n] = IF n < limit THEN base[n] ELSE step[<<n, f[before[n]]>>]
  <2>1. CASE n < limit
    BY <1>6, <2>1
  <2>2. CASE n >= limit
    <3>1. before[n] \in Nat /\ before[n] < n /\ ~(n < limit)
      BY <2>2
    <3>2. n - 1 \in Nat /\ n - 1 + 1 = n /\ before[n] <= n - 1
      BY <3>1
    <3>3. G[n][n] = step[<<n, G[n - 1][before[n]]>>]
      BY <1>7, <2>2, <3>2
    <3>4. G[n - 1][before[n]] = G[before[n]][before[n]]
      BY <1>8, <3>1, <3>2
    <3> QED BY <3>1, <3>3, <3>4
  <2> QED BY <2>1, <2>2
<1> HIDE DEF f
<1>11. IsCourse(f, T, limit, base, step, before)
  BY <1>9, <1>10 DEF IsCourse
<1> QED BY <1>11
=============================================================================
