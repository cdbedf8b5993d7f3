------------------------------ MODULE Numbers ------------------------------
(***************************************************************************)
(* Facts about numbers for the proofs of this project.  In the facts of    *)
(* induction the set of numbers for which a statement holds stands for the *)
(* statement: every fact is about a set, and rests on < being well-founded.*)
(***************************************************************************)
EXTENDS Integers, WellFoundedInduction, TLAPS

\* A nonempty set of natural numbers has a least element.
LEMMA LeastNumber ==
    ASSUME NEW T, T \subseteq Nat, T # {}
    PROVE  \E n \in T : \A m \in T : n <= m
  <1>1. OpToRel(<, Nat) = {p \in Nat \X Nat : p[1] < p[2]}
    BY Zenon DEF OpToRel
  <1>2. \E x \in T : \A y \in T : ~(<<y, x>> \in OpToRel(<, Nat))
    BY NatLessThanWellFounded, WFMin
  <1>3. PICK x \in T : \A y \in T : ~(<<y, x>> \in {p \in Nat \X Nat : p[1] < p[2]})
    BY <1>1, <1>2
  <1>4. ASSUME NEW y \in T PROVE x <= y
    <2>1. x \in Nat /\ y \in Nat
      OBVIOUS
    <2>2. ~(<<y, x>> \in {p \in Nat \X Nat : p[1] < p[2]})
      BY <1>3
    <2>3. ~(y < x)
      BY <2>1, <2>2
    <2> QED BY <2>1, <2>3
  <1> QED BY <1>4

\* A set that has 0 and the successors of its elements has every number.
LEMMA SetInduction ==
    ASSUME NEW T, 0 \in T, \A n \in Nat : n \in T => n + 1 \in T
    PROVE  Nat \subseteq T
  <1> SUFFICES ASSUME Nat \ T # {} PROVE FALSE
    OBVIOUS
  <1>1. PICK n \in Nat \ T : \A m \in Nat \ T : n <= m
    BY LeastNumber
  <1>2. n # 0 /\ n - 1 \in Nat
    BY <1>1
  <1>3. n - 1 \in T
    BY <1>1, <1>2
  <1> QED BY <1>2, <1>3

\* The same up to a bound.
LEMMA BoundedInduction ==
    ASSUME NEW N \in Nat, NEW T, 0 \in T, \A i \in 1..N : i - 1 \in T => i \in T
    PROVE  0..N \subseteq T
  <1> DEFINE U == {n \in Nat : n <= N => n \in T}
  <1>1. 0 \in U
    OBVIOUS
  <1>2. ASSUME NEW n \in Nat, n \in U PROVE n + 1 \in U
    <2>1. CASE n + 1 <= N
      <3>1. n + 1 \in 1..N /\ (n + 1) - 1 = n /\ n <= N
        BY <2>1
      <3>2. n + 1 \in T
        BY <1>2, <3>1
      <3> QED BY <3>2
    <2>2. CASE ~(n + 1 <= N)
      BY <2>2
    <2> QED BY <2>1, <2>2
  <1> HIDE DEF U
  <1>3. Nat \subseteq U
    BY <1>1, <1>2, SetInduction
  <1> QED BY <1>3 DEF U

\* Recursion defines a function: the values of c, step c, step step c, ...
IsStep(step, N, S) == step \in [S \X (1..N) -> S]
Iterates(f, N, S, c, step) ==
    f \in [0..N -> S] /\ f[0] = c /\ \A i \in 1..N : f[i] = step[<<f[i - 1], i>>]

LEMMA RecursiveFunction ==
    ASSUME NEW N \in Nat, NEW S, NEW c \in S, NEW step, IsStep(step, N, S)
    PROVE  \E f : Iterates(f, N, S, c, step)
  <1> DEFINE Good(n, f) == f[0] = c /\ \A i \in 1..n : f[i] = step[<<f[i - 1], i>>]
             T == {n \in Nat : \E f \in [0..n -> S] : Good(n, f)}
  <1> USE DEF IsStep
  <1>1. 0 \in T
    <2>1. [i \in 0..0 |-> c] \in [0..0 -> S] /\ Good(0, [i \in 0..0 |-> c])
      OBVIOUS
    <2> QED BY <2>1
  <1>2. ASSUME NEW k \in 1..N, k - 1 \in T PROVE k \in T
    <2> DEFINE n == k - 1
    <2>1. PICK f \in [0..n -> S] : Good(n, f)
      BY <1>2
    <2> DEFINE g == [i \in 0..k |-> IF i = k THEN step[<<f[n], k>>] ELSE f[i]]
    <2>2. n \in Nat /\ n # k /\ n \in 0..k /\ n \in 0..n /\ k # 0 /\ 0 \in 0..k
      OBVIOUS
    <2>3. <<f[n], k>> \in S \X (1..N) /\ step[<<f[n], k>>] \in S
      BY <2>2
    <2>4. \A i \in 0..k : i # k => i \in 0..n
      BY <2>2
    <2>5. g \in [0..k -> S]
      BY <2>3, <2>4
    <2>6. g[0] = c
      BY <2>1, <2>2
    <2>7. ASSUME NEW i \in 1..k PROVE g[i] = step[<<g[i - 1], i>>]
      <3>1. CASE i = k
        <4>1. g[n] = f[n] /\ g[k] = step[<<f[n], k>>]
          BY <2>2
        <4> QED BY <3>1, <4>1
      <3>2. CASE i # k
        <4>1. i \in 1..n /\ i - 1 \in 0..k /\ i - 1 # k /\ i \in 0..k
          BY <3>2
        <4>2. g[i] = f[i] /\ g[i - 1] = f[i - 1]
          BY <3>2, <4>1
        <4>3. f[i] = step[<<f[i - 1], i>>]
          BY <2>1, <4>1
        <4> QED BY <4>2, <4>3
      <3> QED BY <3>1, <3>2
    <2> HIDE DEF g
    <2>8. Good(k, g)
      BY <2>6, <2>7
    <2> QED BY <2>5, <2>8
  <1> HIDE DEF T
  <1>3. 0..N \subseteq T
    BY <1>1, <1>2, BoundedInduction
  <1>4. N \in T
    BY <1>3
  <1> QED BY <1>4 DEF T, Iterates

\* Multiples of different numbers are d apart.
LEMMA Apart ==
    ASSUME NEW p \in Int, NEW q \in Int, p < q, NEW d \in Nat
    PROVE  p * d + d <= q * d
  <1>1. q - p - 1 \in Nat
    OBVIOUS
  <1>2. \A n \in Nat : n * d \in Nat
    OBVIOUS
  <1>3. (q - p - 1) * d \in Nat
    BY <1>1, <1>2
  <1>4. (q - p - 1) * d = q * d - (p * d + d)
    OBVIOUS
  <1> QED BY <1>3, <1>4

\* Division.
LEMMA Division ==
    ASSUME NEW d \in Nat \ {0}, NEW t \in Nat
    PROVE  t \div d \in Nat /\ (t \div d) * d <= t /\ t < (t \div d) * d + d
  OBVIOUS

LEMMA DivisionMonotone ==
    ASSUME NEW d \in Nat \ {0}, NEW t \in Nat, NEW u \in Nat, t <= u
    PROVE  t \div d <= u \div d
  <1> DEFINE p == t \div d
             q == u \div d
  <1>1. p \in Nat /\ q \in Nat /\ p * d <= t /\ u < q * d + d
    BY Division
  <1> HIDE DEF p, q
  <1>2. q < p => q * d + d <= p * d
    BY <1>1, Apart
  <1>3. p <= q
    <2>1. p * d \in Int /\ q * d \in Int
      BY <1>1
    <2> QED BY <1>1, <1>2, <2>1
  <1> QED BY <1>3 DEF p, q

\* A nonempty bounded set of natural numbers has a greatest element.
LEMMA GreatestNumber ==
    ASSUME NEW N \in Nat, NEW T, T \subseteq 0..N, T # {}
    PROVE  \E n \in T : \A m \in T : n >= m
  <1> DEFINE U == {N - t : t \in T}
  <1>1. U \subseteq Nat /\ U # {}
    <2>1. \A t \in T : N - t \in Nat
      OBVIOUS
    <2> QED BY <2>1
  <1> HIDE DEF U
  <1>2. PICK u \in U : \A v \in U : u <= v
    BY <1>1, LeastNumber
  <1>3. PICK n \in T : u = N - n
    BY DEF U
  <1>4. ASSUME NEW m \in T PROVE n >= m
    <2>1. N - m \in U
      BY DEF U
    <2>2. N - n <= N - m
      BY <1>2, <1>3, <2>1
    <2>3. n \in Nat /\ m \in Nat
      OBVIOUS
    <2> QED BY <2>2, <2>3
  <1> QED BY <1>4

\* A number is the quotient and the remainder it is put together from.
LEMMA QuotientIs ==
    ASSUME NEW d \in Nat \ {0}, NEW q \in Nat, NEW r \in 0..(d - 1)
    PROVE  (q * d + r) \div d = q /\ (q * d + r) % d = r
  <1> DEFINE n == q * d + r
             x == n \div d
  <1>1. q * d \in Nat /\ n \in Nat /\ d \in Nat
    OBVIOUS
  <1>2. x \in Nat /\ x * d <= n /\ n < x * d + d
    BY <1>1, Division
  <1>3. x * d \in Nat
    BY <1>2
  <1>4. ~(x < q)
    <2>1. x < q => x * d + d <= q * d
      BY <1>2, Apart
    <2> HIDE DEF x
    <2> QED BY <1>1, <1>2, <1>3, <2>1
  <1>5. ~(q < x)
    <2>1. q < x => q * d + d <= x * d
      BY <1>2, Apart
    <2> HIDE DEF x
    <2> QED BY <1>1, <1>2, <1>3, <2>1
  <1>6. x = q
    <2> HIDE DEF x
    <2> QED BY <1>2, <1>4, <1>5
  <1>7. n % d \in 0..(d - 1) /\ n = x * d + (n % d)
    <2> HIDE DEF n
    <2> QED BY <1>1
  <1>8. n % d = r
    <2> DEFINE y == n % d
    <2>1. y \in Nat /\ n = q * d + y
      BY <1>6, <1>7
    <2> HIDE DEF y, x
    <2> QED BY <1>1, <2>1 DEF y
  <1> QED BY <1>6, <1>8
=============================================================================
