-------------------------- MODULE SummationProofs ---------------------------
(***************************************************************************)
(* Functions that are defined by recursion over an interval of numbers:    *)
(* that they are functions, and what they keep. From this, what the sums   *)
(* of a sequence are. Induction is taken from the least element of a set,  *)
(* so that every statement is one about sets.                              *)
(***************************************************************************)
EXTENDS Summation, WellFoundedInduction, TLAPS

(* Recursion over an interval of numbers *)

\* A set of numbers that is not empty has a least one.
LEMMA LeastNumber ==
    ASSUME NEW A, A \subseteq Nat, A # {}
    PROVE  \E n \in A : \A m \in A : n <= m
<1>1. PICK n \in A : \A m \in A : ~(<<m, n>> \in OpToRel(<, Nat))
  BY NatLessThanWellFounded, WFMin
<1>2. \A m \in A : ~(m < n)
  BY <1>1 DEF OpToRel
<1> QED BY <1>2

\* Induction, for a set of numbers.
LEMMA IntervalInduction ==
    ASSUME NEW A, NEW b \in Nat, NEW n \in Nat, b \in A, \A i \in b + 1 .. n : i - 1 \in A => i \in A
    PROVE  b .. n \subseteq A
<1> DEFINE Rest == (b .. n) \ A
<1> SUFFICES ASSUME Rest # {} PROVE FALSE
  OBVIOUS
<1>1. PICK i \in Rest : \A j \in Rest : i <= j
  <2>1. Rest \subseteq Nat
    OBVIOUS
  <2> HIDE DEF Rest
  <2> QED BY <2>1, LeastNumber
<1>2. i \in b + 1 .. n
  BY <1>1
<1>3. i - 1 \in A
  BY <1>1, <1>2
<1> QED BY <1>1, <1>2, <1>3

\* A first value, and how each further one follows from the one before.
Recursive(S, b, n, x, F) == b \in Nat /\ n \in Nat /\ b <= n /\ x \in S /\ F \in [b + 1 .. n -> [S -> S]]
\* Function f follows the recursion from b to n.
Follows(S, b, n, x, F, f) == f \in [b .. n -> S] /\ f[b] = x /\ \A i \in b + 1 .. n : f[i] = F[i][f[i - 1]]

\* There is a function that follows a recursion.
LEMMA Recursion == \A S, b, n, x, F : Recursive(S, b, n, x, F) => \E f : Follows(S, b, n, x, F, f)
<1> SUFFICES ASSUME NEW S, NEW b \in Nat, NEW n \in Nat, b <= n, NEW x \in S, NEW F \in [b + 1 .. n -> [S -> S]]
             PROVE  \E f : Follows(S, b, n, x, F, f)
  BY DEF Recursive
<1> DEFINE Upto(k, f) == f \in [b .. k -> S] /\ f[b] = x /\ \A i \in b + 1 .. k : f[i] = F[i][f[i - 1]]
           A == {k \in b .. n : \E f : Upto(k, f)}
<1>1. b \in A
  <2> DEFINE only == [i \in b .. b |-> x]
  <2>1. Upto(b, only)
    OBVIOUS
  <2>2. b \in b .. n
    OBVIOUS
  <2> HIDE DEF Upto, only
  <2> QED BY <2>1, <2>2
<1>2. \A k \in b + 1 .. n : k - 1 \in A => k \in A
  <2> TAKE k \in b + 1 .. n
  <2> SUFFICES ASSUME k - 1 \in A PROVE k \in A
    OBVIOUS
  <2>1. PICK f : Upto(k - 1, f)
    OBVIOUS
  <2> DEFINE g == [i \in b .. k |-> IF i = k THEN F[k][f[k - 1]] ELSE f[i]]
  <2>2. f[k - 1] \in S /\ F[k][f[k - 1]] \in S
    BY <2>1
  <2>3. g \in [b .. k -> S] /\ g[b] = x
    BY <2>1, <2>2
  <2>4. \A i \in b + 1 .. k : g[i] = F[i][g[i - 1]]
    <3> TAKE i \in b + 1 .. k
    <3>1. i - 1 \in b .. k /\ i \in b .. k /\ i - 1 # k
      OBVIOUS
    <3>2. g[i - 1] = f[i - 1]
      BY <3>1
    <3> QED BY <2>1, <3>1, <3>2
  <2>5. Upto(k, g)
    BY <2>3, <2>4
  <2> HIDE DEF Upto, g
  <2> QED BY <2>5
<1> HIDE DEF A
<1>3. b .. n \subseteq A
  BY <1>1, <1>2, IntervalInduction
<1>4. n \in A
  BY <1>3
<1> QED BY <1>4 DEF A, Follows

\* A function that is its own definition by recursion has the values that the recursion keeps in.
LEMMA RecursionStays ==
    ASSUME NEW S, NEW b \in Nat, NEW n \in Nat, NEW f, NEW D, D = b + 1 .. n,
           f[b] \in S, \A i \in D : f[i - 1] \in S => f[i] \in S
    PROVE  \A i \in b .. n : f[i] \in S
<1> DEFINE A == {i \in b .. n : f[i] \in S}
<1>0. CASE ~(b <= n)
  BY <1>0
<1>1. CASE b <= n
  <2>1. b \in A
    BY <1>1
  <2>2. \A i \in b + 1 .. n : i - 1 \in A => i \in A
    OBVIOUS
  <2> HIDE DEF A
  <2>3. b .. n \subseteq A
    BY <2>1, <2>2, IntervalInduction
  <2> QED BY <2>3 DEF A
<1> QED BY <1>0, <1>1

-----------------------------------------------------------------------------
(* Sums *)

\* Sums are a function: each adds the next number.
LEMMA SumsFollow ==
    \A s \in Seq(Int) :
        /\ Sums(s) \in [0 .. Len(s) -> Int]
        /\ Sums(s)[0] = 0
        /\ \A i \in 1 .. Len(s) : Sums(s)[i] = Sums(s)[i - 1] + s[i]
<1> TAKE s \in Seq(Int)
<1> DEFINE n == Len(s)
           F == [i \in 1 .. n |-> [sum \in Int |-> sum + s[i]]]
           Is(f) == f = [i \in 0 .. Len(s) |-> IF i = 0 THEN 0 ELSE f[i - 1] + s[i]]
<1>1. n \in Nat /\ \A i \in 1 .. n : s[i] \in Int
  OBVIOUS
<1>2. F \in [1 .. n -> [Int -> Int]] /\ 1 .. n = 0 + 1 .. n /\ 0 <= n /\ 0 \in Nat /\ 0 \in Int
  BY <1>1
<1>3. \E f \in [0 .. n -> Int] : f[0] = 0 /\ \A i \in 1 .. n : f[i] = F[i][f[i - 1]]
  <2>1. Recursive(Int, 0, n, 0, F)
    BY <1>1, <1>2 DEF Recursive
  <2> HIDE DEF F, n
  <2>2. \E f : Follows(Int, 0, n, 0, F, f)
    BY <2>1, Recursion
  <2> QED BY <1>2, <2>2 DEF Follows
<1>4. \E f : Is(f)
  <2>1. PICK f \in [0 .. n -> Int] : f[0] = 0 /\ \A i \in 1 .. n : f[i] = F[i][f[i - 1]]
    BY <1>3
  <2>2. \A i \in 0 .. n : f[i] = IF i = 0 THEN 0 ELSE f[i - 1] + s[i]
    <3> TAKE i \in 0 .. n
    <3>1. i # 0 => i \in 1 .. n /\ i - 1 \in 0 .. n
      BY <1>1
    <3>2. i # 0 => f[i - 1] \in Int /\ f[i] = F[i][f[i - 1]]
      BY <2>1, <3>1
    <3>3. i # 0 => F[i] = [sum \in Int |-> sum + s[i]]
      BY <3>1
    <3> HIDE DEF F
    <3> QED BY <2>1, <3>2, <3>3
  <2>3. f = [i \in 0 .. n |-> f[i]]
    BY <2>1
  <2> QED BY <2>2, <2>3
<1>5. Is(Sums(s))
  <2>1. Sums(s) = CHOOSE f : Is(f)
    BY DEF Sums
  <2> HIDE DEF Is
  <2> QED BY <1>4, <2>1
<1> DEFINE g == Sums(s)
<1>6. g = [i \in 0 .. n |-> IF i = 0 THEN 0 ELSE g[i - 1] + s[i]]
  BY <1>5
<1> HIDE DEF g, n
<1>7. DOMAIN g = 0 .. n /\ g[0] = 0 /\ g = [i \in 0 .. n |-> g[i]]
  BY <1>1, <1>6
<1>8. \A i \in 1 .. n : g[i] = g[i - 1] + s[i]
  <2> TAKE i \in 1 .. n
  <2>1. i \in 0 .. n /\ i # 0
    BY <1>1
  <2> QED BY <1>6, <2>1
<1>9. \A i \in 0 .. n : g[i] \in Int
  <2>1. g[0] \in Int
    BY <1>7
  <2>2. \A i \in 1 .. n : g[i - 1] \in Int => g[i] \in Int
    BY <1>1, <1>8
  <2>3. 1 .. n = 0 + 1 .. n
    OBVIOUS
  <2> QED BY <1>1, <2>1, <2>2, <2>3, RecursionStays
<1> QED BY <1>7, <1>8, <1>9 DEF g, n

\* The sums of a sequence of natural numbers.
LEMMA SumsAre ==
    ASSUME NEW s \in Seq(Nat)
    PROVE  /\ Sums(s) \in [0 .. Len(s) -> Nat]
           /\ Sums(s)[0] = 0
           /\ \A i \in 1 .. Len(s) : Sums(s)[i] = Sums(s)[i - 1] + s[i]
<1> DEFINE n == Len(s)
           g == Sums(s)
<1>1. n \in Nat /\ s \in Seq(Int) /\ \A i \in 1 .. n : s[i] \in Nat
  OBVIOUS
<1>2. g \in [0 .. n -> Int] /\ g[0] = 0 /\ \A i \in 1 .. n : g[i] = g[i - 1] + s[i]
  BY <1>1, SumsFollow
<1> HIDE DEF g, n
<1>3. \A i \in 0 .. n : g[i] \in Nat
  <2>1. g[0] \in Nat /\ \A i \in 1 .. n : g[i - 1] \in Nat => g[i] \in Nat
    BY <1>1, <1>2
  <2>2. 1 .. n = 0 + 1 .. n /\ 0 \in Nat
    OBVIOUS
  <2> QED BY <1>1, <2>1, <2>2, RecursionStays
<1> QED BY <1>2, <1>3 DEF g, n

\* Sums of sequences that begin alike begin alike, and grow alike.
LEMMA SumsAgree ==
    \A s, t \in Seq(Int) : \A k \in Int : \A from, m \in Nat :
        m <= Len(s) /\ from + m <= Len(t) /\ (\A i \in 1 .. m : t[from + i] = k * s[i])
        => \A i \in 0 .. m : Sums(t)[from + i] = Sums(t)[from] + k * Sums(s)[i]
<1> SUFFICES ASSUME NEW s \in Seq(Int), NEW t \in Seq(Int), NEW k \in Int, NEW from \in Nat, NEW m \in Nat,
                    m <= Len(s), from + m <= Len(t), \A i \in 1 .. m : t[from + i] = k * s[i]
             PROVE  \A i \in 0 .. m : Sums(t)[from + i] = Sums(t)[from] + k * Sums(s)[i]
  OBVIOUS
<1> DEFINE u == Sums(s)
           w == Sums(t)
<1>1. /\ u \in [0 .. Len(s) -> Int] /\ u[0] = 0 /\ \A i \in 1 .. Len(s) : u[i] = u[i - 1] + s[i]
      /\ w \in [0 .. Len(t) -> Int] /\ \A i \in 1 .. Len(t) : w[i] = w[i - 1] + t[i]
      /\ Len(s) \in Nat /\ Len(t) \in Nat /\ \A i \in 1 .. Len(s) : s[i] \in Int
  BY SumsFollow
<1> HIDE DEF u, w
<1> DEFINE A == {i \in 0 .. m : w[from + i] = w[from] + k * u[i]}
<1>2. 0 \in A
  <2>1. w[from] \in Int /\ from + 0 = from
    BY <1>1
  <2> QED BY <1>1, <2>1
<1>3. ASSUME NEW i \in 0 + 1 .. m, i - 1 \in A PROVE i \in A
  <2>1. i \in 1 .. Len(s) /\ from + i \in 1 .. Len(t) /\ (from + i) - 1 = from + (i - 1)
    BY <1>1
  <2>2. w[from + i] = w[from + (i - 1)] + k * s[i]
    BY <1>1, <2>1
  <2>3. w[from + (i - 1)] = w[from] + k * u[i - 1]
    BY <1>3
  <2>4. u[i] = u[i - 1] + s[i] /\ u[i - 1] \in Int /\ s[i] \in Int /\ w[from] \in Int
    <3>1. i - 1 \in 0 .. Len(s) /\ from \in 0 .. Len(t)
      BY <1>1
    <3> QED BY <1>1, <2>1, <3>1
  <2>5. k * u[i] = k * u[i - 1] + k * s[i]
    BY <2>4
  <2>6. k * u[i - 1] \in Int /\ k * s[i] \in Int
    BY <2>4
  <2>7. w[from + i] = w[from] + k * u[i]
    <3> DEFINE a == k * u[i - 1]
               b == k * s[i]
               c == k * u[i]
    <3>1. w[from + i] = w[from + (i - 1)] + b /\ w[from + (i - 1)] = w[from] + a /\ c = a + b
      BY <2>2, <2>3, <2>5
    <3>2. w[from] \in Int /\ a \in Int /\ b \in Int
      BY <2>4, <2>6
    <3> HIDE DEF a, b, c
    <3>3. w[from + i] = w[from] + c
      BY <3>1, <3>2
    <3> QED BY <3>3 DEF c
  <2> QED BY <2>7
<1> HIDE DEF A
<1>4. 0 .. m \subseteq A
  BY <1>2, <1>3, IntervalInduction
<1> QED BY <1>4 DEF A, u, w

\* A sum is a number.
LEMMA SumIs ==
    ASSUME NEW s \in Seq(Int)
    PROVE  SumOf(s) \in Int /\ (s = <<>> => SumOf(s) = 0)
BY SumsFollow DEF SumOf

\* The sum of two sequences, one after the other.
LEMMA SumConcat ==
    ASSUME NEW s \in Seq(Int), NEW t \in Seq(Int)
    PROVE  SumOf(s \o t) = SumOf(s) + SumOf(t)
<1> DEFINE both == s \o t
           n == Len(s)
           m == Len(t)
<1>1. /\ both \in Seq(Int) /\ Len(both) = n + m /\ n \in Nat /\ m \in Nat
      /\ \A i \in 1 .. n : both[0 + i] = 1 * s[i]
      /\ \A i \in 1 .. m : both[n + i] = 1 * t[i]
  OBVIOUS
<1> HIDE DEF both
<1>2. Sums(both)[0 + n] = Sums(both)[0] + 1 * Sums(s)[n]
  <2>0. 0 \in Nat /\ 1 \in Int /\ n <= Len(s) /\ 0 + n <= Len(both)
    BY <1>1
  <2>1. \A i \in 0 .. n : Sums(both)[0 + i] = Sums(both)[0] + 1 * Sums(s)[i]
    BY <1>1, <2>0, SumsAgree, Zenon
  <2> QED BY <1>1, <2>1
<1>3. Sums(both)[n + m] = Sums(both)[n] + 1 * Sums(t)[m]
  <2>0. 1 \in Int /\ m <= Len(t) /\ n + m <= Len(both)
    BY <1>1
  <2>1. \A i \in 0 .. m : Sums(both)[n + i] = Sums(both)[n] + 1 * Sums(t)[i]
    BY <1>1, <2>0, SumsAgree, Zenon
  <2> QED BY <1>1, <2>1
<1>4. Sums(both)[0] = 0 /\ Sums(s)[n] \in Int /\ Sums(t)[m] \in Int
  <2>1. Sums(both)[0] = 0 /\ Sums(s) \in [0 .. n -> Int] /\ Sums(t) \in [0 .. m -> Int]
    BY <1>1, SumsFollow, Zenon
  <2>2. n \in 0 .. n /\ m \in 0 .. m
    BY <1>1
  <2> HIDE DEF n, m
  <2> QED BY <2>1, <2>2
<1> HIDE DEF n, m
<1>5. Sums(both)[n + m] = Sums(s)[n] + Sums(t)[m]
  BY <1>1, <1>2, <1>3, <1>4
<1> QED BY <1>1, <1>5 DEF SumOf, n, m, both

\* A sum whose numbers are all multiplied.
LEMMA SumScale ==
    ASSUME NEW s \in Seq(Int), NEW t \in Seq(Int), NEW k \in Int, Len(t) = Len(s),
           \A i \in 1 .. Len(s) : t[i] = k * s[i]
    PROVE  SumOf(t) = k * SumOf(s)
<1> DEFINE n == Len(s)
<1>1. n \in Nat /\ Sums(t)[0] = 0 /\ Sums(s)[n] \in Int /\ k * Sums(s)[n] \in Int
  BY SumsFollow
<1>2. \A i \in 0 .. n : Sums(t)[0 + i] = Sums(t)[0] + k * Sums(s)[i]
  <2>1. 0 \in Nat /\ 0 + n <= Len(t) /\ n <= Len(s) /\ \A i \in 1 .. n : t[0 + i] = k * s[i]
    BY <1>1
  <2> QED BY <1>1, <2>1, SumsAgree
<1>3. Sums(t)[n] = k * Sums(s)[n]
  BY <1>1, <1>2
<1> QED BY <1>3 DEF SumOf

\* The sum of one number.
LEMMA SumOne == ASSUME NEW x \in Int PROVE SumOf(<<x>>) = x
<1>1. <<x>> \in Seq(Int) /\ Len(<<x>>) = 1 /\ <<x>>[1] = x
  OBVIOUS
<1> DEFINE s == <<x>>
<1> HIDE DEF s
<1>2. s \in Seq(Int) /\ Len(s) = 1 /\ s[1] = x
  BY <1>1 DEF s
<1>3. Sums(s)[0] = 0 /\ \A i \in 1 .. Len(s) : Sums(s)[i] = Sums(s)[i - 1] + s[i]
  BY <1>2, SumsFollow
<1> QED BY <1>2, <1>3 DEF SumOf, s

\* The sum with one more number.
LEMMA SumAppend == \A s \in Seq(Int) : \A x \in Int : SumOf(Append(s, x)) = SumOf(s) + x
<1> TAKE s \in Seq(Int)
<1> TAKE x \in Int
<1>1. <<x>> \in Seq(Int) /\ Append(s, x) = s \o <<x>>
  OBVIOUS
<1>2. SumOf(s \o <<x>>) = SumOf(s) + SumOf(<<x>>)
  BY <1>1, SumConcat
<1> QED BY <1>1, <1>2, SumOne

\* The sum of two numbers.
LEMMA SumTwo ==
    \A s \in Seq(Int) : Len(s) = 2 => SumOf(s) = s[1] + s[2]
<1> TAKE s \in Seq(Int)
<1> HAVE Len(s) = 2
<1> DEFINE g == Sums(s)
<1>1. g[0] = 0 /\ \A i \in 1 .. Len(s) : g[i] = g[i - 1] + s[i]
  BY SumsFollow
<1> HIDE DEF g
<1>2. s[1] \in Int /\ s[2] \in Int
  OBVIOUS
<1>3. g[1] = g[0] + s[1] /\ g[2] = g[1] + s[2]
  BY <1>1
<1> QED BY <1>1, <1>2, <1>3 DEF SumOf, g

\* The sum of a sequence of equal numbers.
LEMMA SumConstant ==
    ASSUME NEW s \in Seq(Int), NEW x \in Int, \A i \in 1 .. Len(s) : s[i] = x
    PROVE  SumOf(s) = Len(s) * x
<1> DEFINE n == Len(s)
           g == Sums(s)
<1>1. /\ n \in Nat /\ g \in [0 .. n -> Int] /\ g[0] = 0
      /\ \A i \in 1 .. n : g[i] = g[i - 1] + x
  BY SumsFollow
<1> HIDE DEF g, n
<1> DEFINE A == {i \in 0 .. n : g[i] = i * x}
<1>2. 0 \in A
  BY <1>1
<1>3. ASSUME NEW i \in 0 + 1 .. n, i - 1 \in A PROVE i \in A
  <2>1. g[i] = (i - 1) * x + x
    BY <1>1, <1>3
  <2>2. (i - 1) * x + x = i * x
    OBVIOUS
  <2> QED BY <2>1, <2>2
<1> HIDE DEF A
<1>4. 0 .. n \subseteq A
  BY <1>1, <1>2, <1>3, IntervalInduction
<1> QED BY <1>1, <1>4 DEF A, SumOf, n, g
=============================================================================
