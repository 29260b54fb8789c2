------------------------- MODULE ExperimentProofs ------------------------
(* What is true of every experiment that load_config accepts, whatever its  *)
(* parameters, constraints and objectives, and of the scenarios that a run  *)
(* of it pins.  The sums of the scores are recursive over a set, and the    *)
(* steps of the search over the round: a set of natural numbers that holds  *)
(* 0 and every successor (Induct), or of subsets that grows element by      *)
(* element (SubsetInduct), takes the place of induction over a predicate.   *)
EXTENDS AcceptedExperiment, ScenarioPin, FiniteSetTheorems, WellFoundedInduction,
        TLAPS

----------------------------------------------------------------------------
\* Numbers

\* A set of natural numbers that is not empty has a least element.
LEMMA LeastElement ==
    ASSUME NEW S, S \subseteq Nat, S # {}
    PROVE  \E x \in S : \A y \in S : x <= y
<1>. DEFINE Less == {ss \in Nat \X Nat : ss[1] < ss[2]}
<1>1. IsWellFoundedOn(Less, Nat)
  BY NatLessThanWellFounded, Zenon DEF OpToRel
<1>2. PICK x \in S : \A y \in S : <<y, x>> \notin Less
  BY <1>1, WFMin, Zenon
<1>3. ASSUME NEW y \in S PROVE ~(y < x)
  <2>1. <<y, x>> \in Nat \X Nat /\ <<y, x>>[1] = y /\ <<y, x>>[2] = x
    OBVIOUS
  <2>. QED
    BY <1>2, <2>1, Zenon
<1>. QED
  BY <1>3

\* Induction, for a set of natural numbers in place of a predicate.
LEMMA Induct ==
    ASSUME NEW S, 0 \in S, \A n \in Nat : n \in S => n + 1 \in S
    PROVE  \A n \in Nat : n \in S
<1>. SUFFICES ASSUME Nat \ S # {} PROVE FALSE
  OBVIOUS
<1>1. PICK x \in Nat \ S : \A y \in Nat \ S : x <= y
  BY LeastElement
<1>2. x # 0 /\ x - 1 \in Nat /\ (x - 1) + 1 = x /\ ~(x <= x - 1)
  BY <1>1
<1>3. x - 1 \notin S
  BY <1>1, <1>2
<1>. QED
  BY <1>1, <1>2, <1>3

\* Multiplication by a positive number keeps the order,
LEMMA TimesMonotone == \A d \in Nat \ {0}, x, y \in Int : x <= y => d * x <= d * y
  OBVIOUS
\* strictly.
LEMMA TimesStrict == \A d \in Nat \ {0}, x, y \in Int : x < y => d * x + d <= d * y
<1>. SUFFICES ASSUME NEW d \in Nat \ {0}, NEW x \in Int, NEW y \in Int, x < y
             PROVE d * x + d <= d * y
  OBVIOUS
<1>1. x + 1 \in Int /\ x + 1 <= y
  OBVIOUS
<1>2. d * (x + 1) <= d * y
  BY <1>1, TimesMonotone
<1>3. d * (x + 1) = d * x + d
  OBVIOUS
<1>. QED
  BY <1>2, <1>3

----------------------------------------------------------------------------
\* Rounding

\* RoundDiv is the nearest integer, and an even one half way between two.
LEMMA RoundNearest ==
    ASSUME NEW n \in Int, NEW d \in Nat \ {0}
    PROVE  LET r == Search!RoundDiv(n, d) IN
           /\ r \in Int
           /\ d * (2 * r - 1) <= 2 * n /\ 2 * n <= d * (2 * r + 1)
           /\ (2 * n = d * (2 * r + 1) \/ 2 * n = d * (2 * r - 1)) => r % 2 = 0
<1>. DEFINE q == n \div d
           s == n % d
<1>1. q \in Int /\ s \in 0..(d - 1) /\ n = d * q + s
  OBVIOUS
<1>2. d * (2 * q - 1) = 2 * (d * q) - d /\ d * (2 * q + 1) = 2 * (d * q) + d
      /\ d * (2 * (q + 1) - 1) = 2 * (d * q) + d /\ d * (2 * (q + 1) + 1) = 2 * (d * q) + 3 * d
  OBVIOUS
<1>3. Search!RoundDiv(n, d) = IF 2 * s > d \/ (2 * s = d /\ q % 2 = 1) THEN q + 1 ELSE q
  BY DEF Search!RoundDiv
<1>. HIDE DEF q, s
<1>4. d * q \in Int
  BY <1>1
<1>. DEFINE e == d * q
<1>5. e \in Int /\ n = e + s /\ 2 * n = 2 * e + 2 * s
  BY <1>1, <1>4
<1>. DEFINE r == Search!RoundDiv(n, d)
<1>6. CASE 2 * s > d \/ (2 * s = d /\ q % 2 = 1)
  <2>1. r = q + 1
    BY <1>3, <1>6
  <2>2. d * (2 * r - 1) = 2 * e + d /\ d * (2 * r + 1) = 2 * e + 3 * d
    BY <2>1, <1>2
  <2>. HIDE DEF e, r
  <2>3. 2 * e + d <= 2 * n /\ 2 * n < 2 * e + 3 * d
    BY <1>5, <1>6, <1>1
  <2>4. 2 * n = 2 * e + d => (q + 1) % 2 = 0
    <3>1. 2 * n = 2 * e + d => 2 * s = d
      BY <1>5, <1>1
    <3>2. q % 2 = 1 => (q + 1) % 2 = 0
      BY <1>1
    <3>. QED
      BY <1>6, <3>1, <3>2, <1>1
  <2>5. r \in Int
    BY <2>1, <1>1
  <2>. QED
    BY <2>1, <2>2, <2>3, <2>4, <2>5 DEF r
<1>7. CASE ~(2 * s > d \/ (2 * s = d /\ q % 2 = 1))
  <2>1. r = q
    BY <1>3, <1>7
  <2>2. d * (2 * r - 1) = 2 * e - d /\ d * (2 * r + 1) = 2 * e + d
    BY <2>1, <1>2
  <2>. HIDE DEF e, r
  <2>3. 2 * e - d < 2 * n /\ 2 * n <= 2 * e + d
    BY <1>5, <1>7, <1>1
  <2>4. 2 * n = 2 * e + d => q % 2 = 0
    <3>1. 2 * n = 2 * e + d => 2 * s = d
      BY <1>5, <1>1
    <3>2. q % 2 = 1 \/ q % 2 = 0
      BY <1>1
    <3>. QED
      BY <1>7, <3>1, <3>2, <1>1
  <2>5. r \in Int
    BY <2>1, <1>1
  <2>. QED
    BY <2>1, <2>2, <2>3, <2>4, <2>5 DEF r
<1>. QED
  BY <1>6, <1>7

\* A quotient that is no nearer to k + 1 than to k is rounded to k at most.
LEMMA RoundAtMost ==
    ASSUME NEW n \in Int, NEW d \in Nat \ {0}, NEW k \in Int,
           2 * n <= d * (2 * k + 1), 2 * n = d * (2 * k + 1) => k % 2 = 0
    PROVE  Search!RoundDiv(n, d) <= k
<1>. DEFINE r == Search!RoundDiv(n, d)
<1>1. /\ r \in Int /\ d * (2 * r - 1) <= 2 * n
      /\ 2 * n = d * (2 * r - 1) => r % 2 = 0
  BY RoundNearest
<1>. HIDE DEF r
<1>. SUFFICES ASSUME k + 1 <= r PROVE FALSE
  BY <1>1 DEF r
<1>2. 2 * k + 1 \in Int /\ 2 * r - 1 \in Int
  BY <1>1
<1>3. CASE r = k + 1
  <2>1. 2 * r - 1 = 2 * k + 1
    BY <1>3
  <2>2. d * (2 * r - 1) = 2 * n /\ 2 * n = d * (2 * k + 1)
    BY <2>1, <1>1, <1>2
  <2>3. r % 2 = 0 /\ k % 2 = 0
    BY <2>2, <1>1
  <2>. QED
    BY <2>3, <1>3
<1>4. CASE k + 1 < r
  <2>1. 2 * k + 1 < 2 * r - 1
    BY <1>4, <1>1
  <2>2. d * (2 * k + 1) + d <= d * (2 * r - 1)
    BY <2>1, <1>2, TimesStrict
  <2>3. d * (2 * k + 1) \in Int /\ d * (2 * r - 1) \in Int
    BY <1>2
  <2>. QED
    BY <2>2, <2>3, <1>1
<1>. QED
  BY <1>3, <1>4, <1>1

\* A multiple of d is divided without rest,
LEMMA Multiple ==
    ASSUME NEW d \in Nat \ {0}, NEW k \in Int
    PROVE  (d * k) \div d = k /\ (d * k) % d = 0
<1>. DEFINE q == (d * k) \div d
           s == (d * k) % d
<1>1. d * k \in Int
  OBVIOUS
<1>2. q \in Int /\ s \in 0..(d - 1) /\ d * k = d * q + s
  BY <1>1
<1>. HIDE DEF q, s
<1>3. q < k => d * q + d <= d * k
  BY <1>2, TimesStrict
<1>4. k < q => d * k + d <= d * q
  BY <1>2, TimesStrict
<1>5. d * q \in Int
  BY <1>2
<1>6. q = k
  BY <1>1, <1>2, <1>3, <1>4, <1>5
<1>. QED
  BY <1>1, <1>2, <1>5, <1>6 DEF q, s

\* and rounded to what it is a multiple of.
LEMMA RoundExact ==
    ASSUME NEW d \in Nat \ {0}, NEW k \in Int
    PROVE  Search!RoundDiv(d * k, d) = k
BY Multiple DEF Search!RoundDiv

\* More than a half is rounded to something, and nothing to nothing less.
LEMMA RoundPositive ==
    ASSUME NEW n \in Int, NEW d \in Nat \ {0}
    PROVE  /\ 2 * n > d => Search!RoundDiv(n, d) >= 1
           /\ n >= 0 => Search!RoundDiv(n, d) >= 0
<1>. DEFINE r == Search!RoundDiv(n, d)
<1>1. r \in Int /\ 2 * n <= d * (2 * r + 1)
  BY RoundNearest
<1>. HIDE DEF r
<1>2. r <= 0 => d * (2 * r + 1) <= d * 1
  BY <1>1, TimesMonotone
<1>3. r <= -1 => d * (2 * r + 1) <= d * (-1)
  BY <1>1, TimesMonotone
<1>4. d * (2 * r + 1) \in Int /\ d * 1 = d /\ d * (-1) = -d
  BY <1>1
<1>. QED
  BY <1>1, <1>2, <1>3, <1>4 DEF r

\* A quotient that shrinks is not rounded to more.
LEMMA RoundShrinks ==
    ASSUME NEW n \in Nat, NEW d \in Nat \ {0}, NEW a \in Nat \ {0}, NEW b \in Nat \ {0},
           a <= b
    PROVE  Search!RoundDiv(n * a, d * b) <= Search!RoundDiv(n, d)
<1>. DEFINE k == Search!RoundDiv(n, d)
<1>1. /\ k \in Int /\ 2 * n <= d * (2 * k + 1)
      /\ 2 * n = d * (2 * k + 1) => k % 2 = 0
  BY RoundNearest
<1>2. k >= 0
  BY RoundPositive
<1>. HIDE DEF k
<1>. DEFINE x == d * (2 * k + 1)
<1>3. x \in Nat \ {0}
  <2>1. 2 * k + 1 \in Nat /\ 1 <= 2 * k + 1
    BY <1>1, <1>2
  <2>2. d * 1 <= d * (2 * k + 1)
    BY <2>1, TimesMonotone
  <2>. QED
    BY <2>1, <2>2
<1>4. a * x <= b * x
  <2>1. x * a <= x * b
    BY <1>3, TimesMonotone
  <2>. HIDE DEF x
  <2>. QED
    BY <2>1, <1>3
<1>5. a * (2 * n) <= a * x
  BY <1>1, <1>3, TimesMonotone
<1>6. 2 * n < x => a * (2 * n) + a <= a * x
  BY <1>1, <1>3, TimesStrict
<1>7. 2 * (n * a) = a * (2 * n) /\ (d * b) * (2 * k + 1) = b * x
  BY <1>1
<1>8. /\ n * a \in Int /\ d * b \in Nat \ {0}
      /\ a * x \in Int /\ b * x \in Int /\ a * (2 * n) \in Int
  BY <1>3
<1>9. 2 * (n * a) <= (d * b) * (2 * k + 1)
  BY <1>4, <1>5, <1>7, <1>8
<1>10. 2 * (n * a) = (d * b) * (2 * k + 1) => k % 2 = 0
  <2>. SUFFICES ASSUME 2 * (n * a) = (d * b) * (2 * k + 1) PROVE k % 2 = 0
    OBVIOUS
  <2>1. a * (2 * n) = b * x
    BY <1>7
  <2>. HIDE DEF x
  <2>2. ~(2 * n < x)
    BY <2>1, <1>4, <1>6, <1>8
  <2>. QED
    BY <2>2, <1>1, <1>3 DEF x
<1>11. n * a \in Int /\ d * b \in Nat \ {0} /\ k \in Int
  BY <1>8, <1>1
<1>. QED
  BY <1>9, <1>10, <1>11, RoundAtMost DEF k

\* _normalize moves a value by at most half a tick, onto a tick.
LEMMA NormalizeFloat ==
    ASSUME NEW v \in Int
    PROVE  LET m == Search!Normalize("float", v) IN
           /\ m \in Int /\ m % Grain = 0
           /\ 2 * m - Grain <= 2 * v /\ 2 * v <= 2 * m + Grain
           /\ v % Grain = 0 => m = v
<1>. DEFINE r == Search!RoundDiv(v, Grain)
           m == Search!Normalize("float", v)
<1>0. Grain \in Nat \ {0}
  BY ScoreAssumption
<1>1. r \in Int /\ Grain * (2 * r - 1) <= 2 * v /\ 2 * v <= Grain * (2 * r + 1)
  BY <1>0, RoundNearest
<1>2. m = Grain * r
  BY DEF Search!Normalize
<1>3. v % Grain = 0 => r = v \div Grain /\ v = Grain * (v \div Grain)
  <2>1. v % Grain = 0 => v = Grain * (v \div Grain) /\ v \div Grain \in Int
    BY <1>0
  <2>. QED
    BY <2>1, <1>0, RoundExact
<1>. HIDE DEF m, r
<1>4. Grain * (2 * r - 1) = 2 * (Grain * r) - Grain
      /\ Grain * (2 * r + 1) = 2 * (Grain * r) + Grain
  BY <1>0, <1>1
<1>5. m \in Int
  BY <1>0, <1>1, <1>2
<1>6. m % Grain = 0
  BY <1>0, <1>1, <1>2, Multiple
<1>. QED
  BY <1>1, <1>2, <1>3, <1>4, <1>5, <1>6 DEF m

----------------------------------------------------------------------------
\* Powers

\* f is the table of the powers of b up to the n-th.
IsPower(f, b, n) == f = [i \in 0..n |-> IF i = 0 THEN 1 ELSE b * f[i - 1]]

\* Two tables of powers agree where both are defined,
LEMMA PowerUnique ==
    ASSUME NEW b, NEW n \in Nat, NEW m \in Nat, NEW f, NEW g,
           IsPower(f, b, n), IsPower(g, b, m)
    PROVE  \A i \in Nat : i <= n /\ i <= m => f[i] = g[i]
<1>. DEFINE S == {i \in Nat : i <= n /\ i <= m => f[i] = g[i]}
<1>1. \A i \in 0..n : f[i] = IF i = 0 THEN 1 ELSE b * f[i - 1]
  BY DEF IsPower
<1>2. \A i \in 0..m : g[i] = IF i = 0 THEN 1 ELSE b * g[i - 1]
  BY DEF IsPower
<1>3. 0 \in S
  BY <1>1, <1>2
<1>4. ASSUME NEW i \in Nat, i \in S PROVE i + 1 \in S
  <2>. SUFFICES ASSUME i + 1 <= n, i + 1 <= m PROVE f[i + 1] = g[i + 1]
    OBVIOUS
  <2>1. i + 1 \in 0..n /\ i + 1 \in 0..m /\ i + 1 # 0 /\ (i + 1) - 1 = i
    OBVIOUS
  <2>2. f[i] = g[i]
    BY <1>4
  <2>. QED
    BY <2>1, <2>2, <1>1, <1>2
<1>. HIDE DEF S
<1>5. \A i \in Nat : i \in S
  BY <1>3, <1>4, Induct
<1>. QED
  BY <1>5 DEF S

\* and there is one of any length.
LEMMA PowerExists ==
    ASSUME NEW b \in Nat \ {0}, NEW n \in Nat
    PROVE  \E f \in [0..n -> Nat \ {0}] : IsPower(f, b, n)
<1>. DEFINE S == {i \in Nat : \E f \in [0..i -> Nat \ {0}] : IsPower(f, b, i)}
<1>1. 0 \in S
  <2>. DEFINE f == [i \in 0..0 |-> 1]
  <2>1. f \in [0..0 -> Nat \ {0}]
    OBVIOUS
  <2>2. \A i \in 0..0 : i = 0
    OBVIOUS
  <2>3. IsPower(f, b, 0)
    BY <2>2 DEF IsPower
  <2>. QED
    BY <2>1, <2>3
<1>2. ASSUME NEW i \in Nat, i \in S PROVE i + 1 \in S
  <2>1. PICK f \in [0..i -> Nat \ {0}] : IsPower(f, b, i)
    BY <1>2
  <2>. DEFINE g == [j \in 0..(i + 1) |-> IF j = i + 1 THEN b * f[i] ELSE f[j]]
  <2>2. b * f[i] \in Nat \ {0}
    BY <2>1
  <2>3. g \in [0..(i + 1) -> Nat \ {0}]
    BY <2>1, <2>2
  <2>4. ASSUME NEW j \in 0..(i + 1)
        PROVE  g[j] = IF j = 0 THEN 1 ELSE b * g[j - 1]
    <3>1. \A k \in 0..i : f[k] = IF k = 0 THEN 1 ELSE b * f[k - 1]
      BY <2>1 DEF IsPower
    <3>2. CASE j = i + 1
      <4>1. j # 0 /\ j - 1 = i /\ j - 1 # i + 1 /\ j - 1 \in 0..(i + 1)
        BY <3>2
      <4>. QED
        BY <4>1, <3>2
    <3>3. CASE j # i + 1
      <4>1. j \in 0..i /\ (j # 0 => j - 1 \in 0..(i + 1) /\ j - 1 # i + 1)
        BY <3>3
      <4>. QED
        BY <4>1, <3>1, <3>3
    <3>. QED
      BY <3>2, <3>3
  <2>5. g = [j \in 0..(i + 1) |-> g[j]]
    OBVIOUS
  <2>. HIDE DEF g
  <2>6. IsPower(g, b, i + 1)
    BY <2>4, <2>5 DEF IsPower
  <2>. QED
    BY SMTT(60), <2>3, <2>6
<1>. HIDE DEF S
<1>3. n \in S
  BY <1>1, <1>2, Induct
<1>. QED
  BY <1>3 DEF S

\* The powers of a positive number.
LEMMA Powers ==
    ASSUME NEW b \in Nat \ {0}, NEW n \in Nat
    PROVE  /\ Search!Power(b, n) \in Nat \ {0}
           /\ Search!Power(b, 0) = 1
           /\ Search!Power(b, n + 1) = b * Search!Power(b, n)
<1>. DEFINE p(m) == CHOOSE f : IsPower(f, b, m)
<1>1. ASSUME NEW m \in Nat
      PROVE  /\ IsPower(p(m), b, m) /\ Search!Power(b, m) = p(m)[m]
             /\ p(m) \in [0..m -> Nat \ {0}]
  <2>1. PICK f \in [0..m -> Nat \ {0}] : IsPower(f, b, m)
    BY PowerExists
  <2>2. IsPower(p(m), b, m)
    BY <2>1, Zenon
  <2>3. Search!Power(b, m) = p(m)[m]
    BY Zenon DEF Search!Power, IsPower
  <2>. HIDE DEF p
  <2>4. DOMAIN p(m) = 0..m /\ p(m) = [i \in 0..m |-> p(m)[i]]
    BY <2>2 DEF IsPower
  <2>5. \A i \in 0..m : p(m)[i] = f[i]
    BY <2>1, <2>2, PowerUnique
  <2>6. p(m) \in [0..m -> Nat \ {0}]
    BY <2>1, <2>4, <2>5
  <2>. QED
    BY <2>2, <2>3, <2>6
<1>. HIDE DEF p
<1>2. p(n)[n] \in Nat \ {0}
  BY <1>1
<1>3. p(0)[0] = 1
  <2>1. IsPower(p(0), b, 0)
    BY <1>1
  <2>. QED
    BY <2>1 DEF IsPower
<1>4. p(n + 1)[n + 1] = b * p(n)[n]
  <2>1. IsPower(p(n), b, n) /\ IsPower(p(n + 1), b, n + 1) /\ n + 1 \in Nat
    BY <1>1
  <2>2. p(n + 1)[n] = p(n)[n]
    <3>1. n <= n + 1
      OBVIOUS
    <3>. QED
      BY <2>1, <3>1, PowerUnique
  <2>3. \A i \in 0..(n + 1) : p(n + 1)[i] = IF i = 0 THEN 1 ELSE b * p(n + 1)[i - 1]
    BY <2>1 DEF IsPower
  <2>4. n + 1 \in 0..(n + 1) /\ n + 1 # 0 /\ (n + 1) - 1 = n
    OBVIOUS
  <2>. QED
    BY <2>2, <2>3, <2>4
<1>5. Search!Power(b, n) = p(n)[n]
  BY <1>1
<1>6. Search!Power(b, 0) = p(0)[0]
  BY <1>1
<1>7. Search!Power(b, n + 1) = p(n + 1)[n + 1]
  <2>1. n + 1 \in Nat
    OBVIOUS
  <2>. QED
    BY <2>1, <1>1
<1>. QED
  BY <1>2, <1>3, <1>4, <1>5, <1>6, <1>7

----------------------------------------------------------------------------
\* Sums

\* Sums over finite sets, as MapThenSumSet computes them: subset by subset.
Chosen(s) == CHOOSE x \in s : TRUE

\* g adds up w over the subsets of S
Adds(g, w, S) ==
    g = [s \in SUBSET S |->
            IF s = {} THEN 0 ELSE w[Chosen(s)] + g[s \ {Chosen(s)}]]

SumOf(w, S) == (CHOOSE g : Adds(g, w, S))[S]

\* What CHOOSE picks from a set that is not empty is in it.
LEMMA ChosenIn == \A s : s # {} => Chosen(s) \in s
  BY Zenon DEF Chosen

\* Induction over the subsets of a finite set, for a set of subsets in place
\* of a predicate.
LEMMA SubsetInduct ==
    ASSUME NEW S, IsFiniteSet(S), NEW Good, {} \in Good,
           \A s \in SUBSET S : s # {} /\ s \ {Chosen(s)} \in Good => s \in Good
    PROVE  \A s \in SUBSET S : s \in Good
<1>. DEFINE N == {n \in Nat : \A s \in SUBSET S : Cardinality(s) = n => s \in Good}
<1>1. \A s \in SUBSET S : IsFiniteSet(s) /\ Cardinality(s) \in Nat
  BY FS_Subset, FS_CardinalityType
<1>2. 0 \in N
  BY <1>1, FS_EmptySet
<1>3. ASSUME NEW n \in Nat, n \in N PROVE n + 1 \in N
  <2>. SUFFICES ASSUME NEW s \in SUBSET S, Cardinality(s) = n + 1 PROVE s \in Good
    OBVIOUS
  <2>1. s # {}
    BY FS_EmptySet
  <2>2. Chosen(s) \in s
    BY <2>1, ChosenIn
  <2>3. Cardinality(s \ {Chosen(s)}) = n
    BY <2>2, <1>1, FS_RemoveElement
  <2>4. s \ {Chosen(s)} \in SUBSET S
    OBVIOUS
  <2>5. s \ {Chosen(s)} \in Good
    BY <2>3, <2>4, <1>3
  <2>. QED
    BY <2>1, <2>5
<1>. HIDE DEF N
<1>4. \A n \in Nat : n \in N
  BY <1>2, <1>3, Induct
<1>. QED
  BY <1>1, <1>4 DEF N

\* Two functions that add up agree,
LEMMA AddsUnique ==
    ASSUME NEW S, IsFiniteSet(S), NEW w, NEW g, NEW h, NEW T \in SUBSET S,
           Adds(g, w, S), Adds(h, w, T)
    PROVE  \A s \in SUBSET T : g[s] = h[s]
<1>. DEFINE Good == {s \in SUBSET T : g[s] = h[s]}
<1>1. \A s \in SUBSET S : g[s] = IF s = {} THEN 0 ELSE w[Chosen(s)] + g[s \ {Chosen(s)}]
  BY Zenon DEF Adds
<1>2. \A s \in SUBSET T : h[s] = IF s = {} THEN 0 ELSE w[Chosen(s)] + h[s \ {Chosen(s)}]
  BY Zenon DEF Adds
<1>3. {} \in Good
  BY <1>1, <1>2
<1>4. ASSUME NEW s \in SUBSET T, s # {}, s \ {Chosen(s)} \in Good PROVE s \in Good
  BY <1>1, <1>2, <1>4
<1>5. IsFiniteSet(T)
  BY FS_Subset
<1>. HIDE DEF Good
<1>6. \A s \in SUBSET T : s \in Good
  BY <1>3, <1>4, <1>5, SubsetInduct
<1>. QED
  BY <1>6 DEF Good

\* and there is one for every finite set of numbers.
LEMMA AddsExists ==
    ASSUME NEW S, IsFiniteSet(S), NEW w, \A x \in S : w[x] \in Int
    PROVE  \E g \in [SUBSET S -> Int] : Adds(g, w, S)
<1>. DEFINE Upto(n) == {s \in SUBSET S : Cardinality(s) <= n}
           Part(g, n) ==
              \A s \in Upto(n) :
                 g[s] = IF s = {} THEN 0 ELSE w[Chosen(s)] + g[s \ {Chosen(s)}]
           N == {n \in Nat : \E g \in [Upto(n) -> Int] : Part(g, n)}
<1>1. \A s \in SUBSET S : IsFiniteSet(s) /\ Cardinality(s) \in Nat
  BY FS_Subset, FS_CardinalityType
<1>2. 0 \in N
  <2>. DEFINE g == [s \in Upto(0) |-> 0]
  <2>1. \A s \in Upto(0) : s = {}
    BY <1>1, FS_EmptySet
  <2>2. g \in [Upto(0) -> Int] /\ Part(g, 0)
    BY <2>1
  <2>. QED
    BY <2>2
<1>3. ASSUME NEW n \in Nat, n \in N PROVE n + 1 \in N
  <2>1. PICK g \in [Upto(n) -> Int] : Part(g, n)
    BY <1>3
  <2>. DEFINE h == [s \in Upto(n + 1) |->
                     IF s = {} THEN 0 ELSE w[Chosen(s)] + g[s \ {Chosen(s)}]]
  <2>2. ASSUME NEW s \in Upto(n + 1), s # {}
        PROVE  /\ s \ {Chosen(s)} \in Upto(n) /\ s \ {Chosen(s)} \in Upto(n + 1)
               /\ Chosen(s) \in S
    <3>1. Chosen(s) \in s
      BY <2>2, ChosenIn
    <3>2. Cardinality(s \ {Chosen(s)}) = Cardinality(s) - 1
      BY <3>1, <1>1, FS_RemoveElement
    <3>3. Cardinality(s) \in Nat /\ Cardinality(s) <= n + 1
      BY <1>1
    <3>4. Cardinality(s \ {Chosen(s)}) <= n /\ Cardinality(s \ {Chosen(s)}) <= n + 1
      BY <3>2, <3>3
    <3>. QED
      BY <3>1, <3>4
  <2>3. h \in [Upto(n + 1) -> Int]
    <3>. SUFFICES ASSUME NEW s \in Upto(n + 1)
                  PROVE  (IF s = {} THEN 0 ELSE w[Chosen(s)] + g[s \ {Chosen(s)}]) \in Int
      BY Zenon
    <3>1. CASE s # {}
      <4>1. w[Chosen(s)] \in Int
        BY <2>2, <3>1
      <4>2. g[s \ {Chosen(s)}] \in Int
        BY <2>1, <2>2, <3>1
      <4>. QED
        BY <4>1, <4>2
    <3>. QED
      BY <3>1
  <2>4. ASSUME NEW s \in Upto(n) PROVE s \in Upto(n + 1) /\ h[s] = g[s]
    <3>1. s \in Upto(n + 1)
      <4>1. Cardinality(s) \in Nat /\ Cardinality(s) <= n
        BY <1>1
      <4>. QED
        BY <4>1
    <3>2. g[s] = IF s = {} THEN 0 ELSE w[Chosen(s)] + g[s \ {Chosen(s)}]
      BY <2>1
    <3>. HIDE DEF Upto
    <3>. QED
      BY <3>1, <3>2
  <2>5. Part(h, n + 1)
    <3>. SUFFICES ASSUME NEW s \in Upto(n + 1)
                  PROVE h[s] = IF s = {} THEN 0 ELSE w[Chosen(s)] + h[s \ {Chosen(s)}]
      OBVIOUS
    <3>1. h[s] = IF s = {} THEN 0 ELSE w[Chosen(s)] + g[s \ {Chosen(s)}]
      BY Zenon
    <3>2. s # {} => h[s \ {Chosen(s)}] = g[s \ {Chosen(s)}]
      BY <2>2, <2>4
    <3>. HIDE DEF h, Upto
    <3>. QED
      BY <3>1, <3>2
  <2>. HIDE DEF h, Upto, Part
  <2>. QED
    BY <2>3, <2>5
<1>. DEFINE c == Cardinality(S)
<1>4. c \in Nat /\ Upto(c) = SUBSET S
  <2>1. c \in Nat
    BY FS_CardinalityType
  <2>2. \A s \in SUBSET S : Cardinality(s) <= c
    BY FS_Subset
  <2>. QED
    BY <2>1, <2>2
<1>. HIDE DEF N, Upto, Part, c
<1>5. c \in N
  BY <1>2, <1>3, <1>4, Induct
<1>6. PICK g \in [SUBSET S -> Int] : Part(g, c)
  BY <1>4, <1>5 DEF N
<1>7. \A s \in SUBSET S :
         g[s] = IF s = {} THEN 0 ELSE w[Chosen(s)] + g[s \ {Chosen(s)}]
  BY <1>4, <1>6 DEF Part
<1>8. Adds(g, w, S)
  <2>1. g = [s \in SUBSET S |-> g[s]]
    BY <1>6
  <2>. QED
    BY <2>1, <1>7 DEF Adds
<1>. QED
  BY <1>8

\* A sum is computed by some function that adds up.
LEMMA SumIs ==
    ASSUME NEW S, IsFiniteSet(S), NEW w, \A x \in S : w[x] \in Int
    PROVE  \E g \in [SUBSET S -> Int] : Adds(g, w, S) /\ SumOf(w, S) = g[S]
<1>1. PICK g \in [SUBSET S -> Int] : Adds(g, w, S)
  BY AddsExists
<1>. DEFINE h == CHOOSE f : Adds(f, w, S)
<1>2. Adds(h, w, S) /\ SumOf(w, S) = h[S]
  BY <1>1, Zenon DEF SumOf
<1>. HIDE DEF h
<1>3. S \in SUBSET S
  OBVIOUS
<1>4. h[S] = g[S]
  BY <1>1, <1>2, <1>3, AddsUnique
<1>. QED
  BY <1>1, <1>2, <1>4

\* One step of the addition.
LEMMA AddsStep ==
    ASSUME NEW S, NEW w, NEW g, Adds(g, w, S)
    PROVE  /\ g[{}] = 0
           /\ \A s \in SUBSET S : s # {} =>
                 /\ Chosen(s) \in s /\ s \ {Chosen(s)} \in SUBSET S
                 /\ g[s] = w[Chosen(s)] + g[s \ {Chosen(s)}]
<1>1. \A s \in SUBSET S : g[s] = IF s = {} THEN 0 ELSE w[Chosen(s)] + g[s \ {Chosen(s)}]
  BY Zenon DEF Adds
<1>2. {} \in SUBSET S
  OBVIOUS
<1>. QED
  BY <1>1, <1>2, ChosenIn

\* The sum of a function that is nowhere larger is not larger.
LEMMA SumMonotone ==
    ASSUME NEW S, IsFiniteSet(S), NEW w, NEW v,
           \A x \in S : w[x] \in Int /\ v[x] \in Int /\ w[x] <= v[x]
    PROVE  SumOf(w, S) <= SumOf(v, S)
<1>1. PICK g \in [SUBSET S -> Int] : Adds(g, w, S) /\ SumOf(w, S) = g[S]
  BY SumIs
<1>2. PICK h \in [SUBSET S -> Int] : Adds(h, v, S) /\ SumOf(v, S) = h[S]
  BY SumIs
<1>. DEFINE Good == {s \in SUBSET S : g[s] <= h[s]}
<1>3. {} \in Good
  BY <1>1, <1>2, AddsStep
<1>4. ASSUME NEW s \in SUBSET S, s # {}, s \ {Chosen(s)} \in Good PROVE s \in Good
  <2>. DEFINE x == Chosen(s)
             t == s \ {x}
  <2>1. x \in S /\ t \in SUBSET S /\ g[s] = w[x] + g[t] /\ h[s] = v[x] + h[t]
    BY <1>1, <1>2, <1>4, AddsStep
  <2>2. g[t] <= h[t]
    BY <1>4
  <2>. HIDE DEF x, t
  <2>3. w[x] \in Int /\ v[x] \in Int /\ w[x] <= v[x]
    BY <2>1
  <2>4. g[t] \in Int /\ h[t] \in Int
    BY <2>1, <1>1, <1>2
  <2>5. g[s] <= h[s]
    BY <2>1, <2>2, <2>3, <2>4
  <2>. QED
    BY <2>5
<1>. HIDE DEF Good
<1>5. \A s \in SUBSET S : s \in Good
  BY <1>3, <1>4, SubsetInduct
<1>. QED
  BY <1>1, <1>2, <1>5 DEF Good

\* A sum of numbers that are not negative is zero only if all of them are.
LEMMA SumNatural ==
    ASSUME NEW S, IsFiniteSet(S), NEW w, \A x \in S : w[x] \in Nat
    PROVE  /\ SumOf(w, S) \in Nat
           /\ SumOf(w, S) = 0 <=> \A x \in S : w[x] = 0
<1>0. \A x \in S : w[x] \in Int
  OBVIOUS
<1>1. PICK g \in [SUBSET S -> Int] : Adds(g, w, S) /\ SumOf(w, S) = g[S]
  BY <1>0, SumIs
<1>. DEFINE Good == {s \in SUBSET S : g[s] >= 0 /\ (g[s] = 0 <=> \A x \in s : w[x] = 0)}
<1>2. {} \in Good
  BY <1>1, AddsStep
<1>3. ASSUME NEW s \in SUBSET S, s # {}, s \ {Chosen(s)} \in Good PROVE s \in Good
  <2>. DEFINE x == Chosen(s)
             t == s \ {x}
  <2>1. x \in s /\ t \in SUBSET S /\ g[s] = w[x] + g[t]
    BY <1>1, <1>3, AddsStep
  <2>2. g[t] >= 0 /\ (g[t] = 0 <=> \A y \in t : w[y] = 0)
    BY <1>3
  <2>3. \A y : y \in s <=> y = x \/ y \in t
    BY <2>1
  <2>. HIDE DEF x, t
  <2>4. w[x] \in Nat /\ g[t] \in Int
    BY <2>1, <1>1
  <2>5. g[s] >= 0 /\ (g[s] = 0 <=> w[x] = 0 /\ g[t] = 0)
    BY <2>1, <2>2, <2>4
  <2>6. g[s] = 0 <=> \A y \in s : w[y] = 0
    BY <2>2, <2>3, <2>5
  <2>. QED
    BY <2>5, <2>6
<1>. HIDE DEF Good
<1>4. \A s \in SUBSET S : s \in Good
  BY <1>2, <1>3, SubsetInduct
<1>. QED
  BY <1>1, <1>4 DEF Good

\* A common factor can be taken out of a sum.
LEMMA SumScaled ==
    ASSUME NEW S, IsFiniteSet(S), NEW k \in Int, NEW w, NEW v,
           \A x \in S : w[x] \in Int /\ v[x] = k * w[x]
    PROVE  SumOf(v, S) = k * SumOf(w, S)
<1>0. \A x \in S : v[x] \in Int
  OBVIOUS
<1>1. PICK g \in [SUBSET S -> Int] : Adds(g, w, S) /\ SumOf(w, S) = g[S]
  BY SumIs
<1>2. PICK h \in [SUBSET S -> Int] : Adds(h, v, S) /\ SumOf(v, S) = h[S]
  BY <1>0, SumIs
<1>. DEFINE Good == {s \in SUBSET S : h[s] = k * g[s]}
<1>3. {} \in Good
  BY <1>1, <1>2, AddsStep
<1>4. ASSUME NEW s \in SUBSET S, s # {}, s \ {Chosen(s)} \in Good PROVE s \in Good
  <2>. DEFINE x == Chosen(s)
             t == s \ {x}
  <2>1. x \in S /\ t \in SUBSET S /\ g[s] = w[x] + g[t] /\ h[s] = v[x] + h[t]
    BY <1>1, <1>2, <1>4, AddsStep
  <2>2. h[t] = k * g[t]
    BY <1>4
  <2>. HIDE DEF x, t
  <2>3. w[x] \in Int /\ v[x] = k * w[x]
    BY <2>1
  <2>4. g[t] \in Int /\ h[t] \in Int
    BY <2>1, <1>1, <1>2
  <2>5. k * (w[x] + g[t]) = k * w[x] + k * g[t]
    BY <2>3, <2>4
  <2>6. h[s] = k * g[s]
    BY <2>1, <2>2, <2>3, <2>4, <2>5
  <2>. QED
    BY <2>6
<1>. HIDE DEF Good
<1>5. \A s \in SUBSET S : s \in Good
  BY <1>3, <1>4, SubsetInduct
<1>. QED
  BY <1>1, <1>2, <1>5 DEF Good

----------------------------------------------------------------------------
\* Scores

\* What each constraint and each objective adds to the score of the metrics m.
Violations(e, m) == [i \in DOMAIN e.constraints |-> Normalized(e.constraints[i], m)]
Reached(o, m) == o.weight * Min({Scale, Max({0, Reward(o, m)})})
Rewards(e, m) == [i \in DOMAIN e.objectives |-> Reached(e.objectives[i], m)]
Weights(e) == [i \in DOMAIN e.objectives |-> e.objectives[i].weight]

\* The total violation of score_metrics is such a sum,
LEMMA TotalViolationIsSum ==
    ASSUME NEW e, NEW m, IsFiniteSet(DOMAIN e.constraints),
           \A i \in DOMAIN e.constraints : Normalized(e.constraints[i], m) \in Int
    PROVE  TotalViolation(e, m) = SumOf(Violations(e, m), DOMAIN e.constraints)
<1>. DEFINE S == DOMAIN e.constraints
           w == Violations(e, m)
           Is(f) == f = [s \in SUBSET S |->
                           IF s = {} THEN 0
                           ELSE Normalized(e.constraints[Chosen(s)], m) + f[s \ {Chosen(s)}]]
           h == CHOOSE f : Is(f)
<1>1. TotalViolation(e, m) = h[S]
  BY Zenon DEF TotalViolation, MapThenSumSet, MapThenFoldSet, Chosen
<1>2. \A x \in S : w[x] = Normalized(e.constraints[x], m)
  BY DEF Violations
<1>3. ASSUME NEW f PROVE Is(f) <=> Adds(f, w, S)
  <2>. HIDE DEF w, S
  <2>1. \A s \in SUBSET S : s # {} => w[Chosen(s)] = Normalized(e.constraints[Chosen(s)], m)
    BY <1>2, ChosenIn
  <2>2. [s \in SUBSET S |-> IF s = {} THEN 0
                            ELSE Normalized(e.constraints[Chosen(s)], m) + f[s \ {Chosen(s)}]]
        = [s \in SUBSET S |-> IF s = {} THEN 0 ELSE w[Chosen(s)] + f[s \ {Chosen(s)}]]
    BY <2>1
  <2>. QED
    BY <2>2, Zenon DEF Adds
<1>4. \A x \in S : w[x] \in Int
  BY <1>2
<1>. HIDE DEF w, S, Is
<1>5. PICK g \in [SUBSET S -> Int] : Adds(g, w, S) /\ SumOf(w, S) = g[S]
  BY <1>4, SumIs DEF S
<1>6. Is(h)
  BY <1>3, <1>5, Zenon
<1>. HIDE DEF h
<1>7. h[S] = g[S]
  <2>1. S \in SUBSET S /\ Adds(h, w, S) /\ Adds(g, w, S)
    BY <1>3, <1>5, <1>6
  <2>. QED
    BY <2>1, AddsUnique DEF S
<1>. QED
  BY <1>1, <1>5, <1>7 DEF w, S

\* so is its objective score,
LEMMA ObjectiveScoreIsSum ==
    ASSUME NEW e, NEW m, IsFiniteSet(DOMAIN e.objectives),
           \A i \in DOMAIN e.objectives : Reached(e.objectives[i], m) \in Int
    PROVE  ObjectiveScore(e, m) = SumOf(Rewards(e, m), DOMAIN e.objectives)
<1>. DEFINE S == DOMAIN e.objectives
           w == Rewards(e, m)
           Is(f) == f = [s \in SUBSET S |->
                           IF s = {} THEN 0
                           ELSE Reached(e.objectives[Chosen(s)], m) + f[s \ {Chosen(s)}]]
           h == CHOOSE f : Is(f)
<1>1. ObjectiveScore(e, m) = h[S]
  BY Zenon DEF ObjectiveScore, Reached, MapThenSumSet, MapThenFoldSet, Chosen
<1>2. \A x \in S : w[x] = Reached(e.objectives[x], m)
  BY DEF Rewards
<1>3. ASSUME NEW f PROVE Is(f) <=> Adds(f, w, S)
  <2>. HIDE DEF w, S
  <2>1. \A s \in SUBSET S : s # {} => w[Chosen(s)] = Reached(e.objectives[Chosen(s)], m)
    BY <1>2, ChosenIn
  <2>2. [s \in SUBSET S |-> IF s = {} THEN 0
                            ELSE Reached(e.objectives[Chosen(s)], m) + f[s \ {Chosen(s)}]]
        = [s \in SUBSET S |-> IF s = {} THEN 0 ELSE w[Chosen(s)] + f[s \ {Chosen(s)}]]
    BY <2>1
  <2>. QED
    BY <2>2, Zenon DEF Adds
<1>4. \A x \in S : w[x] \in Int
  BY <1>2
<1>. HIDE DEF w, S, Is
<1>5. PICK g \in [SUBSET S -> Int] : Adds(g, w, S) /\ SumOf(w, S) = g[S]
  BY <1>4, SumIs DEF S
<1>6. Is(h)
  BY <1>3, <1>5, Zenon
<1>. HIDE DEF h
<1>7. h[S] = g[S]
  <2>1. S \in SUBSET S /\ Adds(h, w, S) /\ Adds(g, w, S)
    BY <1>3, <1>5, <1>6
  <2>. QED
    BY <2>1, AddsUnique DEF S
<1>. QED
  BY <1>1, <1>5, <1>7 DEF w, S

\* and so is all of the weight.
LEMMA WeightsAreSum ==
    ASSUME NEW e, IsFiniteSet(DOMAIN e.objectives),
           \A i \in DOMAIN e.objectives : e.objectives[i].weight \in Int
    PROVE  MapThenSumSet(LAMBDA i : e.objectives[i].weight, DOMAIN e.objectives)
              = SumOf(Weights(e), DOMAIN e.objectives)
<1>. DEFINE S == DOMAIN e.objectives
           w == Weights(e)
           Is(f) == f = [s \in SUBSET S |->
                           IF s = {} THEN 0
                           ELSE e.objectives[Chosen(s)].weight + f[s \ {Chosen(s)}]]
           h == CHOOSE f : Is(f)
<1>1. MapThenSumSet(LAMBDA i : e.objectives[i].weight, DOMAIN e.objectives) = h[S]
  BY Zenon DEF MapThenSumSet, MapThenFoldSet, Chosen
<1>2. \A x \in S : w[x] = e.objectives[x].weight
  BY DEF Weights
<1>3. ASSUME NEW f PROVE Is(f) <=> Adds(f, w, S)
  <2>. HIDE DEF w, S
  <2>1. \A s \in SUBSET S : s # {} => w[Chosen(s)] = e.objectives[Chosen(s)].weight
    BY <1>2, ChosenIn
  <2>2. [s \in SUBSET S |-> IF s = {} THEN 0
                            ELSE e.objectives[Chosen(s)].weight + f[s \ {Chosen(s)}]]
        = [s \in SUBSET S |-> IF s = {} THEN 0 ELSE w[Chosen(s)] + f[s \ {Chosen(s)}]]
    BY <2>1
  <2>. QED
    BY <2>2, Zenon DEF Adds
<1>4. \A x \in S : w[x] \in Int
  BY <1>2
<1>. HIDE DEF w, S, Is
<1>5. PICK g \in [SUBSET S -> Int] : Adds(g, w, S) /\ SumOf(w, S) = g[S]
  BY <1>4, SumIs DEF S
<1>6. Is(h)
  BY <1>3, <1>5, Zenon
<1>. HIDE DEF h
<1>7. h[S] = g[S]
  <2>1. S \in SUBSET S /\ Adds(h, w, S) /\ Adds(g, w, S)
    BY <1>3, <1>5, <1>6
  <2>. QED
    BY <2>1, AddsUnique DEF S
<1>. QED
  BY <1>1, <1>5, <1>7 DEF w, S

\* Max and Min of the sets that score_metrics builds.
LEMMA MaxMin ==
    /\ \A a, b \in Int : Max({a, b}) = IF a >= b THEN a ELSE b
    /\ \A a, b \in Int : Min({a, b}) = IF a <= b THEN a ELSE b
    /\ \A a \in Int : Max({a, -a, 1}) \in Nat \ {0} /\ Max({a, -a, 1}) >= a /\ Max({a, -a, 1}) >= -a
          /\ Max({a, -a, 1}) \in {a, -a, 1}
<1>1. ASSUME NEW a \in Int, NEW b \in Int
      PROVE  Max({a, b}) = IF a >= b THEN a ELSE b
  <2>1. \E x \in {a, b} : \A y \in {a, b} : x >= y
    OBVIOUS
  <2>2. Max({a, b}) \in {a, b} /\ \A y \in {a, b} : Max({a, b}) >= y
    BY <2>1, Zenon DEF Max
  <2>. QED
    BY <2>2
<1>2. ASSUME NEW a \in Int, NEW b \in Int
      PROVE  Min({a, b}) = IF a <= b THEN a ELSE b
  <2>1. \E x \in {a, b} : \A y \in {a, b} : x <= y
    OBVIOUS
  <2>2. Min({a, b}) \in {a, b} /\ \A y \in {a, b} : Min({a, b}) <= y
    BY <2>1, Zenon DEF Min
  <2>. QED
    BY <2>2
<1>3. ASSUME NEW a \in Int
      PROVE  /\ Max({a, -a, 1}) \in Nat \ {0}
             /\ Max({a, -a, 1}) >= a /\ Max({a, -a, 1}) >= -a
             /\ Max({a, -a, 1}) \in {a, -a, 1}
  <2>1. \E x \in {a, -a, 1} : \A y \in {a, -a, 1} : x >= y
    OBVIOUS
  <2>2. Max({a, -a, 1}) \in {a, -a, 1} /\ \A y \in {a, -a, 1} : Max({a, -a, 1}) >= y
    BY <2>1, Zenon DEF Max
  <2>. QED
    BY <2>2
<1>. QED
  BY <1>1, <1>2, <1>3

\* Division by a positive number rounds down, and keeps the order.
LEMMA Quotient ==
    ASSUME NEW d \in Nat \ {0}
    PROVE  /\ \A x \in Int : x \div d \in Int
           /\ \A x, y \in Int : x <= y => x \div d <= y \div d
           /\ \A x \in Int : x >= d => x \div d >= 1
           /\ \A x \in Nat : x \div d \in Nat
           /\ 0 \div d = 0
<1>1. \A x \in Int : x \div d \in Int /\ x % d \in 0..(d - 1) /\ x = d * (x \div d) + (x % d)
  OBVIOUS
<1>2. \A x, y \in Int : x <= y => x \div d <= y \div d
  OBVIOUS
<1>3. 0 \div d = 0
  <2>1. d * 0 = 0 /\ 0 \in Int
    OBVIOUS
  <2>. QED
    BY <2>1, Multiple
<1>4. ASSUME NEW x \in Int, x >= d PROVE x \div d >= 1
  <2>1. d \div d = 1
    <3>1. d * 1 = d /\ 1 \in Int
      OBVIOUS
    <3>. QED
      BY <3>1, Multiple
  <2>2. d \in Int /\ x \in Int /\ d <= x
    BY <1>4
  <2>3. d \div d <= x \div d
    BY <2>2, <1>2
  <2>4. x \div d \in Int
    BY <1>1
  <2>. QED
    BY <2>1, <2>3, <2>4
<1>5. ASSUME NEW x \in Nat PROVE x \div d \in Nat
  <2>1. 0 \div d <= x \div d /\ x \div d \in Int
    BY <1>1, <1>2
  <2>. QED
    BY <2>1, <1>3
<1>. QED
  BY <1>1, <1>2, <1>3, <1>4, <1>5

\* A constraint and an objective that load_config accepts.
ConstraintOK(c) ==
    /\ c.threshold \in Int /\ c.operator \in {"<=", ">="} /\ c.metric \in DOMAIN Domains
    /\ c.threshold <= Scale /\ -c.threshold <= Scale

\* What a constraint adds to the violation: nothing exactly if it has passed.
LEMMA NormalizedFacts ==
    ASSUME NEW c, ConstraintOK(c), NEW m, m[c.metric] \in Int
    PROVE  /\ Normalized(c, m) \in Nat
           /\ Normalized(c, m) = 0 <=> Passed(c, m)
<1>. DEFINE v == RawViolation(c, m)
           d == Max({c.threshold, -c.threshold, 1})
<1>1. Scale \in Nat \ {0}
  BY ScoreAssumption
<1>2. d \in Nat \ {0} /\ d <= Scale
  BY <1>1, MaxMin DEF ConstraintOK
<1>3. v \in Nat /\ (v = 0 <=> Passed(c, m))
  <2>1. CASE c.operator = "<="
    <3>1. v = Max({0, m[c.metric] - c.threshold})
      BY <2>1 DEF RawViolation
    <3>2. v = IF 0 >= m[c.metric] - c.threshold THEN 0 ELSE m[c.metric] - c.threshold
      BY <3>1, MaxMin DEF ConstraintOK
    <3>. QED
      BY <3>2, <2>1 DEF ConstraintOK, Passed
  <2>2. CASE c.operator # "<="
    <3>1. v = Max({0, c.threshold - m[c.metric]})
      BY <2>2 DEF RawViolation
    <3>2. v = IF 0 >= c.threshold - m[c.metric] THEN 0 ELSE c.threshold - m[c.metric]
      BY <3>1, MaxMin DEF ConstraintOK
    <3>. QED
      BY <3>2, <2>2 DEF ConstraintOK, Passed
  <2>. QED
    BY <2>1, <2>2
<1>4. Normalized(c, m) = (Scale * v) \div d
  BY DEF Normalized
<1>. HIDE DEF v, d
<1>5. Scale * v \in Nat
  BY <1>1, <1>3
<1>6. v = 0 => Scale * v = 0
  BY <1>1
<1>7. v # 0 => Scale * v >= Scale
  <2>. SUFFICES ASSUME v # 0 PROVE Scale * v >= Scale
    OBVIOUS
  <2>1. 1 <= v /\ Scale * 1 = Scale
    BY <1>1, <1>3
  <2>2. Scale * 1 <= Scale * v
    BY <2>1, <1>1, <1>3, TimesMonotone
  <2>. QED
    BY <2>1, <2>2
<1>8. v # 0 => (Scale * v) \div d >= 1
  <2>1. v # 0 => Scale * v >= d
    BY <1>1, <1>2, <1>5, <1>7
  <2>. QED
    BY <2>1, <1>2, <1>5, Quotient
<1>9. (Scale * v) \div d \in Nat
  BY <1>2, <1>5, Quotient
<1>10. v = 0 => (Scale * v) \div d = 0
  BY <1>2, <1>6, Quotient
<1>. QED
  BY <1>3, <1>4, <1>8, <1>9, <1>10

\* A metric that is better for the constraint violates it no more.
LEMMA NormalizedMonotone ==
    ASSUME NEW c, ConstraintOK(c), NEW m, NEW n, m[c.metric] \in Int, n[c.metric] \in Int,
           IF c.operator = "<=" THEN m[c.metric] <= n[c.metric]
           ELSE m[c.metric] >= n[c.metric]
    PROVE  Normalized(c, m) <= Normalized(c, n)
<1>. DEFINE v == RawViolation(c, m)
           w == RawViolation(c, n)
           d == Max({c.threshold, -c.threshold, 1})
<1>1. Scale \in Nat \ {0} /\ d \in Nat \ {0}
  BY ScoreAssumption, MaxMin DEF ConstraintOK
<1>2. v \in Int /\ w \in Int /\ v <= w
  BY MaxMin DEF RawViolation, ConstraintOK
<1>3. Normalized(c, m) = (Scale * v) \div d /\ Normalized(c, n) = (Scale * w) \div d
  BY DEF Normalized
<1>. HIDE DEF v, w, d
<1>4. Scale * v \in Int /\ Scale * w \in Int /\ Scale * v <= Scale * w
  BY <1>1, <1>2, TimesMonotone
<1>. QED
  BY <1>1, <1>3, <1>4, Quotient

ObjectiveOK(o) ==
    /\ o.weight \in Nat \ {0} /\ o.low \in Int /\ o.high \in Int /\ o.low < o.high
    /\ o.direction \in {"maximize", "minimize"} /\ o.metric \in DOMAIN Domains

\* What an objective adds: at most its weight.
LEMMA ReachedFacts ==
    ASSUME NEW o, ObjectiveOK(o), NEW m, m[o.metric] \in Int
    PROVE  Reached(o, m) \in 0..(Scale * o.weight)
<1>. DEFINE r == Reward(o, m)
           x == Min({Scale, Max({0, r})})
<1>1. Scale \in Nat \ {0}
  BY ScoreAssumption
<1>2. r \in Int
  <2>1. o.high - o.low \in Nat \ {0}
    BY DEF ObjectiveOK
  <2>2. Scale * (IF o.direction = "maximize" THEN m[o.metric] - o.low
                 ELSE o.high - m[o.metric]) \in Int
    BY <1>1 DEF ObjectiveOK
  <2>. QED
    BY <2>1, <2>2, Quotient DEF Reward
<1>3. Reached(o, m) = o.weight * x
  BY DEF Reached
<1>. HIDE DEF r
<1>4. Max({0, r}) = IF 0 >= r THEN 0 ELSE r
  BY <1>2, MaxMin
<1>5. x \in 0..Scale
  <2>1. Max({0, r}) \in Nat
    BY <1>2, <1>4
  <2>2. Max({0, r}) \in Int /\ Scale \in Int
    BY <1>1, <2>1
  <2>3. x = IF Scale <= Max({0, r}) THEN Scale ELSE Max({0, r})
    BY <2>2, MaxMin
  <2>. QED
    BY <1>1, <2>1, <2>3
<1>. HIDE DEF x
<1>6. o.weight \in Nat \ {0}
  BY DEF ObjectiveOK
<1>7. o.weight * 0 <= o.weight * x /\ o.weight * x <= o.weight * Scale
  BY <1>1, <1>5, <1>6, TimesMonotone
<1>8. o.weight * x \in Int /\ o.weight * Scale = Scale * o.weight /\ o.weight * 0 = 0
  BY <1>1, <1>5, <1>6
<1>. QED
  BY <1>3, <1>7, <1>8, <1>1, <1>6

\* A metric that is better for the objective reaches no less of it.
LEMMA ReachedMonotone ==
    ASSUME NEW o, ObjectiveOK(o), NEW m, NEW n, m[o.metric] \in Int, n[o.metric] \in Int,
           IF o.direction = "minimize" THEN m[o.metric] <= n[o.metric]
           ELSE m[o.metric] >= n[o.metric]
    PROVE  Reached(o, n) <= Reached(o, m)
<1>. DEFINE Gain(k) == IF o.direction = "maximize" THEN k[o.metric] - o.low
                       ELSE o.high - k[o.metric]
           x(k) == Min({Scale, Max({0, Reward(o, k)})})
<1>1. Scale \in Nat \ {0} /\ o.high - o.low \in Nat \ {0} /\ o.weight \in Nat \ {0}
  BY ScoreAssumption DEF ObjectiveOK
<1>2. Gain(m) \in Int /\ Gain(n) \in Int /\ Gain(n) <= Gain(m)
  BY DEF ObjectiveOK
<1>3. /\ Reward(o, m) = (Scale * Gain(m)) \div (o.high - o.low)
      /\ Reward(o, n) = (Scale * Gain(n)) \div (o.high - o.low)
  BY DEF Reward
<1>. HIDE DEF Gain
<1>4. Scale * Gain(m) \in Int /\ Scale * Gain(n) \in Int /\ Scale * Gain(n) <= Scale * Gain(m)
  BY <1>1, <1>2, TimesMonotone
<1>5. Reward(o, m) \in Int /\ Reward(o, n) \in Int /\ Reward(o, n) <= Reward(o, m)
  BY <1>1, <1>3, <1>4, Quotient
<1>6. ASSUME NEW r \in Int
      PROVE  Min({Scale, Max({0, r})}) = IF r <= 0 THEN 0 ELSE IF Scale <= r THEN Scale ELSE r
  <2>1. Max({0, r}) = IF 0 >= r THEN 0 ELSE r
    BY MaxMin
  <2>2. Max({0, r}) \in Int
    BY <2>1
  <2>3. Min({Scale, Max({0, r})}) = IF Scale <= Max({0, r}) THEN Scale ELSE Max({0, r})
    BY <2>2, <1>1, MaxMin
  <2>. QED
    BY <2>1, <2>3, <1>1
<1>7. x(m) \in Int /\ x(n) \in Int /\ x(n) <= x(m)
  BY <1>1, <1>5, <1>6
<1>8. Reached(o, m) = o.weight * x(m) /\ Reached(o, n) = o.weight * x(n)
  BY DEF Reached
<1>. HIDE DEF x
<1>. QED
  BY <1>1, <1>7, <1>8, TimesMonotone

\* The elements of a sequence are finitely many, of the type of the sequence,
LEMMA OfSequence ==
    ASSUME NEW T, NEW s \in Seq(T)
    PROVE  /\ Len(s) \in Nat /\ DOMAIN s = 1..Len(s) /\ IsFiniteSet(DOMAIN s)
           /\ \A i \in DOMAIN s : s[i] \in T
<1>1. Len(s) \in Nat /\ DOMAIN s = 1..Len(s) /\ \A i \in DOMAIN s : s[i] \in T
  OBVIOUS
<1>2. IsFiniteSet(DOMAIN s)
  BY <1>1, FS_Interval
<1>. QED
  BY <1>1, <1>2

\* and a sequence that is not empty has an element.
LEMMA NotEmpty ==
    ASSUME NEW T, NEW s \in Seq(T), s # <<>>
    PROVE  DOMAIN s # {}
<1>1. Len(s) \in Nat /\ DOMAIN s = 1..Len(s) /\ Len(s) # 0
  OBVIOUS
<1>2. 1 \in 1..Len(s)
  BY <1>1
<1>. QED
  BY <1>1, <1>2

\* The scores of an accepted experiment.
LEMMA AcceptedParts ==
    ASSUME NEW e \in Experiments, Accepted(e)
    PROVE  /\ IsFiniteSet(DOMAIN e.constraints) /\ IsFiniteSet(DOMAIN e.objectives)
           /\ DOMAIN e.objectives # {}
           /\ \A i \in DOMAIN e.constraints : ConstraintOK(e.constraints[i])
           /\ \A i \in DOMAIN e.objectives : ObjectiveOK(e.objectives[i])
<1>1. /\ e.constraints \in Seq([metric : STRING, operator : STRING, threshold : Int])
      /\ e.objectives \in Seq([metric : STRING, direction : STRING, weight : Int,
                               low : Int, high : Int])
  BY RawAssumption
<1>2. /\ IsFiniteSet(DOMAIN e.constraints)
      /\ \A i \in DOMAIN e.constraints :
            e.constraints[i] \in [metric : STRING, operator : STRING, threshold : Int]
  BY <1>1, OfSequence, Zenon
<1>3. /\ IsFiniteSet(DOMAIN e.objectives)
      /\ \A i \in DOMAIN e.objectives :
            e.objectives[i] \in [metric : STRING, direction : STRING, weight : Int,
                                 low : Int, high : Int]
  BY <1>1, OfSequence, Zenon
<1>4. DOMAIN e.objectives # {}
  <2>1. e.objectives # <<>>
    BY Zenon DEF Accepted
  <2>. QED
    BY <1>1, <2>1, NotEmpty, Zenon
<1>5. ASSUME NEW i \in DOMAIN e.constraints PROVE ConstraintOK(e.constraints[i])
  <2>. DEFINE c == e.constraints[i]
  <2>1. c \in [metric : STRING, operator : STRING, threshold : Int]
    BY <1>2, Zenon
  <2>2. ConstraintAccepted(c)
    BY DEF Accepted
  <2>3. /\ Domains[c.metric] \in (-Scale..Scale) \X (-Scale..Scale) /\ Scale \in Nat
        /\ Domains[c.metric][1] <= c.threshold /\ c.threshold <= Domains[c.metric][2]
    BY <2>2, ScoreAssumption DEF ConstraintAccepted, Between
  <2>4. Domains[c.metric][1] \in -Scale..Scale /\ Domains[c.metric][2] \in -Scale..Scale
    BY <2>3
  <2>. HIDE DEF c
  <2>5. c.threshold \in Int
    BY <2>1
  <2>6. c.threshold <= Scale /\ -c.threshold <= Scale
    BY <2>3, <2>4, <2>5
  <2>. QED
    BY <2>2, <2>5, <2>6 DEF ConstraintOK, ConstraintAccepted, c
<1>6. ASSUME NEW i \in DOMAIN e.objectives PROVE ObjectiveOK(e.objectives[i])
  <2>. DEFINE o == e.objectives[i]
  <2>1. o \in [metric : STRING, direction : STRING, weight : Int, low : Int, high : Int]
    BY <1>3, Zenon
  <2>2. ObjectiveAccepted(o)
    BY DEF Accepted
  <2>. QED
    BY <2>1, <2>2 DEF ObjectiveOK, ObjectiveAccepted, RangeAccepted
<1>. QED
  BY <1>2, <1>3, <1>4, <1>5, <1>6

\* A metric of a result is a number.
LEMMA SampleValues ==
    ASSUME NEW m \in Samples, NEW k \in DOMAIN Domains
    PROVE  m[k] \in Int
<1>1. k \in DOMAIN m /\ m[k] \in Domains[k][1]..Domains[k][2]
  BY ScoreAssumption
<1>2. Domains[k][1] \in Int /\ Domains[k][2] \in Int
  <2>1. Domains[k] \in (-Scale..Scale) \X (-Scale..Scale) /\ Scale \in Nat
    BY ScoreAssumption
  <2>. QED
    BY <2>1
<1>. QED
  BY <1>1, <1>2

\* The metrics of an accepted result have a score.
LEMMA Scored ==
    ASSUME NEW e \in Experiments, Accepted(e), NEW m \in Samples
    PROVE  /\ \A i \in DOMAIN e.constraints :
                 Violations(e, m)[i] = Normalized(e.constraints[i], m)
                 /\ Normalized(e.constraints[i], m) \in Nat
           /\ \A i \in DOMAIN e.objectives :
                 Rewards(e, m)[i] = Reached(e.objectives[i], m)
                 /\ Reached(e.objectives[i], m) \in Nat
           /\ TotalViolation(e, m) = SumOf(Violations(e, m), DOMAIN e.constraints)
           /\ ObjectiveScore(e, m) = SumOf(Rewards(e, m), DOMAIN e.objectives)
           /\ TotalViolation(e, m) \in Nat /\ ObjectiveScore(e, m) \in Nat
<1>1. ASSUME NEW i \in DOMAIN e.constraints
      PROVE  /\ Violations(e, m)[i] = Normalized(e.constraints[i], m)
             /\ Normalized(e.constraints[i], m) \in Nat
  <2>1. ConstraintOK(e.constraints[i]) /\ e.constraints[i].metric \in DOMAIN Domains
    BY AcceptedParts DEF ConstraintOK
  <2>2. m[e.constraints[i].metric] \in Int
    BY <2>1, SampleValues
  <2>. QED
    BY <2>1, <2>2, NormalizedFacts DEF Violations
<1>2. ASSUME NEW i \in DOMAIN e.objectives
      PROVE  /\ Rewards(e, m)[i] = Reached(e.objectives[i], m)
             /\ Reached(e.objectives[i], m) \in Nat
  <2>1. ObjectiveOK(e.objectives[i]) /\ e.objectives[i].metric \in DOMAIN Domains
    BY AcceptedParts DEF ObjectiveOK
  <2>2. m[e.objectives[i].metric] \in Int
    BY <2>1, SampleValues
  <2>3. Reached(e.objectives[i], m) \in 0..(Scale * e.objectives[i].weight)
    BY <2>1, <2>2, ReachedFacts
  <2>. QED
    BY <2>3 DEF Rewards
<1>3. TotalViolation(e, m) = SumOf(Violations(e, m), DOMAIN e.constraints)
  BY <1>1, AcceptedParts, TotalViolationIsSum
<1>4. ObjectiveScore(e, m) = SumOf(Rewards(e, m), DOMAIN e.objectives)
  BY <1>2, AcceptedParts, ObjectiveScoreIsSum
<1>5. SumOf(Violations(e, m), DOMAIN e.constraints) \in Nat
  BY <1>1, AcceptedParts, SumNatural
<1>6. SumOf(Rewards(e, m), DOMAIN e.objectives) \in Nat
  BY <1>2, AcceptedParts, SumNatural
<1>. QED
  BY <1>1, <1>2, <1>3, <1>4, <1>5, <1>6

\* Feasible exactly if every constraint has passed.
LEMMA FeasibleIffPassed ==
    ASSUME NEW e \in Experiments, Accepted(e), NEW m \in Samples
    PROVE  TotalViolation(e, m) = 0
              <=> \A i \in DOMAIN e.constraints : Passed(e.constraints[i], m)
<1>1. ASSUME NEW i \in DOMAIN e.constraints
      PROVE  Violations(e, m)[i] = 0 <=> Passed(e.constraints[i], m)
  <2>1. ConstraintOK(e.constraints[i]) /\ e.constraints[i].metric \in DOMAIN Domains
    BY AcceptedParts DEF ConstraintOK
  <2>2. m[e.constraints[i].metric] \in Int
    BY <2>1, SampleValues
  <2>3. Normalized(e.constraints[i], m) = 0 <=> Passed(e.constraints[i], m)
    BY <2>1, <2>2, NormalizedFacts
  <2>. QED
    BY <2>3, Scored
<1>2. \A i \in DOMAIN e.constraints : Violations(e, m)[i] \in Nat
  BY Scored
<1>3. SumOf(Violations(e, m), DOMAIN e.constraints) = 0
         <=> \A i \in DOMAIN e.constraints : Violations(e, m)[i] = 0
  BY <1>2, AcceptedParts, SumNatural
<1>4. TotalViolation(e, m) = SumOf(Violations(e, m), DOMAIN e.constraints)
  BY Scored
<1>. QED
  BY <1>1, <1>3, <1>4

\* There is weight, and an objective score is between nothing and all of it.
LEMMA ScoreWithinWeights ==
    ASSUME NEW e \in Experiments, Accepted(e), NEW m \in Samples
    PROVE  LET weights == MapThenSumSet(LAMBDA i : e.objectives[i].weight, DOMAIN e.objectives)
           IN  weights \in Nat /\ weights > 0 /\ ObjectiveScore(e, m) <= Scale * weights
<1>. DEFINE D == DOMAIN e.objectives
           w == Weights(e)
           v == [i \in D |-> Scale * e.objectives[i].weight]
           weights == MapThenSumSet(LAMBDA i : e.objectives[i].weight, DOMAIN e.objectives)
<1>0. Scale \in Int
  BY ScoreAssumption
<1>1. ASSUME NEW i \in D
      PROVE  /\ w[i] = e.objectives[i].weight /\ e.objectives[i].weight \in Nat \ {0}
             /\ v[i] = Scale * w[i] /\ v[i] \in Int
             /\ Rewards(e, m)[i] \in Int /\ Rewards(e, m)[i] <= v[i]
  <2>1. ObjectiveOK(e.objectives[i]) /\ e.objectives[i].metric \in DOMAIN Domains
        /\ e.objectives[i].weight \in Nat \ {0}
    BY AcceptedParts DEF ObjectiveOK
  <2>2. m[e.objectives[i].metric] \in Int
    BY <2>1, SampleValues
  <2>3. Reached(e.objectives[i], m) \in 0..(Scale * e.objectives[i].weight)
    BY <2>1, <2>2, ReachedFacts
  <2>4. w[i] = e.objectives[i].weight
    BY DEF Weights
  <2>5. v[i] = Scale * w[i] /\ v[i] \in Int
    BY <2>1, <2>4, <1>0
  <2>6. Rewards(e, m)[i] = Reached(e.objectives[i], m)
    BY DEF Rewards
  <2>. QED
    BY <2>1, <2>3, <2>4, <2>5, <2>6
<1>2. IsFiniteSet(D) /\ D # {}
  BY AcceptedParts
<1>3. weights = SumOf(w, D)
  <2>1. ASSUME NEW i \in D PROVE e.objectives[i].weight \in Int
    <3>1. e.objectives[i].weight \in Nat \ {0}
      BY <1>1
    <3>. QED
      BY <3>1
  <2>. QED
    BY <2>1, <1>2, WeightsAreSum, Zenon
<1>. HIDE DEF w, v, D, weights
<1>4. SumOf(w, D) \in Nat /\ SumOf(w, D) # 0
  <2>1. \A i \in D : w[i] \in Nat /\ w[i] # 0
    BY <1>1
  <2>2. SumOf(w, D) \in Nat /\ (SumOf(w, D) = 0 <=> \A i \in D : w[i] = 0)
    BY <2>1, <1>2, SumNatural
  <2>. QED
    BY <2>1, <2>2, <1>2
<1>5. SumOf(v, D) = Scale * SumOf(w, D)
  <2>1. \A i \in D : w[i] \in Int /\ v[i] = Scale * w[i]
    BY <1>1
  <2>. QED
    BY <2>1, <1>0, <1>2, SumScaled
<1>6. SumOf(Rewards(e, m), D) <= SumOf(v, D)
  <2>1. \A i \in D : Rewards(e, m)[i] \in Int /\ v[i] \in Int /\ Rewards(e, m)[i] <= v[i]
    BY <1>1
  <2>. QED
    BY <2>1, <1>2, SumMonotone
<1>7. ObjectiveScore(e, m) = SumOf(Rewards(e, m), D)
  BY Scored DEF D
<1>8. weights \in Nat /\ weights > 0
  BY <1>3, <1>4
<1>9. ObjectiveScore(e, m) <= Scale * weights
  BY <1>3, <1>5, <1>6, <1>7
<1>. QED
  BY <1>8, <1>9 DEF weights

\* The better of two results has no more violation and no less of the objective.
LEMMA ScoreMonotone ==
    ASSUME NEW e \in Experiments, Accepted(e), NEW m \in Samples, NEW n \in Samples,
           AsGood(e, m, n)
    PROVE  /\ TotalViolation(e, m) <= TotalViolation(e, n)
           /\ ObjectiveScore(e, n) <= ObjectiveScore(e, m)
<1>1. ASSUME NEW i \in DOMAIN e.constraints
      PROVE  Normalized(e.constraints[i], m) <= Normalized(e.constraints[i], n)
  <2>1. ConstraintOK(e.constraints[i]) /\ e.constraints[i].metric \in DOMAIN Domains
    BY AcceptedParts DEF ConstraintOK
  <2>2. m[e.constraints[i].metric] \in Int /\ n[e.constraints[i].metric] \in Int
    BY <2>1, SampleValues
  <2>3. IF e.constraints[i].operator = "<="
        THEN m[e.constraints[i].metric] <= n[e.constraints[i].metric]
        ELSE m[e.constraints[i].metric] >= n[e.constraints[i].metric]
    BY Zenon DEF AsGood
  <2>. QED
    BY <2>1, <2>2, <2>3, NormalizedMonotone
<1>2. ASSUME NEW i \in DOMAIN e.objectives
      PROVE  Reached(e.objectives[i], n) <= Reached(e.objectives[i], m)
  <2>1. ObjectiveOK(e.objectives[i]) /\ e.objectives[i].metric \in DOMAIN Domains
    BY AcceptedParts DEF ObjectiveOK
  <2>2. m[e.objectives[i].metric] \in Int /\ n[e.objectives[i].metric] \in Int
    BY <2>1, SampleValues
  <2>3. IF e.objectives[i].direction = "minimize"
        THEN m[e.objectives[i].metric] <= n[e.objectives[i].metric]
        ELSE m[e.objectives[i].metric] >= n[e.objectives[i].metric]
    BY Zenon DEF AsGood
  <2>. QED
    BY <2>1, <2>2, <2>3, ReachedMonotone
<1>3. SumOf(Violations(e, m), DOMAIN e.constraints) <= SumOf(Violations(e, n), DOMAIN e.constraints)
  <2>1. \A i \in DOMAIN e.constraints :
           /\ Violations(e, m)[i] \in Int /\ Violations(e, n)[i] \in Int
           /\ Violations(e, m)[i] <= Violations(e, n)[i]
    BY <1>1, Scored
  <2>. QED
    BY <2>1, AcceptedParts, SumMonotone
<1>4. SumOf(Rewards(e, n), DOMAIN e.objectives) <= SumOf(Rewards(e, m), DOMAIN e.objectives)
  <2>1. \A i \in DOMAIN e.objectives :
           /\ Rewards(e, n)[i] \in Int /\ Rewards(e, m)[i] \in Int
           /\ Rewards(e, n)[i] <= Rewards(e, m)[i]
    BY <1>2, Scored
  <2>. QED
    BY <2>1, AcceptedParts, SumMonotone
<1>. QED
  BY <1>3, <1>4, Scored

\* Two keys of Score.rank_key, compared as Python compares tuples.
LEMMA RanksAreCompared ==
    ASSUME NEW s, NEW t, s.violation \in Nat, t.violation \in Nat,
           s.objective \in Int, t.objective \in Int,
           t.violation <= s.violation, s.objective <= t.objective
    PROVE  ~Ranking!Outranks(2, s, 1, t)
<1>. DEFINE k == Ranking!RankKey(2, s)
           l == Ranking!RankKey(1, t)
<1>1. /\ k[1] = (IF s.violation = 0 THEN 0 ELSE 1) /\ l[1] = (IF t.violation = 0 THEN 0 ELSE 1)
      /\ k[2] = s.violation /\ l[2] = t.violation
      /\ k[3] = -s.objective /\ l[3] = -t.objective
      /\ k[4] = 2 /\ l[4] = 1
  BY DEF Ranking!RankKey, Ranking!Feasible
<1>2. /\ l[1] <= k[1] /\ l[2] <= k[2] /\ l[3] <= k[3] /\ l[4] <= k[4]
      /\ k[1] \in Int /\ k[2] \in Int /\ k[3] \in Int /\ k[4] \in Int
      /\ l[1] \in Int /\ l[2] \in Int /\ l[3] \in Int /\ l[4] \in Int
  BY <1>1
<1>. HIDE DEF k, l
<1>3. ASSUME NEW i \in 1..4 PROVE ~(k[i] < l[i])
  <2>1. i = 1 \/ i = 2 \/ i = 3 \/ i = 4
    OBVIOUS
  <2>. QED
    BY <2>1, <1>2
<1>4. ~Ranking!KeyLess(k, l)
  BY <1>3 DEF Ranking!KeyLess
<1>. QED
  BY <1>4 DEF Ranking!Outranks, k, l

\* The invariant, part one: what scoring relies on.
Loaded == raw \in Experiments /\ (pc \notin {"load", "refused"} => Accepted(raw))

Compared ==
    pc = "scored" => better \in Samples /\ worse \in Samples /\ AsGood(raw, better, worse)

\* What has been loaded and compared stays as it was when it was accepted.
LEMMA LoadedHolds == Spec => [](Loaded /\ Compared)
<1>1. Init => Loaded /\ Compared
  BY DEF Init, Loaded, Compared
<1>2. Loaded /\ Compared /\ [Next]_vars => (Loaded /\ Compared)'
  <2>. SUFFICES ASSUME Loaded, Compared, [Next]_vars PROVE Loaded' /\ Compared'
    OBVIOUS
  <2>1. CASE LoadConfig
    <3>1. raw' = raw /\ pc = "load" /\ pc' = IF Accepted(raw) THEN "accepted" ELSE "refused"
      BY <2>1 DEF LoadConfig
    <3>2. Accepted(raw)' <=> Accepted(raw)
      BY <3>1, ZenonT(60) DEF Accepted, ParameterAccepted, StepKeeps, BudgetAccepted,
           ConstraintAccepted, ObjectiveAccepted, RangeAccepted, Between, IsNumber
    <3>. QED
      BY <3>1, <3>2 DEF Loaded, Compared
  <2>2. CASE ScoreBoth
    BY <2>2 DEF ScoreBoth, Loaded, Compared
  <2>3. CASE StartSearch
    BY <2>3 DEF StartSearch, Loaded, Compared
  <2>4. CASE Recenter
    BY <2>4 DEF Recenter, Loaded, Compared
  <2>5. CASE UNCHANGED vars
    BY <2>5 DEF vars, Loaded, Compared
  <2>. QED
    BY <2>1, <2>2, <2>3, <2>4, <2>5 DEF Next
<1>. QED
  BY <1>1, <1>2, PTL DEF Spec

\* The better of two scores is not ranked behind, unless by its id.
LEMMA Dominated == Loaded /\ Compared => DominatedNeverAhead
<1>. SUFFICES ASSUME Loaded, Compared, pc = "scored"
              PROVE ~Ranking!Outranks(2, Score(raw, worse), 1, Score(raw, better))
  BY DEF DominatedNeverAhead
<1>1. raw \in Experiments /\ Accepted(raw) /\ better \in Samples /\ worse \in Samples
      /\ AsGood(raw, better, worse)
  BY DEF Loaded, Compared
<1>. DEFINE s == Score(raw, worse)
           t == Score(raw, better)
<1>2. /\ s.violation = TotalViolation(raw, worse) /\ s.objective = ObjectiveScore(raw, worse)
      /\ t.violation = TotalViolation(raw, better) /\ t.objective = ObjectiveScore(raw, better)
  BY DEF Score
<1>. HIDE DEF s, t
<1>3. /\ TotalViolation(raw, worse) \in Nat /\ ObjectiveScore(raw, worse) \in Nat
      /\ TotalViolation(raw, better) \in Nat /\ ObjectiveScore(raw, better) \in Nat
  BY <1>1, Scored
<1>4. /\ TotalViolation(raw, better) <= TotalViolation(raw, worse)
      /\ ObjectiveScore(raw, worse) <= ObjectiveScore(raw, better)
  BY <1>1, ScoreMonotone
<1>5. ~Ranking!Outranks(2, s, 1, t)
  <2>1. s.objective \in Int /\ t.objective \in Int
    BY <1>2, <1>3
  <2>. QED
    BY <1>2, <1>3, <1>4, <2>1, RanksAreCompared
<1>. QED
  BY <1>5 DEF s, t

\* Of any two results of any accepted experiment, a candidate is not ranked
\* behind one that is no better in any constraint and no better in any objective.
THEOREM NeverRanksDominatedAhead == Spec => []DominatedNeverAhead
BY LoadedHolds, Dominated, PTL

\* An accepted experiment can be scored on any metrics within the domains.
LEMMA Scorable == Loaded /\ Compared => AcceptedIsScorable
<1>. SUFFICES ASSUME Loaded, Compared, pc = "scored" PROVE AcceptedIsScorable
  BY DEF AcceptedIsScorable
<1>1. raw \in Experiments /\ Accepted(raw) /\ worse \in Samples
  BY DEF Loaded, Compared
<1>. DEFINE score == Score(raw, worse)
           weights == MapThenSumSet(LAMBDA i : raw.objectives[i].weight, DOMAIN raw.objectives)
<1>2. score.violation = TotalViolation(raw, worse) /\ score.objective = ObjectiveScore(raw, worse)
  BY DEF Score
<1>3. TotalViolation(raw, worse) \in Nat /\ ObjectiveScore(raw, worse) \in Nat
  BY <1>1, Scored
<1>4. weights \in Nat /\ weights > 0 /\ ObjectiveScore(raw, worse) <= Scale * weights
  BY <1>1, ScoreWithinWeights
<1>5. TotalViolation(raw, worse) = 0
         <=> \A i \in DOMAIN raw.constraints : Passed(raw.constraints[i], worse)
  BY <1>1, FeasibleIffPassed
<1>6. AcceptedIsScorable
         <=> /\ weights > 0 /\ score.objective \in 0..Scale * weights
             /\ score.violation >= 0
             /\ Ranking!Feasible(score) <=>
                   \A i \in DOMAIN raw.constraints : Passed(raw.constraints[i], worse)
  BY Zenon DEF AcceptedIsScorable
<1>. HIDE DEF score, weights
<1>7. Scale * weights \in Int
  BY <1>4, ScoreAssumption
<1>8. score.objective \in 0..Scale * weights /\ score.violation >= 0
  BY <1>2, <1>3, <1>4, <1>7
<1>9. Ranking!Feasible(score) <=>
         \A i \in DOMAIN raw.constraints : Passed(raw.constraints[i], worse)
  BY <1>2, <1>5 DEF Ranking!Feasible
<1>. QED
  BY <1>4, <1>6, <1>8, <1>9

----------------------------------------------------------------------------
\* Lists

\* The instance counts as this module does.
LEMMA SameCardinality == \A S : Search!Cardinality(S) = Cardinality(S)
BY Zenon DEF Search!Cardinality, Cardinality

\* SetToSeq lists every element of a finite set once.
LEMMA Listed ==
    ASSUME NEW S, IsFiniteSet(S)
    PROVE  LET s == SetToSeq(S) IN
           /\ s \in Seq(S) /\ DOMAIN s = 1..Cardinality(S) /\ Len(s) = Cardinality(S)
           /\ \A i, j \in DOMAIN s : s[i] = s[j] => i = j
           /\ \A x \in S : \E i \in DOMAIN s : s[i] = x
<1>. DEFINE n == Cardinality(S)
           s == SetToSeq(S)
<1>1. n \in Nat /\ ExistsBijection(1..n, S)
  BY FS_CardinalityType
<1>2. PICK f \in [1..n -> S] : IsInjective(f)
  BY <1>1, Zenon DEF ExistsBijection, Bijection, Injection
<1>3. s \in [1..n -> S] /\ IsInjective(s)
  BY <1>2, Zenon DEF SetToSeq
<1>. HIDE DEF s
<1>4. IsFiniteSet(1..n) /\ Cardinality(1..n) = n
  BY <1>1, FS_Interval
<1>5. s \in Injection(1..n, S)
  BY <1>3, Zenon DEF Injection
<1>6. s \in Surjection(1..n, S)
  <2>1. Cardinality(1..n) = Cardinality(S)
    BY <1>4
  <2>. QED
    BY <1>5, <2>1, FS_Injection
<1>7. \A x \in S : \E i \in 1..n : s[i] = x
  BY <1>6, Zenon DEF Surjection
<1>8. s \in Seq(S) /\ DOMAIN s = 1..n /\ Len(s) = n
  BY <1>1, <1>3
<1>9. \A i, j \in DOMAIN s : s[i] = s[j] => i = j
  BY <1>3, Zenon DEF IsInjective
<1>. QED
  BY <1>7, <1>8, <1>9 DEF s

\* Nth lists every element of a finite set of numbers once.
LEMMA NthLists ==
    ASSUME NEW S \in SUBSET Nat, IsFiniteSet(S)
    PROVE  /\ \A i \in 1..Cardinality(S) : Search!Nth(S, i) \in S
           /\ \A i, j \in 1..Cardinality(S) : Search!Nth(S, i) = Search!Nth(S, j) => i = j
           /\ \A m \in S : \E i \in 1..Cardinality(S) : Search!Nth(S, i) = m
<1>. DEFINE n == Cardinality(S)
           Below(m) == {k \in S : k < m}
           rank == [m \in S |-> Cardinality(Below(m)) + 1]
<1>0. n \in Nat
  BY FS_CardinalityType
<1>1. ASSUME NEW m \in S
      PROVE  /\ IsFiniteSet(Below(m)) /\ Cardinality(Below(m)) \in Nat
             /\ Cardinality(Below(m)) + 1 \in 1..n
  <2>1. IsFiniteSet(S \ {m}) /\ Cardinality(S \ {m}) = n - 1
    BY FS_RemoveElement
  <2>2. Below(m) \in SUBSET (S \ {m})
    OBVIOUS
  <2>3. IsFiniteSet(Below(m)) /\ Cardinality(Below(m)) <= n - 1
    BY <2>1, <2>2, FS_Subset
  <2>4. Cardinality(Below(m)) \in Nat
    BY <2>3, FS_CardinalityType
  <2>. HIDE DEF n, Below
  <2>. QED
    BY <2>3, <2>4, <1>0
<1>2. ASSUME NEW m \in S, NEW l \in S, m < l
      PROVE  Cardinality(Below(m)) < Cardinality(Below(l))
  <2>1. Below(m) \in SUBSET (Below(l) \ {m}) /\ m \in Below(l)
    <3>1. m \in Nat /\ l \in Nat /\ ~(m < m)
      OBVIOUS
    <3>2. \A k \in Nat : k < m => k < l
      BY <1>2, <3>1
    <3>. QED
      BY <1>2, <3>1, <3>2
  <2>2. IsFiniteSet(Below(l)) /\ Cardinality(Below(l)) \in Nat /\ Cardinality(Below(m)) \in Nat
    BY <1>1
  <2>. HIDE DEF Below
  <2>3. IsFiniteSet(Below(l) \ {m}) /\ Cardinality(Below(l) \ {m}) = Cardinality(Below(l)) - 1
    BY <2>1, <2>2, FS_RemoveElement
  <2>4. Cardinality(Below(m)) <= Cardinality(Below(l)) - 1
    BY <2>1, <2>3, FS_Subset
  <2>. QED
    BY <2>2, <2>4
<1>3. rank \in [S -> 1..n]
  BY <1>1, Zenon
<1>4. \A m \in S : rank[m] = Cardinality(Below(m)) + 1
  BY Zenon
<1>5. IsInjective(rank)
  <2>. SUFFICES ASSUME NEW m \in S, NEW l \in S, rank[m] = rank[l], m # l PROVE FALSE
    BY <1>3, Zenon DEF IsInjective
  <2>1. Cardinality(Below(m)) \in Nat /\ Cardinality(Below(l)) \in Nat
    BY <1>1
  <2>2. m < l => Cardinality(Below(m)) < Cardinality(Below(l))
    BY <1>2
  <2>3. l < m => Cardinality(Below(l)) < Cardinality(Below(m))
    BY <1>2
  <2>4. Cardinality(Below(m)) + 1 = Cardinality(Below(l)) + 1
    BY <1>4
  <2>5. m \in Nat /\ l \in Nat
    OBVIOUS
  <2>. HIDE DEF Below, rank
  <2>. QED
    BY <2>1, <2>2, <2>3, <2>4, <2>5
<1>. HIDE DEF rank
<1>6. rank \in Surjection(S, 1..n)
  <2>1. IsFiniteSet(1..n) /\ Cardinality(1..n) = n
    BY <1>0, FS_Interval
  <2>2. rank \in Injection(S, 1..n)
    BY <1>3, <1>5, Zenon DEF Injection
  <2>3. Cardinality(S) = Cardinality(1..n)
    BY <2>1
  <2>. QED
    BY <2>1, <2>2, <2>3, FS_Injection
<1>7. ASSUME NEW i \in 1..n
      PROVE  Search!Nth(S, i) \in S /\ Cardinality(Below(Search!Nth(S, i))) = i - 1
  <2>1. PICK m \in S : rank[m] = i
    BY <1>6, Zenon DEF Surjection
  <2>2. Cardinality(Below(m)) = i - 1
    <3>1. Cardinality(Below(m)) \in Nat /\ i = Cardinality(Below(m)) + 1
      BY <1>1, <1>4, <2>1
    <3>. QED
      BY <3>1
  <2>3. Search!Nth(S, i) = CHOOSE k \in S : Cardinality(Below(k)) = i - 1
    BY SameCardinality, Zenon DEF Search!Nth
  <2>. HIDE DEF Below
  <2>. QED
    BY <2>2, <2>3, Zenon
<1>8. ASSUME NEW i \in 1..n, NEW j \in 1..n, Search!Nth(S, i) = Search!Nth(S, j)
      PROVE  i = j
  <2>1. i - 1 = j - 1
    BY <1>7, <1>8
  <2>. QED
    BY <1>0, <2>1
<1>9. ASSUME NEW m \in S PROVE \E i \in 1..n : Search!Nth(S, i) = m
  <2>. DEFINE i == rank[m]
             l == Search!Nth(S, i)
  <2>1. i \in 1..n /\ i = Cardinality(Below(m)) + 1
    BY <1>1, <1>4
  <2>2. l \in S /\ Cardinality(Below(l)) = i - 1
    BY <2>1, <1>7
  <2>3. rank[l] = i
    <3>1. rank[l] = Cardinality(Below(l)) + 1 /\ Cardinality(Below(l)) \in Nat
      BY <2>2, <1>1, <1>4
    <3>. QED
      BY <3>1, <2>2, <2>1, <1>0
  <2>. HIDE DEF l
  <2>4. l = m
    BY <2>2, <2>3, <1>3, <1>5, Zenon DEF IsInjective
  <2>. QED
    BY <2>1, <2>4 DEF l
<1>. QED
  BY <1>7, <1>8, <1>9

----------------------------------------------------------------------------
\* The steps of the search

\* A parameter that load_config accepts.
ParameterOK(p) ==
    /\ p.kind \in {"integer", "float"}
    /\ {p.baseline, p.minimum, p.maximum, p.step} \subseteq Int
    /\ p.minimum < p.maximum /\ p.minimum <= p.baseline /\ p.baseline <= p.maximum
    /\ p.step > 0 /\ p.step <= p.maximum - p.minimum
    /\ p.kind = "float" => 2 * p.step > Grain

\* An experiment the search can work on.
Walkable(e) ==
    /\ DOMAIN e.parameters = DOMAIN Contracts
    /\ \A n \in DOMAIN Contracts :
          ParameterOK(e.parameters[n]) /\ e.parameters[n].kind = Contracts[n].kind
    /\ e.shrink[1] \in Nat \ {0} /\ e.shrink[2] \in Nat \ {0} /\ e.shrink[1] <= e.shrink[2]

\* What load_config checks is what the search needs.
LEMMA AcceptedIsWalkable ==
    ASSUME NEW e \in Experiments, Accepted(e)
    PROVE  Walkable(e)
<1>1. DOMAIN e.parameters = DOMAIN Contracts
  BY DEF Accepted
<1>2. ASSUME NEW n \in DOMAIN Contracts
      PROVE  ParameterOK(e.parameters[n]) /\ e.parameters[n].kind = Contracts[n].kind
  <2>. DEFINE p == e.parameters[n]
  <2>1. p \in [kind : STRING, baseline : Int, minimum : Int, maximum : Int, step : Int]
    BY <1>1, RawAssumption
  <2>2. ParameterAccepted(n, p)
    BY DEF Accepted
  <2>3. Contracts[n].kind \in {"integer", "float"}
    BY ScoreAssumption
  <2>. HIDE DEF p
  <2>4. p.baseline \in Int /\ p.minimum \in Int /\ p.maximum \in Int /\ p.step \in Int
    BY <2>1
  <2>5. p.minimum <= p.baseline /\ p.baseline <= p.maximum
    BY <2>2 DEF ParameterAccepted, Between
  <2>6. p.kind = Contracts[n].kind /\ p.minimum < p.maximum /\ p.step <= p.maximum - p.minimum
    BY <2>2 DEF ParameterAccepted
  <2>7. p.step > 0 /\ (p.kind = "float" => 2 * p.step > Grain)
    BY <2>2 DEF ParameterAccepted, StepKeeps
  <2>8. ParameterOK(p)
    BY <2>3, <2>4, <2>5, <2>6, <2>7 DEF ParameterOK
  <2>. QED
    BY <2>6, <2>8 DEF p
<1>3. e.shrink \in Int \X (Nat \ {0})
  BY RawAssumption
<1>4. 0 < e.shrink[1] /\ e.shrink[1] <= e.shrink[2]
  BY DEF Accepted
<1>. QED
  BY <1>1, <1>2, <1>3, <1>4 DEF Walkable

\* The steps of a round: none vanishes, none grows.
LEMMA DeltaFacts ==
    ASSUME Walkable(raw), NEW n \in DOMAIN Contracts, NEW r \in Nat \ {0}
    PROVE  /\ Search!Delta(n, r) \in Nat
           /\ Search!Delta(n, r + 1) <= Search!Delta(n, r)
           /\ raw.parameters[n].kind = "integer" => Search!Delta(n, r) >= 1
<1>. DEFINE p == raw.parameters[n]
           a == raw.shrink[1]
           b == raw.shrink[2]
           num == p.step * Search!Power(a, r - 1)
           den == Search!Power(b, r - 1)
<1>1. /\ a \in Nat \ {0} /\ b \in Nat \ {0} /\ a <= b
      /\ p.step \in Int /\ p.step > 0 /\ p.kind \in {"integer", "float"}
  BY DEF Walkable, ParameterOK
<1>2. Grain \in Nat \ {0} /\ r - 1 \in Nat /\ (r - 1) + 1 = r /\ (r + 1) - 1 = r
  BY ScoreAssumption
<1>3. Search!Delta(n, r) =
         IF p.kind = "integer"
         THEN IF Search!RoundDiv(num, den) < 1 THEN 1 ELSE Search!RoundDiv(num, den)
         ELSE Grain * Search!RoundDiv(num, Grain * den)
  BY Zenon DEF Search!Delta
<1>4. Search!Delta(n, r + 1) =
         IF p.kind = "integer"
         THEN IF Search!RoundDiv(p.step * Search!Power(a, r), Search!Power(b, r)) < 1 THEN 1
              ELSE Search!RoundDiv(p.step * Search!Power(a, r), Search!Power(b, r))
         ELSE Grain * Search!RoundDiv(p.step * Search!Power(a, r), Grain * Search!Power(b, r))
  BY <1>2, Zenon DEF Search!Delta
<1>. HIDE DEF p, a, b
<1>5. /\ Search!Power(a, r - 1) \in Nat \ {0} /\ den \in Nat \ {0}
      /\ Search!Power(a, r) = a * Search!Power(a, r - 1) /\ Search!Power(b, r) = b * den
  <2>1. /\ Search!Power(a, r - 1) \in Nat \ {0}
        /\ Search!Power(a, (r - 1) + 1) = a * Search!Power(a, r - 1)
    BY <1>1, <1>2, Powers
  <2>2. /\ Search!Power(b, r - 1) \in Nat \ {0}
        /\ Search!Power(b, (r - 1) + 1) = b * Search!Power(b, r - 1)
    BY <1>1, <1>2, Powers
  <2>. QED
    BY <2>1, <2>2, <1>2
<1>6. p.step * Search!Power(a, r) = num * a /\ Search!Power(b, r) = den * b
      /\ Grain * Search!Power(b, r) = (Grain * den) * b
      /\ num \in Nat /\ Grain * den \in Nat \ {0}
  <2>. DEFINE x == Search!Power(a, r - 1)
  <2>1. x \in Nat \ {0} /\ Search!Power(a, r) = a * x /\ num = p.step * x
    BY <1>5
  <2>. HIDE DEF x, den, num
  <2>2. p.step * (a * x) = (p.step * x) * a
    BY <1>1, <2>1
  <2>3. b * den = den * b /\ Grain * (b * den) = (Grain * den) * b
    BY <1>1, <1>2, <1>5
  <2>4. Grain * den \in Nat \ {0} /\ p.step * x \in Nat
    BY <1>1, <1>2, <1>5, <2>1
  <2>. QED
    BY <1>5, <2>1, <2>2, <2>3, <2>4
<1>. HIDE DEF num, den
<1>7. Search!RoundDiv(num * a, den * b) <= Search!RoundDiv(num, den)
  BY <1>1, <1>5, <1>6, RoundShrinks
<1>8. Search!RoundDiv(num * a, (Grain * den) * b) <= Search!RoundDiv(num, Grain * den)
  BY <1>1, <1>6, RoundShrinks
<1>9. /\ Search!RoundDiv(num, den) \in Int /\ Search!RoundDiv(num, Grain * den) \in Int
      /\ Search!RoundDiv(num, Grain * den) >= 0
  <2>1. num \in Int /\ num >= 0 /\ den \in Nat \ {0} /\ Grain * den \in Nat \ {0}
    BY <1>5, <1>6
  <2>2. Search!RoundDiv(num, den) \in Int
    BY <2>1, RoundNearest
  <2>3. Search!RoundDiv(num, Grain * den) \in Int
    BY <2>1, RoundNearest
  <2>4. Search!RoundDiv(num, Grain * den) >= 0
    BY <2>1, RoundPositive
  <2>. QED
    BY <2>2, <2>3, <2>4
<1>10. /\ Search!RoundDiv(num * a, den * b) \in Int
       /\ Search!RoundDiv(num * a, (Grain * den) * b) \in Int
  <2>1. num * a \in Int /\ den * b \in Nat \ {0} /\ (Grain * den) * b \in Nat \ {0}
    BY <1>1, <1>5, <1>6
  <2>. QED
    BY <2>1, RoundNearest
<1>11. Grain * Search!RoundDiv(num * a, (Grain * den) * b)
          <= Grain * Search!RoundDiv(num, Grain * den)
  BY <1>2, <1>8, <1>9, <1>10, TimesMonotone
<1>12. Grain * Search!RoundDiv(num, Grain * den) \in Nat
  BY <1>2, <1>9
<1>13. Search!Delta(n, r + 1) <= Search!Delta(n, r)
  BY <1>3, <1>4, <1>6, <1>7, <1>9, <1>10, <1>11
<1>14. Search!Delta(n, r) \in Nat
  BY <1>3, <1>9, <1>12
<1>15. p.kind = "integer" => Search!Delta(n, r) >= 1
  BY <1>3, <1>9
<1>. QED
  BY <1>13, <1>14, <1>15 DEF p

\* The first step is the configured one, a float's on a tick.
LEMMA FirstDelta ==
    ASSUME Walkable(raw), NEW n \in DOMAIN Contracts
    PROVE  \/ /\ raw.parameters[n].kind = "integer"
              /\ Search!Delta(n, 1) = raw.parameters[n].step
           \/ /\ raw.parameters[n].kind = "float"
              /\ \E k \in Nat \ {0} : Search!Delta(n, 1) = Grain * k
<1>. DEFINE p == raw.parameters[n]
           a == raw.shrink[1]
           b == raw.shrink[2]
<1>1. /\ a \in Nat \ {0} /\ b \in Nat \ {0} /\ Grain \in Nat \ {0}
      /\ p.step \in Int /\ p.step > 0 /\ p.kind \in {"integer", "float"}
      /\ p.kind = "float" => 2 * p.step > Grain
  BY ScoreAssumption DEF Walkable, ParameterOK
<1>2. Search!Delta(n, 1) =
         IF p.kind = "integer"
         THEN IF Search!RoundDiv(p.step * Search!Power(a, 1 - 1), Search!Power(b, 1 - 1)) < 1 THEN 1
              ELSE Search!RoundDiv(p.step * Search!Power(a, 1 - 1), Search!Power(b, 1 - 1))
         ELSE Grain * Search!RoundDiv(p.step * Search!Power(a, 1 - 1),
                                      Grain * Search!Power(b, 1 - 1))
  BY Zenon DEF Search!Delta
<1>. HIDE DEF p, a, b
<1>3. 1 - 1 = 0 /\ 0 \in Nat
  OBVIOUS
<1>4. Search!Power(a, 0) = 1 /\ Search!Power(b, 0) = 1
  BY <1>1, <1>3, Powers
<1>5. p.step * 1 = p.step /\ Grain * 1 = Grain
  BY <1>1
<1>6. Search!Delta(n, 1) =
         IF p.kind = "integer"
         THEN IF Search!RoundDiv(p.step, 1) < 1 THEN 1 ELSE Search!RoundDiv(p.step, 1)
         ELSE Grain * Search!RoundDiv(p.step, Grain)
  BY <1>2, <1>3, <1>4, <1>5
<1>7. Search!RoundDiv(p.step, 1) = p.step
  <2>1. 1 \in Nat \ {0} /\ 1 * p.step = p.step
    BY <1>1
  <2>. QED
    BY <2>1, <1>1, RoundExact
<1>8. /\ Search!RoundDiv(p.step, Grain) \in Int
      /\ 2 * p.step > Grain => Search!RoundDiv(p.step, Grain) >= 1
  BY <1>1, RoundNearest, RoundPositive
<1>9. CASE p.kind = "integer"
  BY <1>1, <1>6, <1>7, <1>9 DEF p
<1>10. CASE p.kind = "float"
  <2>1. Search!RoundDiv(p.step, Grain) \in Nat \ {0}
    BY <1>1, <1>8, <1>10
  <2>2. Search!Delta(n, 1) = Grain * Search!RoundDiv(p.step, Grain)
    BY <1>6, <1>10
  <2>. QED
    BY <2>1, <2>2, <1>10 DEF p
<1>. QED
  BY <1>1, <1>9, <1>10

----------------------------------------------------------------------------
\* Its proposals

\* How many parameters there are.
Space == Cardinality(DOMAIN Contracts)

\* The moves of a round: two for every parameter.
LEMMA MovesFacts ==
    ASSUME NEW r
    PROVE  LET M == Search!Moves(r)
               name == SetToSeq(DOMAIN Contracts) IN
           /\ Space \in Nat /\ DOMAIN M = 1..(2 * Space)
           /\ \A i \in DOMAIN M :
                 /\ (i + 1) \div 2 \in 1..Space
                 /\ M[i].name = name[(i + 1) \div 2] /\ M[i].name \in DOMAIN Contracts
                 /\ M[i].by = IF i % 2 = 1 THEN -Search!Delta(M[i].name, r)
                              ELSE Search!Delta(M[i].name, r)
           /\ \A n \in DOMAIN Contracts :
                 /\ \E i \in DOMAIN M : M[i].name = n /\ M[i].by = -Search!Delta(n, r)
                 /\ \E i \in DOMAIN M : M[i].name = n /\ M[i].by = Search!Delta(n, r)
           /\ \A i, j \in DOMAIN M : M[i].name = M[j].name /\ i # j => i % 2 # j % 2
<1>. DEFINE M == Search!Moves(r)
           name == SetToSeq(DOMAIN Contracts)
<1>1. /\ Space \in Nat /\ DOMAIN name = 1..Space /\ Len(name) = Space
      /\ \A k \in 1..Space : name[k] \in DOMAIN Contracts
      /\ \A i, j \in 1..Space : name[i] = name[j] => i = j
      /\ \A n \in DOMAIN Contracts : \E k \in 1..Space : name[k] = n
  <2>1. IsFiniteSet(DOMAIN Contracts)
    BY ScoreAssumption
  <2>2. Space \in Nat
    BY <2>1, FS_CardinalityType DEF Space
  <2>3. /\ name \in Seq(DOMAIN Contracts) /\ DOMAIN name = 1..Space /\ Len(name) = Space
        /\ \A i, j \in DOMAIN name : name[i] = name[j] => i = j
        /\ \A x \in DOMAIN Contracts : \E i \in DOMAIN name : name[i] = x
    BY <2>1, Listed DEF Space
  <2>. HIDE DEF name
  <2>4. \A k \in 1..Space : name[k] \in DOMAIN Contracts
    BY <2>3
  <2>. QED
    BY <2>2, <2>3, <2>4
<1>2. M = [i \in 1..(2 * Space) |->
             [name |-> name[(i + 1) \div 2],
              by |-> IF i % 2 = 1 THEN -Search!Delta(name[(i + 1) \div 2], r)
                     ELSE Search!Delta(name[(i + 1) \div 2], r)]]
  BY <1>1 DEF Search!Moves
<1>. HIDE DEF M, name
<1>3. DOMAIN M = 1..(2 * Space)
  BY <1>2
<1>4. ASSUME NEW i \in DOMAIN M
      PROVE  /\ (i + 1) \div 2 \in 1..Space
             /\ M[i].name = name[(i + 1) \div 2] /\ M[i].name \in DOMAIN Contracts
             /\ M[i].by = IF i % 2 = 1 THEN -Search!Delta(M[i].name, r)
                          ELSE Search!Delta(M[i].name, r)
  <2>1. i \in 1..(2 * Space)
    BY <1>3
  <2>2. (i + 1) \div 2 \in 1..Space
    BY <1>1, <2>1
  <2>3. M[i] = [name |-> name[(i + 1) \div 2],
                by |-> IF i % 2 = 1 THEN -Search!Delta(name[(i + 1) \div 2], r)
                       ELSE Search!Delta(name[(i + 1) \div 2], r)]
    BY <1>2, <2>1
  <2>. QED
    BY <1>1, <2>2, <2>3
<1>5. ASSUME NEW n \in DOMAIN Contracts
      PROVE  /\ \E i \in DOMAIN M : M[i].name = n /\ M[i].by = -Search!Delta(n, r)
             /\ \E i \in DOMAIN M : M[i].name = n /\ M[i].by = Search!Delta(n, r)
  <2>1. PICK k \in 1..Space : name[k] = n
    BY <1>1
  <2>2. 2 * k - 1 \in DOMAIN M /\ 2 * k \in DOMAIN M
    BY <1>1, <1>3
  <2>3. ((2 * k - 1) + 1) \div 2 = k /\ (2 * k + 1) \div 2 = k
        /\ (2 * k - 1) % 2 = 1 /\ (2 * k) % 2 # 1
    OBVIOUS
  <2>4. M[2 * k - 1].name = n /\ M[2 * k - 1].by = -Search!Delta(n, r)
    BY <1>4, <2>1, <2>2, <2>3
  <2>5. M[2 * k].name = n /\ M[2 * k].by = Search!Delta(n, r)
    BY <1>4, <2>1, <2>2, <2>3
  <2>. QED
    BY <2>2, <2>4, <2>5
<1>6. ASSUME NEW i \in DOMAIN M, NEW j \in DOMAIN M, M[i].name = M[j].name, i # j
      PROVE  i % 2 # j % 2
  <2>1. (i + 1) \div 2 = (j + 1) \div 2
    BY <1>1, <1>4, <1>6
  <2>2. i \in Nat /\ j \in Nat
    BY <1>1, <1>3
  <2>. QED
    BY <1>6, <2>1, <2>2
<1>. QED
  BY <1>1, <1>3, <1>4, <1>5, <1>6 DEF M, name

\* The moves of a round that stay within bounds.
Kept(c, r) ==
    {i \in DOMAIN Search!Moves(r) :
        Search!Within(Search!Moves(r)[i].name,
                      c[Search!Moves(r)[i].name] + Search!Moves(r)[i].by)}
Point(c, r, i) == Search!Moved(c, Search!Moves(r)[i].name, Search!Moves(r)[i].by)

\* The proposals are the moves that stay within bounds, each of them once.
LEMMA ProposalsFacts ==
    ASSUME NEW c, NEW r
    PROVE  LET P == Search!Proposals(c, r) IN
           /\ Len(P) \in Nat /\ Len(P) <= 2 * Space /\ DOMAIN P = 1..Len(P)
           /\ \A i \in Kept(c, r) : \E k \in DOMAIN P : P[k] = Point(c, r, i)
           /\ \E of \in [DOMAIN P -> Kept(c, r)] :
                 /\ \A k \in DOMAIN P : P[k] = Point(c, r, of[k])
                 /\ \A k, l \in DOMAIN P : of[k] = of[l] => k = l
<1>. DEFINE P == Search!Proposals(c, r)
           K == Kept(c, r)
           size == Cardinality(K)
           of == [k \in 1..size |-> Search!Nth(K, k)]
<1>1. DOMAIN Search!Moves(r) = 1..(2 * Space) /\ Space \in Nat
  BY MovesFacts
<1>2. IsFiniteSet(K) /\ K \in SUBSET Nat /\ size \in Nat /\ size <= 2 * Space
  <2>1. K \in SUBSET (1..(2 * Space))
    BY <1>1 DEF Kept
  <2>2. IsFiniteSet(1..(2 * Space)) /\ Cardinality(1..(2 * Space)) = 2 * Space
    <3>1. 1 \in Int /\ 2 * Space \in Int /\ (1 > 2 * Space => 2 * Space = 0)
      BY <1>1
    <3>2. IsFiniteSet(1..(2 * Space))
          /\ Cardinality(1..(2 * Space)) = IF 1 > 2 * Space THEN 0 ELSE 2 * Space - 1 + 1
      BY <3>1, FS_Interval
    <3>. QED
      BY <3>1, <3>2
  <2>3. IsFiniteSet(K) /\ Cardinality(K) <= Cardinality(1..(2 * Space))
    BY <2>1, <2>2, FS_Subset
  <2>4. Cardinality(K) \in Nat
    BY <2>3, FS_CardinalityType
  <2>. QED
    BY <2>1, <2>2, <2>3, <2>4
<1>3. P = [k \in 1..size |-> Point(c, r, Search!Nth(K, k))]
  BY SameCardinality, Zenon DEF Search!Proposals, Kept, Point
<1>. HIDE DEF P, K
<1>4. /\ \A k \in 1..size : Search!Nth(K, k) \in K
      /\ \A k, l \in 1..size : Search!Nth(K, k) = Search!Nth(K, l) => k = l
      /\ \A i \in K : \E k \in 1..size : Search!Nth(K, k) = i
  BY <1>2, NthLists
<1>. HIDE DEF size
<1>5. DOMAIN P = 1..size /\ Len(P) = size
  BY <1>2, <1>3
<1>6. /\ of \in [1..size -> K]
      /\ \A k \in 1..size : P[k] = Point(c, r, of[k])
      /\ \A k, l \in 1..size : of[k] = of[l] => k = l
  BY <1>3, <1>4
<1>7. \A i \in K : \E k \in 1..size : P[k] = Point(c, r, i)
  BY <1>3, <1>4
<1>. HIDE DEF of
<1>8. \E f \in [DOMAIN P -> K] :
         /\ \A k \in DOMAIN P : P[k] = Point(c, r, f[k])
         /\ \A k, l \in DOMAIN P : f[k] = f[l] => k = l
  BY <1>5, <1>6
<1>9. \A i \in K : \E k \in DOMAIN P : P[k] = Point(c, r, i)
  BY <1>5, <1>7
<1>10. Len(P) \in Nat /\ Len(P) <= 2 * Space /\ DOMAIN P = 1..Len(P)
  BY <1>2, <1>5
<1>. QED
  BY <1>8, <1>9, <1>10 DEF P, K

\* What lies between two ticks is not a tick.
LEMMA TicksApart ==
    ASSUME NEW x \in Int, NEW y \in Int, x % Grain = 0, y % Grain = 0, x < y
    PROVE  x + Grain <= y
<1>0. Grain \in Nat \ {0}
  BY ScoreAssumption
<1>1. /\ x = Grain * (x \div Grain) /\ x \div Grain \in Int
      /\ y = Grain * (y \div Grain) /\ y \div Grain \in Int
  BY <1>0
<1>. DEFINE a == x \div Grain
           b == y \div Grain
<1>. HIDE DEF a, b
<1>2. a \in Int /\ b \in Int /\ x = Grain * a /\ y = Grain * b
  BY <1>1 DEF a, b
<1>3. b <= a => Grain * b <= Grain * a
  BY <1>0, <1>2, TimesMonotone
<1>4. a < b => Grain * a + Grain <= Grain * b
  BY <1>0, <1>2, TimesStrict
<1>. QED
  BY <1>2, <1>3, <1>4

\* A value is not rounded beyond a bound on a tick.
LEMMA NormalizeWithin ==
    ASSUME NEW v \in Int, NEW b \in Int, b % Grain = 0
    PROVE  /\ v <= b => Search!Normalize("float", v) <= b
           /\ v >= b => Search!Normalize("float", v) >= b
<1>. DEFINE m == Search!Normalize("float", v)
<1>0. Grain \in Nat \ {0}
  BY ScoreAssumption
<1>1. m \in Int /\ m % Grain = 0 /\ 2 * m - Grain <= 2 * v /\ 2 * v <= 2 * m + Grain
  BY NormalizeFloat
<1>. HIDE DEF m
<1>2. m < b => m + Grain <= b
  BY <1>1, TicksApart
<1>3. b < m => b + Grain <= m
  BY <1>1, TicksApart
<1>4. (v <= b => m <= b) /\ (v >= b => m >= b)
  BY <1>0, <1>1, <1>2, <1>3
<1>. QED
  BY <1>4 DEF m

\* Between two ticks but not half way, whole ticks are not lost.
LEMMA NormalizeShifted ==
    ASSUME NEW v \in Int, NEW k \in Int, 2 * (v % Grain) # Grain
    PROVE  Search!Normalize("float", v + Grain * k) = Search!Normalize("float", v) + Grain * k
<1>0. Grain \in Nat \ {0}
  BY ScoreAssumption
<1>. DEFINE q == v \div Grain
           s == v % Grain
           u == v + Grain * k
<1>1. q \in Int /\ s \in 0..(Grain - 1) /\ v = Grain * q + s
  BY <1>0
<1>2. u \in Int /\ u \div Grain \in Int /\ u % Grain \in 0..(Grain - 1)
      /\ u = Grain * (u \div Grain) + (u % Grain)
  BY <1>0
<1>3. u = Grain * (q + k) + s
  <2>1. Grain * (q + k) = Grain * q + Grain * k
    BY <1>0, <1>1
  <2>2. Grain * q \in Int /\ Grain * k \in Int
    BY <1>0, <1>1
  <2>. HIDE DEF q, s
  <2>. QED
    BY <1>1, <2>1, <2>2
<1>. DEFINE p == u \div Grain
           t == u % Grain
<1>4. p = q + k /\ t = s
  <2>. HIDE DEF q, s, p, t
  <2>1. p \in Int /\ t \in 0..(Grain - 1) /\ u = Grain * p + t
    BY <1>2 DEF p, t
  <2>2. q + k \in Int
    BY <1>1
  <2>. HIDE DEF u
  <2>3. p < q + k => Grain * p + Grain <= Grain * (q + k)
    BY <1>0, <2>1, <2>2, TimesStrict
  <2>4. q + k < p => Grain * (q + k) + Grain <= Grain * p
    BY <1>0, <2>1, <2>2, TimesStrict
  <2>5. Grain * p \in Int /\ Grain * (q + k) \in Int
    BY <1>0, <2>1, <2>2
  <2>6. p = q + k
    BY <1>0, <1>1, <1>3, <2>1, <2>2, <2>3, <2>4, <2>5
  <2>. QED
    BY <1>1, <1>3, <2>1, <2>5, <2>6
<1>. DEFINE up == 2 * s > Grain
<1>5. Search!RoundDiv(v, Grain) = IF up THEN q + 1 ELSE q
  BY <1>0, <1>1 DEF Search!RoundDiv
<1>6. Search!RoundDiv(u, Grain) = IF up THEN p + 1 ELSE p
  <2>1. 2 * t # Grain
    BY <1>4
  <2>2. Search!RoundDiv(u, Grain) =
           IF 2 * t > Grain \/ (2 * t = Grain /\ p % 2 = 1) THEN p + 1 ELSE p
    BY DEF Search!RoundDiv
  <2>. HIDE DEF p, t, u
  <2>. QED
    BY <2>1, <2>2, <1>4
<1>. HIDE DEF q, s, p, t, u, up
<1>. DEFINE a == Search!RoundDiv(v, Grain)
           b == Search!RoundDiv(u, Grain)
<1>7. a \in Int /\ b = a + k
  <2>1. p = q + k
    BY <1>4
  <2>. QED
    BY <1>1, <1>5, <1>6, <2>1
<1>8. Search!Normalize("float", v) = Grain * a /\ Search!Normalize("float", u) = Grain * b
  BY DEF Search!Normalize
<1>. HIDE DEF a, b
<1>9. Grain * b = Grain * a + Grain * k
  BY <1>0, <1>7
<1>. QED
  BY <1>8, <1>9 DEF u

----------------------------------------------------------------------------
\* The walk

\* Where the walk can be: within the bounds, or within half a tick of them
\* where the search has rounded a value.
Near(v, p) == 2 * v \in (2 * p.minimum - Grain)..(2 * p.maximum + Grain)

Reachable(c) ==
    /\ DOMAIN c = DOMAIN Contracts
    /\ \A n \in DOMAIN Contracts :
          /\ c[n] \in Int
          /\ \/ Search!Within(n, c[n])
             \/ n \in Floats /\ c[n] % Grain = 0 /\ Near(c[n], Limits(n))

\* What a proposal does to each of the parameters.
LEMMA PointFacts ==
    ASSUME Walkable(raw), NEW c, Reachable(c), NEW r \in Nat \ {0}, NEW i \in Kept(c, r)
    PROVE  LET p == Point(c, r, i)
               m == Search!Moves(r)[i] IN
           /\ m.name \in DOMAIN Contracts /\ m.by \in Int
           /\ Search!Within(m.name, c[m.name] + m.by)
           /\ DOMAIN p = DOMAIN Contracts
           /\ \A n \in DOMAIN Contracts :
                 p[n] = Search!Normalize(Contracts[n].kind,
                                         IF n = m.name THEN c[n] + m.by ELSE c[n])
<1>. DEFINE m == Search!Moves(r)[i]
<1>1. m.name \in DOMAIN Contracts
      /\ m.by = IF i % 2 = 1 THEN -Search!Delta(m.name, r) ELSE Search!Delta(m.name, r)
  <2>1. i \in DOMAIN Search!Moves(r)
    BY DEF Kept
  <2>. QED
    BY <2>1, MovesFacts
<1>2. Search!Within(m.name, c[m.name] + m.by)
  BY DEF Kept
<1>3. m.by \in Int
  <2>1. Search!Delta(m.name, r) \in Nat
    BY <1>1, DeltaFacts
  <2>. HIDE DEF m
  <2>. QED
    BY <1>1, <2>1
<1>4. Point(c, r, i) = [n \in DOMAIN c |->
          Search!Normalize(raw.parameters[n].kind, IF n = m.name THEN c[n] + m.by ELSE c[n])]
  BY Zenon DEF Point, Search!Moved
<1>5. DOMAIN c = DOMAIN Contracts
      /\ \A n \in DOMAIN Contracts : raw.parameters[n].kind = Contracts[n].kind
  BY DEF Reachable, Walkable
<1>. HIDE DEF m
<1>6. \A n \in DOMAIN Contracts :
         Point(c, r, i)[n] = Search!Normalize(Contracts[n].kind,
                                              IF n = m.name THEN c[n] + m.by ELSE c[n])
  BY <1>4, <1>5
<1>7. DOMAIN Point(c, r, i) = DOMAIN Contracts
  BY <1>4, <1>5
<1>. QED
  BY <1>1, <1>2, <1>3, <1>6, <1>7 DEF m

\* A proposal respects the bounds, up to the rounding of a float.
LEMMA PointWithin ==
    ASSUME Walkable(raw), NEW c, Reachable(c), NEW r \in Nat \ {0}, NEW i \in Kept(c, r),
           NEW n \in DOMAIN Contracts
    PROVE  LET p == Point(c, r, i) IN
           /\ p[n] \in Int
           /\ n \in Integral => p[n] \in Limits(n).minimum..Limits(n).maximum
           /\ n \in Floats =>
                 /\ Near(p[n], Limits(n)) /\ p[n] % Grain = 0
                 /\ c[n] % Grain = 0 /\ Limits(n).maximum % Grain = 0
                       => p[n] <= Limits(n).maximum
                 /\ c[n] % Grain = 0 /\ Limits(n).minimum % Grain = 0
                       => p[n] >= Limits(n).minimum
<1>. DEFINE m == Search!Moves(r)[i]
           v == IF n = m.name THEN c[n] + m.by ELSE c[n]
           w == Point(c, r, i)[n]
           low == Limits(n).minimum
           high == Limits(n).maximum
<1>0. Grain \in Nat \ {0} /\ low \in Int /\ high \in Int
  BY ScoreAssumption DEF Walkable, ParameterOK, Limits
<1>1. /\ m.by \in Int /\ Search!Within(m.name, c[m.name] + m.by)
      /\ w = Search!Normalize(Contracts[n].kind, v)
  BY PointFacts
<1>2. c[n] \in Int
      /\ (Search!Within(n, c[n]) \/ (n \in Floats /\ c[n] % Grain = 0 /\ Near(c[n], Limits(n))))
  BY DEF Reachable
<1>3. v \in Int
  BY <1>1, <1>2
<1>4. \/ low <= v /\ v <= high
      \/ n \in Floats /\ v = c[n] /\ v % Grain = 0 /\ Near(v, Limits(n))
  <2>1. CASE n = m.name
    BY <1>1, <2>1 DEF Search!Within, Limits
  <2>2. CASE n # m.name
    BY <1>2, <2>2 DEF Search!Within, Limits
  <2>. QED
    BY <2>1, <2>2
<1>4a. c[n] % Grain = 0 /\ n # m.name => v % Grain = 0
  OBVIOUS
<1>4b. n = m.name => low <= v /\ v <= high
  BY <1>1 DEF Search!Within, Limits
<1>4c. Near(v, Limits(n)) <=> 2 * low - Grain <= 2 * v /\ 2 * v <= 2 * high + Grain
  BY <1>0, <1>3 DEF Near
<1>. HIDE DEF v, w, m, low, high
<1>5. CASE n \in Integral
  <2>1. Contracts[n].kind = "integer" /\ n \notin Floats
    BY <1>5, ScoreAssumption DEF Integral, Floats
  <2>2. w = v
    BY <1>1, <2>1 DEF Search!Normalize
  <2>3. w \in low..high
    BY <1>0, <1>3, <1>4, <2>1, <2>2
  <2>. QED
    BY <2>1, <2>2, <2>3, <1>3 DEF w, low, high
<1>6. CASE n \in Floats
  <2>1. w = Search!Normalize("float", v) /\ n \notin Integral
    BY <1>1, <1>6 DEF Floats, Integral
  <2>2. /\ w \in Int /\ w % Grain = 0
        /\ 2 * w - Grain <= 2 * v /\ 2 * v <= 2 * w + Grain
        /\ v % Grain = 0 => w = v
    BY <1>3, <2>1, NormalizeFloat
  <2>3. 2 * low - Grain <= 2 * w /\ 2 * w <= 2 * high + Grain
    <3>1. CASE low <= v /\ v <= high
      BY <1>0, <1>3, <2>2, <3>1
    <3>2. CASE v % Grain = 0 /\ Near(v, Limits(n))
      BY <1>4c, <2>2, <3>2
    <3>. QED
      BY <1>4, <3>1, <3>2
  <2>4. Near(w, Limits(n))
    BY <1>0, <2>2, <2>3 DEF Near, low, high
  <2>5. ASSUME c[n] % Grain = 0, high % Grain = 0 PROVE w <= high
    <3>1. v <= high => w <= high
      BY <1>0, <1>3, <2>1, <2>5, NormalizeWithin
    <3>2. CASE v % Grain = 0
      <4>1. high < w => high + Grain <= w
        BY <1>0, <2>2, <2>5, TicksApart
      <4>. QED
        BY <1>0, <2>2, <2>3, <4>1
    <3>. QED
      BY <3>1, <3>2, <1>4a, <1>4b, <2>5
  <2>6. ASSUME c[n] % Grain = 0, low % Grain = 0 PROVE w >= low
    <3>1. v >= low => w >= low
      BY <1>0, <1>3, <2>1, <2>6, NormalizeWithin
    <3>2. CASE v % Grain = 0
      <4>1. w < low => w + Grain <= low
        BY <1>0, <2>2, <2>6, TicksApart
      <4>. QED
        BY <1>0, <2>2, <2>3, <4>1
    <3>3. n = m.name => v >= low
      BY <1>0, <1>3, <1>4b
    <3>. QED
      BY <3>1, <3>2, <3>3, <1>4a, <2>6
  <2>. QED
    BY <2>1, <2>2, <2>4, <2>5, <2>6 DEF w, low, high
<1>. QED
  BY <1>5, <1>6 DEF Integral

\* The invariant, part two: where the search is.
Walking == pc = "search" => round \in Nat \ {0} /\ Reachable(center)

\* The walk starts within the bounds.
LEMMA BaselineReachable ==
    ASSUME Walkable(raw)
    PROVE  /\ Reachable(Search!BaselinePoint)
           /\ \A n \in DOMAIN Contracts : Search!BaselinePoint[n] = raw.parameters[n].baseline
<1>. DEFINE c == Search!BaselinePoint
<1>1. DOMAIN c = DOMAIN Contracts /\ \A n \in DOMAIN Contracts : c[n] = raw.parameters[n].baseline
  BY DEF Search!BaselinePoint, Walkable
<1>. HIDE DEF c
<1>2. ASSUME NEW n \in DOMAIN Contracts PROVE c[n] \in Int /\ Search!Within(n, c[n])
  <2>1. ParameterOK(raw.parameters[n])
    BY DEF Walkable
  <2>. QED
    BY <1>1, <2>1 DEF ParameterOK, Search!Within
<1>. QED
  BY <1>1, <1>2 DEF Reachable, c

\* A neighbour comes from a move that was kept,
LEMMA NeighborsArePoints ==
    ASSUME NEW p \in Neighbors
    PROVE  \E i \in Kept(center, round) : p = Point(center, round, i)
<1>. DEFINE near == Search!Proposals(center, round)
<1>1. PICK k \in DOMAIN near : p = near[k]
  BY Zenon DEF Neighbors
<1>2. PICK of \in [DOMAIN near -> Kept(center, round)] :
         \A j \in DOMAIN near : near[j] = Point(center, round, of[j])
  BY ProposalsFacts
<1>. HIDE DEF near
<1>. QED
  BY <1>1, <1>2

\* and every move that was kept leads to a neighbour.
LEMMA PointsAreNeighbors ==
    ASSUME NEW i \in Kept(center, round)
    PROVE  Point(center, round, i) \in Neighbors
<1>. DEFINE near == Search!Proposals(center, round)
<1>1. PICK k \in DOMAIN near : near[k] = Point(center, round, i)
  BY ProposalsFacts
<1>. QED
  BY <1>1, Zenon DEF Neighbors

\* From where the walk may be it gets nowhere else.
LEMMA NeighborReachable ==
    ASSUME Walkable(raw), round \in Nat \ {0}, Reachable(center), NEW p \in Neighbors
    PROVE  Reachable(p)
<1>1. PICK i \in Kept(center, round) : p = Point(center, round, i)
  BY NeighborsArePoints
<1>2. DOMAIN p = DOMAIN Contracts
  BY <1>1, PointFacts
<1>3. ASSUME NEW n \in DOMAIN Contracts
      PROVE  /\ p[n] \in Int
             /\ \/ Search!Within(n, p[n])
                \/ n \in Floats /\ p[n] % Grain = 0 /\ Near(p[n], Limits(n))
  <2>1. /\ p[n] \in Int
        /\ n \in Integral => p[n] \in Limits(n).minimum..Limits(n).maximum
        /\ n \in Floats => Near(p[n], Limits(n)) /\ p[n] % Grain = 0
    BY <1>1, PointWithin
  <2>2. n \in Integral \/ n \in Floats
    BY DEF Integral
  <2>3. Limits(n).minimum \in Int /\ Limits(n).maximum \in Int
    BY DEF Walkable, ParameterOK, Limits
  <2>4. n \in Integral => Search!Within(n, p[n])
    BY <2>1, <2>3 DEF Search!Within, Limits
  <2>. QED
    BY <2>1, <2>2, <2>4
<1>. QED
  BY <1>2, <1>3 DEF Reachable

\* The inductive invariant.
IInv == Loaded /\ Compared /\ Walking

\* The invariant holds in every reachable state.
LEMMA InvariantHolds == Spec => []IInv
<1>1. Init => Walking
  BY DEF Init, Walking
<1>2. Loaded /\ Walking /\ [Next]_vars => Walking'
  <2>. SUFFICES ASSUME Loaded, Walking, [Next]_vars, pc' = "search"
                PROVE  round' \in Nat \ {0} /\ Reachable(center)'
    BY DEF Walking
  <2>1. CASE LoadConfig
    BY <2>1 DEF LoadConfig
  <2>2. CASE ScoreBoth
    BY <2>2 DEF ScoreBoth
  <2>3. CASE StartSearch
    <3>1. pc = "accepted" /\ raw' = raw /\ round' = 1 /\ center' = Search!BaselinePoint
      BY <2>3 DEF StartSearch
    <3>2. Walkable(raw)
      BY <3>1, AcceptedIsWalkable DEF Loaded
    <3>3. Reachable(center')
      BY <3>1, <3>2, BaselineReachable
    <3>4. Reachable(center)' <=> Reachable(center')
      BY <3>1, Zenon DEF Reachable, Search!Within, Near, Limits, Floats
    <3>. QED
      BY <3>1, <3>3, <3>4
  <2>4. CASE Recenter
    <3>1. /\ pc = "search" /\ raw' = raw /\ round' = round + 1
          /\ center' \in Neighbors \cup {center}
      BY <2>4 DEF Recenter
    <3>2. Walkable(raw) /\ round \in Nat \ {0} /\ Reachable(center)
      BY <3>1, AcceptedIsWalkable DEF Loaded, Walking
    <3>3. Reachable(center')
      BY <3>1, <3>2, NeighborReachable
    <3>4. Reachable(center)' <=> Reachable(center')
      BY <3>1, Zenon DEF Reachable, Search!Within, Near, Limits, Floats
    <3>. QED
      BY <3>1, <3>2, <3>3, <3>4
  <2>5. CASE UNCHANGED vars
    <3>1. pc = "search" /\ raw' = raw /\ round' = round /\ center' = center
      BY <2>5 DEF vars
    <3>2. Reachable(center)' <=> Reachable(center)
      BY <3>1, Zenon DEF Reachable, Search!Within, Near, Limits, Floats
    <3>. QED
      BY <3>1, <3>2 DEF Walking
  <2>. QED
    BY <2>1, <2>2, <2>3, <2>4, <2>5 DEF Next
<1>3. Spec => [](Loaded /\ Compared)
  BY LoadedHolds
<1>4. Spec => []Walking
  <2>1. Spec => []Loaded
    BY <1>3, PTL
  <2>. QED
    BY <1>1, <1>2, <2>1, PTL DEF Spec
<1>. QED
  BY <1>3, <1>4, PTL DEF IInv

\* Where the walk can be, proposals respect the bounds,
LEMMA WithinBounds == Loaded /\ Walking => ProposalsWithinBounds
<1>. SUFFICES ASSUME Loaded, Walking, pc = "search", NEW p \in Neighbors
              PROVE /\ \A n \in Integral : p[n] \in Limits(n).minimum..Limits(n).maximum
                    /\ \A n \in Floats :
                          /\ Near(p[n], Limits(n))
                          /\ p[n] % Grain = 0
                          /\ center[n] % Grain = 0 /\ Limits(n).maximum % Grain = 0
                                => p[n] <= Limits(n).maximum
                          /\ center[n] % Grain = 0 /\ Limits(n).minimum % Grain = 0
                                => p[n] >= Limits(n).minimum
  BY Zenon DEF ProposalsWithinBounds, Near
<1>1. Walkable(raw) /\ round \in Nat \ {0} /\ Reachable(center)
  BY AcceptedIsWalkable DEF Loaded, Walking
<1>2. PICK i \in Kept(center, round) : p = Point(center, round, i)
  BY NeighborsArePoints
<1>3. \A n \in Integral : n \in DOMAIN Contracts
  BY DEF Integral
<1>4. \A n \in Floats : n \in DOMAIN Contracts
  BY DEF Floats
<1>5. ASSUME NEW n \in Integral PROVE p[n] \in Limits(n).minimum..Limits(n).maximum
  BY <1>1, <1>2, <1>3, PointWithin
<1>6. ASSUME NEW n \in Floats
      PROVE  /\ Near(p[n], Limits(n)) /\ p[n] % Grain = 0
             /\ center[n] % Grain = 0 /\ Limits(n).maximum % Grain = 0
                   => p[n] <= Limits(n).maximum
             /\ center[n] % Grain = 0 /\ Limits(n).minimum % Grain = 0
                   => p[n] >= Limits(n).minimum
  BY <1>1, <1>2, <1>4, PointWithin
<1>. QED
  BY <1>5, <1>6

\* differ from the center in one parameter,
LEMMA OneCoordinate == Loaded /\ Walking => OneCoordinateMoves
<1>. SUFFICES ASSUME Loaded, Walking, pc = "search", NEW p \in Neighbors
              PROVE Cardinality({n \in DOMAIN Contracts :
                        p[n] # Search!Normalize(Contracts[n].kind, center[n])}) <= 1
  BY Zenon DEF OneCoordinateMoves
<1>1. Walkable(raw) /\ round \in Nat \ {0} /\ Reachable(center)
  BY AcceptedIsWalkable DEF Loaded, Walking
<1>2. PICK i \in Kept(center, round) : p = Point(center, round, i)
  BY NeighborsArePoints
<1>. DEFINE m == Search!Moves(round)[i].name
           D == {n \in DOMAIN Contracts :
                    p[n] # Search!Normalize(Contracts[n].kind, center[n])}
<1>3. \A n \in DOMAIN Contracts : n # m =>
         p[n] = Search!Normalize(Contracts[n].kind, center[n])
  BY <1>1, <1>2, PointFacts
<1>4. D \in SUBSET {m}
  BY <1>3
<1>5. IsFiniteSet({m}) /\ Cardinality({m}) = 1
  BY FS_Singleton
<1>. HIDE DEF D, m
<1>6. Cardinality(D) <= 1
  BY <1>4, <1>5, FS_Subset
<1>. QED
  BY <1>6 DEF D

\* A round proposes neighbours of the center and nothing else.
THEOREM ProposesNeighborsOnly == Spec => []ProposalsAreNeighbors
<1>1. IInv => ProposalsAreNeighbors
  BY WithinBounds, OneCoordinate DEF IInv, ProposalsAreNeighbors
<1>. QED
  BY <1>1, InvariantHolds, PTL

\* and are not missing where there is room.
LEMMA StepsNeverVanish == Loaded /\ Walking => StepsShrinkNotVanish
<1>. SUFFICES ASSUME Loaded, Walking, pc = "search" PROVE StepsShrinkNotVanish
  BY DEF StepsShrinkNotVanish
<1>1. Walkable(raw) /\ round \in Nat \ {0} /\ Reachable(center)
  BY AcceptedIsWalkable DEF Loaded, Walking
<1>2. ASSUME NEW n \in Integral
      PROVE  /\ center[n] + Search!Delta(n, round) <= Limits(n).maximum =>
                   \E p \in Neighbors : p[n] > center[n]
             /\ center[n] - Search!Delta(n, round) >= Limits(n).minimum =>
                   \E p \in Neighbors : p[n] < center[n]
  <2>. DEFINE delta == Search!Delta(n, round)
  <2>1. n \in DOMAIN Contracts /\ n \notin Floats /\ Contracts[n].kind = "integer"
    BY ScoreAssumption DEF Integral, Floats
  <2>2. delta \in Nat /\ delta >= 1
    BY <1>1, <2>1, DeltaFacts DEF Walkable
  <2>3. center[n] \in Int /\ Limits(n).minimum <= center[n] /\ center[n] <= Limits(n).maximum
    BY <1>1, <2>1 DEF Reachable, Search!Within, Limits
  <2>4. Limits(n).minimum \in Int /\ Limits(n).maximum \in Int
    BY <1>1, <2>1 DEF Walkable, ParameterOK, Limits
  <2>5. ASSUME NEW i \in DOMAIN Search!Moves(round), Search!Moves(round)[i].name = n,
               Limits(n).minimum <= center[n] + Search!Moves(round)[i].by,
               center[n] + Search!Moves(round)[i].by <= Limits(n).maximum
        PROVE  \E p \in Neighbors : p[n] = center[n] + Search!Moves(round)[i].by
    <3>1. i \in Kept(center, round)
      BY <2>5 DEF Kept, Search!Within, Limits
    <3>2. Point(center, round, i)[n]
             = Search!Normalize("integer", center[n] + Search!Moves(round)[i].by)
      BY <1>1, <2>1, <2>5, <3>1, PointFacts
    <3>3. Point(center, round, i)[n] = center[n] + Search!Moves(round)[i].by
      BY <3>2 DEF Search!Normalize
    <3>. QED
      BY <3>1, <3>3, PointsAreNeighbors
  <2>6. ASSUME center[n] + delta <= Limits(n).maximum
        PROVE  \E p \in Neighbors : p[n] > center[n]
    <3>1. PICK i \in DOMAIN Search!Moves(round) :
             Search!Moves(round)[i].name = n /\ Search!Moves(round)[i].by = delta
      BY <2>1, MovesFacts
    <3>. HIDE DEF delta
    <3>2. Limits(n).minimum <= center[n] + delta /\ center[n] + delta > center[n]
      BY <2>2, <2>3, <2>4
    <3>3. PICK p \in Neighbors : p[n] = center[n] + delta
      BY <2>5, <2>6, <3>1, <3>2
    <3>. QED
      BY <3>2, <3>3
  <2>7. ASSUME center[n] - delta >= Limits(n).minimum
        PROVE  \E p \in Neighbors : p[n] < center[n]
    <3>1. PICK i \in DOMAIN Search!Moves(round) :
             Search!Moves(round)[i].name = n /\ Search!Moves(round)[i].by = -delta
      BY <2>1, MovesFacts
    <3>. HIDE DEF delta
    <3>2. /\ Limits(n).minimum <= center[n] + (-delta) /\ center[n] + (-delta) < center[n]
          /\ center[n] + (-delta) <= Limits(n).maximum
      BY <2>2, <2>3, <2>4, <2>7
    <3>3. PICK p \in Neighbors : p[n] = center[n] + (-delta)
      BY <2>5, <3>1, <3>2
    <3>. QED
      BY <3>2, <3>3
  <2>. QED
    BY <2>6, <2>7
<1>3. ASSUME NEW n \in DOMAIN Contracts
      PROVE  Search!Delta(n, round + 1) <= Search!Delta(n, round)
  BY <1>1, DeltaFacts
<1>. QED
  BY <1>2, <1>3, Zenon DEF StepsShrinkNotVanish

\* The steps of the search shrink, and no integer step shrinks to nothing.
THEOREM StepsRefine == Spec => []StepsShrinkNotVanish
<1>1. IInv => StepsShrinkNotVanish
  BY StepsNeverVanish DEF IInv
<1>. QED
  BY <1>1, InvariantHolds, PTL

----------------------------------------------------------------------------
\* The first neighbourhood

\* What CoordinateSearch assumes is true.
LEMMA SearchableOnAccepted ==
    ASSUME Walkable(raw) PROVE Search!Searchable
<1>1. SetToSeq(DOMAIN Contracts) \in Seq(DOMAIN raw.parameters)
  <2>1. IsFiniteSet(DOMAIN Contracts) /\ DOMAIN raw.parameters = DOMAIN Contracts
    BY ScoreAssumption DEF Walkable
  <2>2. SetToSeq(DOMAIN Contracts) \in Seq(DOMAIN Contracts)
    BY <2>1, Listed
  <2>. QED
    BY <2>1, <2>2
<1>2. ASSUME NEW n \in DOMAIN raw.parameters
      PROVE  Search!ValidParameter(raw.parameters[n])
  <2>1. ParameterOK(raw.parameters[n])
    BY DEF Walkable
  <2>. QED
    BY <2>1 DEF ParameterOK, Search!ValidParameter
<1>3. Grain \in Nat \ {0}
  BY ScoreAssumption
<1>4. raw.shrink[1] \in Nat \ {0} /\ raw.shrink[2] \in Nat \ {0} /\ raw.shrink[1] <= raw.shrink[2]
  BY DEF Walkable
<1>. QED
  BY <1>1, <1>2, <1>3, <1>4 DEF Search!Searchable

\* The first moves, unless a baseline is half way between two ticks: a value
\* moved down, one left alone and one moved up are three.
LEMMA FirstMovesDiffer ==
    ASSUME Walkable(raw), \A n \in Floats : ~HalfTick(n), NEW n \in DOMAIN Contracts
    PROVE  LET at(d) == Search!Normalize(Contracts[n].kind, Search!BaselinePoint[n] + d)
               here == Search!Normalize(Contracts[n].kind, Search!BaselinePoint[n])
               delta == Search!Delta(n, 1)
           IN  at(delta) # here /\ at(-delta) # here /\ at(delta) # at(-delta)
<1>. DEFINE b == Search!BaselinePoint[n]
           delta == Search!Delta(n, 1)
<1>1. b \in Int /\ b = Limits(n).baseline
  BY BaselineReachable DEF Reachable, Limits
<1>2. Grain \in Nat \ {0} /\ Contracts[n].kind = raw.parameters[n].kind
  BY ScoreAssumption DEF Walkable
<1>3. CASE raw.parameters[n].kind = "integer"
  <2>1. delta \in Int /\ delta > 0
    BY <1>3, FirstDelta DEF Walkable, ParameterOK
  <2>. HIDE DEF b, delta
  <2>2. \A v : Search!Normalize(Contracts[n].kind, v) = v
    BY <1>2, <1>3 DEF Search!Normalize
  <2>3. b + delta # b /\ b + (-delta) # b /\ b + delta # b + (-delta)
    BY <1>1, <2>1
  <2>. QED
    BY <2>2, <2>3 DEF b, delta
<1>4. CASE raw.parameters[n].kind # "integer"
  <2>1. PICK k \in Nat \ {0} : delta = Grain * k
    BY <1>4, FirstDelta
  <2>2. Contracts[n].kind = "float" /\ 2 * (b % Grain) # Grain
    BY <1>1, <1>2, <1>4, ScoreAssumption DEF Floats, HalfTick
  <2>. HIDE DEF b, delta
  <2>3. k \in Int /\ -k \in Int /\ Grain * (-k) = -(Grain * k) /\ Grain * k \in Int
    BY <1>2
  <2>4. Grain * k >= Grain
    <3>1. Grain * 1 <= Grain * k /\ Grain * 1 = Grain
      BY <1>2, TimesMonotone
    <3>. QED
      BY <3>1
  <2>5. Search!Normalize("float", b + Grain * k) = Search!Normalize("float", b) + Grain * k
    BY <1>1, <2>2, <2>3, NormalizeShifted
  <2>6. Search!Normalize("float", b + Grain * (-k)) = Search!Normalize("float", b) + Grain * (-k)
    BY <1>1, <2>2, <2>3, NormalizeShifted
  <2>. DEFINE h == Search!Normalize("float", b)
  <2>7. h \in Int
    BY <1>1, NormalizeFloat
  <2>. HIDE DEF h
  <2>8. /\ Search!Normalize("float", b + delta) = h + Grain * k
        /\ Search!Normalize("float", b + (-delta)) = h - Grain * k
    BY <2>1, <2>3, <2>5, <2>6, <2>7 DEF h
  <2>9. h + Grain * k # h /\ h - Grain * k # h /\ h + Grain * k # h - Grain * k
    BY <1>2, <2>3, <2>4, <2>7
  <2>. QED
    BY <2>2, <2>8, <2>9 DEF b, delta, h
<1>. QED
  BY <1>3, <1>4

\* Which way a move goes.
LEMMA MoveSign ==
    ASSUME NEW r, NEW i \in DOMAIN Search!Moves(r)
    PROVE  /\ i \in Nat
           /\ Search!Moves(r)[i].by =
                 IF i % 2 = 1 THEN -Search!Delta(Search!Moves(r)[i].name, r)
                 ELSE Search!Delta(Search!Moves(r)[i].name, r)
<1>1. i \in 1..(2 * Space) /\ Space \in Nat
  BY MovesFacts, Zenon
<1>2. Search!Moves(r)[i].by =
         IF i % 2 = 1 THEN -Search!Delta(Search!Moves(r)[i].name, r)
         ELSE Search!Delta(Search!Moves(r)[i].name, r)
  BY MovesFacts, Zenon
<1>. QED
  BY <1>1, <1>2

\* Different moves from the baseline lead to different points.
LEMMA FirstPointsDiffer ==
    ASSUME Walkable(raw), \A n \in Floats : ~HalfTick(n),
           NEW i \in Kept(Search!BaselinePoint, 1)
    PROVE  /\ \A j \in Kept(Search!BaselinePoint, 1) :
                 Point(Search!BaselinePoint, 1, i) = Point(Search!BaselinePoint, 1, j) => i = j
           /\ \A n \in DOMAIN Contracts :
                 Point(Search!BaselinePoint, 1, i) # Search!Moved(Search!BaselinePoint, n, 0)
<1>. DEFINE c == Search!BaselinePoint
           M == Search!Moves(1)
           m == M[i].name
           At(d) == Search!Normalize(Contracts[m].kind, c[m] + d)
           here == Search!Normalize(Contracts[m].kind, c[m])
           delta == Search!Delta(m, 1)
<1>1. Reachable(c) /\ 1 \in Nat \ {0}
  BY BaselineReachable
<1>2. m \in DOMAIN Contracts /\ Point(c, 1, i)[m] = At(M[i].by)
  BY <1>1, PointFacts
<1>3. M[i].by = -delta \/ M[i].by = delta
  BY MovesFacts DEF Kept
<1>4. At(delta) # here /\ At(-delta) # here /\ At(delta) # At(-delta)
  BY <1>2, FirstMovesDiffer
<1>5. ASSUME NEW j \in Kept(c, 1), i # j PROVE Point(c, 1, i) # Point(c, 1, j)
  <2>1. CASE M[j].name # m
    <3>1. Point(c, 1, j)[m] = here
      BY <1>1, <1>2, <2>1, PointFacts
    <3>. HIDE DEF At, here
    <3>. QED
      BY <1>2, <1>3, <1>4, <3>1
  <2>2. CASE M[j].name = m
    <3>1. Point(c, 1, j)[m] = At(M[j].by)
      BY <1>1, <1>2, <2>2, PointFacts
    <3>2. i \in DOMAIN M /\ j \in DOMAIN M
      BY DEF Kept
    <3>3. i % 2 # j % 2
      BY <1>5, <2>2, <3>2, MovesFacts
    <3>4. i \in Nat /\ j \in Nat
      BY <3>2, MoveSign
    <3>5. /\ M[i].by = IF i % 2 = 1 THEN -delta ELSE delta
          /\ M[j].by = IF j % 2 = 1 THEN -delta ELSE delta
      BY <2>2, <3>2, MoveSign
    <3>6. \/ M[i].by = delta /\ M[j].by = -delta
          \/ M[i].by = -delta /\ M[j].by = delta
      BY <3>3, <3>4, <3>5
    <3>. HIDE DEF At, delta
    <3>. QED
      BY <1>2, <1>4, <3>1, <3>6
  <2>. QED
    BY <2>1, <2>2
<1>6. ASSUME NEW n \in DOMAIN Contracts PROVE Point(c, 1, i) # Search!Moved(c, n, 0)
  <2>1. c[m] \in Int /\ DOMAIN c = DOMAIN Contracts
        /\ raw.parameters[m].kind = Contracts[m].kind
    BY <1>1, <1>2 DEF Reachable, Walkable
  <2>2. Search!Moved(c, n, 0)[m]
           = Search!Normalize(raw.parameters[m].kind, IF m = n THEN c[m] + 0 ELSE c[m])
    BY <1>2, <2>1, Zenon DEF Search!Moved
  <2>. HIDE DEF c, m
  <2>3. c[m] + 0 = c[m]
    BY <2>1
  <2>4. Search!Moved(c, n, 0)[m] = Search!Normalize(Contracts[m].kind, c[m])
    BY <2>1, <2>2, <2>3
  <2>. QED
    BY <1>2, <1>3, <1>4, <2>4
<1>. QED
  BY <1>5, <1>6

\* The first neighbourhood of an accepted experiment is as the search needs it.
LEMMA SearchableHolds == Loaded => AcceptedIsSearchable
<1>. SUFFICES ASSUME Loaded, pc = "accepted" PROVE AcceptedIsSearchable
  BY DEF AcceptedIsSearchable
<1>1. raw \in Experiments /\ Accepted(raw) /\ Walkable(raw)
  BY AcceptedIsWalkable DEF Loaded
<1>. DEFINE base == Search!BaselinePoint
           near == Search!Proposals(base, 1)
<1>2. /\ Len(near) \in Nat /\ Len(near) <= 2 * Space
      /\ \E of \in [DOMAIN near -> Kept(base, 1)] :
            /\ \A k \in DOMAIN near : near[k] = Point(base, 1, of[k])
            /\ \A k, l \in DOMAIN near : of[k] = of[l] => k = l
  BY ProposalsFacts
<1>3. PICK of \in [DOMAIN near -> Kept(base, 1)] :
         /\ \A k \in DOMAIN near : near[k] = Point(base, 1, of[k])
         /\ \A k, l \in DOMAIN near : of[k] = of[l] => k = l
  BY <1>2, Zenon
<1>4. AcceptedIsSearchable
         <=> /\ Search!Searchable
             /\ (\A n \in Floats : ~HalfTick(n)) =>
                  /\ \A i, j \in DOMAIN near : near[i] = near[j] => i = j
                  /\ \A i \in DOMAIN near : \A n \in DOMAIN Contracts :
                        near[i] # Search!Moved(base, n, 0)
             /\ raw.budget.rounds > 1 => Len(near) <= raw.budget.cap
  BY Zenon DEF AcceptedIsSearchable
<1>. HIDE DEF near
<1>5. ASSUME \A n \in Floats : ~HalfTick(n)
      PROVE  /\ \A i, j \in DOMAIN near : near[i] = near[j] => i = j
             /\ \A i \in DOMAIN near : \A n \in DOMAIN Contracts :
                   near[i] # Search!Moved(base, n, 0)
  BY <1>1, <1>3, <1>5, FirstPointsDiffer
<1>6. raw.budget.rounds > 1 => Len(near) <= raw.budget.cap
  <2>1. raw.budget.rounds > 1 => raw.budget.cap >= 2 * Space
    BY <1>1 DEF Accepted, BudgetAccepted, Space
  <2>2. raw.budget \in [rounds : Int, cap : Int]
    BY <1>1, RawAssumption
  <2>3. raw.budget.cap \in Int /\ Space \in Nat
    BY <2>2, MovesFacts
  <2>. QED
    BY <1>2, <2>1, <2>3
<1>. QED
  BY <1>1, <1>4, <1>5, <1>6, SearchableOnAccepted

\* What the loader lets through can be scored and searched.
THEOREM NothingAcceptedIsUnusable == Spec => []AcceptedIsUsable
<1>1. IInv => AcceptedIsUsable
  BY Scorable, SearchableHolds DEF IInv, AcceptedIsUsable
<1>. QED
  BY <1>1, InvariantHolds, PTL

----------------------------------------------------------------------------
\* The scenarios: what a tuning run pins, for every set of contents, every
\* number of candidates and every number of edits.

\* The shape of the variables, and what each place in the controller knows.
PinInv ==
    /\ source \in Contents /\ snapshot \in Contents \cup {Absent}
    /\ config \in Valid \cup {Absent} /\ loaded \in Valid \cup {Absent}
    /\ result \in [Candidates -> Valid \cup {Absent}] /\ edits \in Nat
    /\ control \in {"load", "snapshot", "pin", "next", "evaluate", "digest", "end"}
    /\ control = "load" => config = Absent
    /\ control \in {"load", "snapshot"} => snapshot = Absent /\ edits = 0
    /\ control \in {"snapshot", "pin", "next", "evaluate", "digest"} => config \in Valid
    /\ control \in {"pin", "next", "evaluate", "digest"} => snapshot \in Contents
    /\ control \in {"load", "snapshot", "pin"} =>
          failed = {} /\ \A c \in Candidates : result[c] = Absent
    /\ control \in {"evaluate", "digest"} => candidate \in Candidates /\ ~Over(candidate)
    /\ control = "digest" => loaded \in Valid
    /\ (edits = 0 /\ snapshot # Absent) => snapshot = config
    /\ (edits = 0 /\ control \in {"next", "evaluate", "digest"}) => pinned = config
    /\ (edits = 0 /\ loaded # Absent) => loaded = config
    /\ \A c \in failed : c \in Candidates /\ result[c] = Absent
    /\ FailsOnlyWhenEdited
    /\ \A c \in Candidates : result[c] # Absent =>
          /\ edits = 0 => result[c] = config
          /\ CountOf[result[c]] = CountOf[config]

\* Nothing is pinned yet.
LEMMA PinInvInit ==
    PinInit => PinInv
BY PinAssumption, AbsentAssumption
   DEF PinAssumption, AbsentAssumption, PinInit, PinInv,
       Valid, FailsOnlyWhenEdited, Absent

\* One step per action.
LEMMA PinInvStep ==
    PinInv /\ [PinNext]_pinVars => PinInv'
<1>. SUFFICES ASSUME PinInv, [PinNext]_pinVars PROVE PinInv'
  OBVIOUS
<1>. USE PinAssumption, AbsentAssumption
     DEF PinAssumption, AbsentAssumption, PinInv, Valid,
             FailsOnlyWhenEdited, files, evaluator, Over, Absent
<1>1. CASE LoadSource
  BY <1>1 DEF LoadSource
<1>2. CASE WriteSnapshot
  BY <1>2 DEF WriteSnapshot, SnapshotOfConfig
<1>3. CASE Pin
  BY <1>3 DEF Pin, Digest
<1>4. ASSUME NEW c \in Candidates, Launch(c) PROVE PinInv'
  BY <1>4 DEF Launch
<1>5. CASE LoadScenarios
  BY <1>5 DEF LoadScenarios, Loads, Fail
<1>6. CASE CompareAndEvaluate
  BY <1>6 DEF CompareAndEvaluate, DigestMatches, CountMatches, Fail
<1>7. CASE End
  BY <1>7 DEF End
<1>8. CASE EditSource
  BY <1>8 DEF EditSource
<1>9. CASE EditSnapshot
  BY <1>9 DEF EditSnapshot
<1>10. CASE UNCHANGED pinVars
  BY <1>10 DEF pinVars
<1>. QED
  BY <1>1, <1>2, <1>3, <1>4, <1>5, <1>6, <1>7, <1>8, <1>9, <1>10 DEF PinNext

\* The invariant of the pin holds in every reachable state.
LEMMA PinAlways ==
    PinSpec => []PinInv
BY PinInvInit, PinInvStep, PTL DEF PinSpec

\* What NeverMixed needs in addition.  Before the first edit the snapshot is
\* what was pinned; the edit that follows the pinning makes it differ for good,
\* so what an evaluator had loaded before it is not accepted afterwards.
MixInv ==
    /\ control = "load" => snapshot = Absent
    /\ control \in {"load", "snapshot", "pin"} => \A c \in Candidates : result[c] = Absent
    /\ (edits = 0 /\ control \in {"next", "evaluate", "digest"}) => pinned = snapshot
    /\ (edits <= 1 /\ control = "digest" /\ snapshot = pinned) => loaded = pinned
    /\ NeverMixed

\* No file was edited yet.
LEMMA MixInit ==
    PinInit => MixInv
BY PinAssumption, AbsentAssumption
   DEF PinAssumption, AbsentAssumption, PinInit, MixInv,
       NeverMixed, Used

\* An edit after pinning makes the snapshot differ from then on.
LEMMA MixStep ==
    PinInv /\ MixInv /\ [PinNext]_pinVars => MixInv'
<1>. SUFFICES ASSUME PinInv, MixInv, [PinNext]_pinVars PROVE MixInv'
  OBVIOUS
<1>. USE DEF MixInv, NeverMixed, Used
<1>1. CASE LoadSource
  BY <1>1 DEF LoadSource, files, evaluator
<1>2. CASE WriteSnapshot
  BY <1>2 DEF PinInv, WriteSnapshot, files, evaluator
<1>3. CASE Pin
  BY <1>3 DEF Pin, Digest, files, evaluator
<1>4. ASSUME NEW c \in Candidates, Launch(c) PROVE MixInv'
  BY <1>4 DEF Launch, files
<1>5. CASE LoadScenarios
  BY <1>5 DEF LoadScenarios, Loads, Fail, files
<1>6. CASE CompareAndEvaluate
  <2>1. CASE DigestMatches /\ CountMatches
    <3>1. /\ result' = [result EXCEPT ![candidate] = loaded]
          /\ control = "digest" /\ control' = "next" /\ snapshot = pinned
          /\ UNCHANGED <<files, config, pinned, failed>>
      BY <1>6, <2>1 DEF CompareAndEvaluate, DigestMatches
    <3>2. edits <= 1 => loaded = pinned
      BY <3>1
    <3>3. \A c \in Candidates : result'[c] = result[c] \/ result'[c] = loaded
      BY <3>1 DEF PinInv
    <3>. QED
      BY <3>1, <3>2, <3>3 DEF files
  <2>2. CASE ~(DigestMatches /\ CountMatches)
    BY <1>6, <2>2 DEF CompareAndEvaluate, Fail, files
  <2>. QED
    BY <2>1, <2>2
<1>7. CASE End
  BY <1>7 DEF End, files, evaluator
<1>8. CASE EditSource
  BY <1>8 DEF EditSource, evaluator
<1>9. CASE EditSnapshot
  <2>1. /\ edits \in Nat /\ edits' = edits + 1 /\ snapshot' # snapshot
        /\ UNCHANGED <<source, control, config, pinned, evaluator, result, failed>>
        /\ snapshot # Absent
    BY <1>9 DEF PinInv, EditSnapshot
  <2>2. edits' <= 1 => edits = 0 /\ edits <= 1
    BY <2>1
  <2>3. edits' # 0
    BY <2>1
  <2>. QED
    BY <2>1, <2>2, <2>3 DEF evaluator
<1>10. CASE UNCHANGED pinVars
  BY <1>10 DEF pinVars, files, evaluator
<1>. QED
  BY <1>1, <1>2, <1>3, <1>4, <1>5, <1>6, <1>7, <1>8, <1>9, <1>10 DEF PinNext

\* Every variable stays in its range, and no candidate has both outcomes.
THEOREM TypesAlwaysOK ==
    PinSpec => []TypeOK
<1>1. PinInv => TypeOK
  BY DEF PinInv, TypeOK, Used, Valid
<1>. QED
  BY <1>1, PinAlways, PTL

\* However often the source and the snapshot are edited, and by however many
\* steps of the evaluators: the accepted results are about the scenarios the
\* loader validated unless the snapshot was edited, and about as many of them
\* in every case.
THEOREM AlwaysRunsWhatWasValidated ==
    PinSpec => []RunsWhatWasValidated
<1>1. PinInv => RunsWhatWasValidated
  BY DEF PinInv, RunsWhatWasValidated, Used
<1>. QED
  BY <1>1, PinAlways, PTL

\* A candidate fails for its scenarios only if the snapshot was edited.
THEOREM AlwaysFailsOnlyWhenEdited ==
    PinSpec => []FailsOnlyWhenEdited
<1>1. PinInv => FailsOnlyWhenEdited
  BY DEF PinInv
<1>. QED
  BY <1>1, PinAlways, PTL

\* So edits of the source file change nothing in a run.
THEOREM PinningAlwaysHolds ==
    PinSpec => []PinningHolds
  BY AlwaysRunsWhatWasValidated, AlwaysFailsOnlyWhenEdited, PTL DEF PinningHolds

\* Of any number of candidates, none has a result about other scenarios than
\* those whose digest the run has recorded, if the snapshot is edited at most
\* once, at whatever moment of the controller and of the evaluators.
THEOREM NeverMixesScenarios ==
    PinSpec => []NeverMixed
<1>1. MixInv => NeverMixed
  BY DEF MixInv
<1>. QED
  BY <1>1, MixInit, MixStep, PinAlways, PTL DEF PinSpec
=============================================================================
