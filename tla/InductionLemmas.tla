--------------------------- MODULE InductionLemmas ---------------------------
(***************************************************************************)
(* Induction over an interval of numbers, stated with sets instead of      *)
(* predicates so that a proof can cite it, the existence of recursively    *)
(* defined functions, and what Sum computes.                               *)
(***************************************************************************)
EXTENDS Sums, SequenceTheorems, WellFoundedInduction, TLAPS

\* A set of natural numbers that is not empty has a least element.
LEMMA LeastNatural ==
  ASSUME NEW T, T \subseteq Nat, T # {}
  PROVE  \E m \in T : \A k \in T : m <= k
<1> DEFINE R == {ss \in Nat \X Nat : ss[1] < ss[2]}
<1>1. IsWellFoundedOn(R, Nat)
  BY NatLessThanWellFounded DEF OpToRel
<1> HIDE DEF R
<1>2. PICK m \in T : \A k \in T : ~(<<k, m>> \in R)
  BY <1>1, WFMin
<1>3. \A k \in T : ~(k < m)
  BY <1>2 DEF R
<1> QED
  BY <1>3

\* Induction from 0 to N on the numbers in a set.
LEMMA Climb ==
  ASSUME NEW N \in Nat, NEW P, 0 \in P, \A i \in 1..N : i - 1 \in P => i \in P
  PROVE  0..N \subseteq P
<1> DEFINE T == (0..N) \ P
<1> SUFFICES ASSUME T # {} PROVE FALSE
  OBVIOUS
<1>1. T \subseteq Nat
  OBVIOUS
<1>2. PICK m \in T : \A k \in T : m <= k
  <2> HIDE DEF T
  <2> QED
    BY <1>1, LeastNatural
<1>3. m \in 1..N /\ m - 1 \in 0..N /\ m - 1 \in P
  BY <1>2
<1> QED
  BY <1>3

\* The functions over 0..N that begin with start and follow step.
Runs(N, S, start, step) ==
  {f \in [0..N -> S] : f[0] = start /\ \A i \in 1..N : f[i] = step[i][f[i - 1]]}

\* A function can be defined by recursion on its argument.
LEMMA Recursion ==
  ASSUME NEW N \in Nat, NEW S, NEW start \in S, NEW step \in [1..N -> [S -> S]]
  PROVE  Runs(N, S, start, step) # {}
<1> DEFINE P == {n \in 0..N : Runs(n, S, start, step) # {}}
<1>1. 0 \in P
  <2>1. [i \in 0..0 |-> start] \in Runs(0, S, start, step)
    BY DEF Runs
  <2> QED
    BY <2>1
<1>2. ASSUME NEW m \in 1..N, m - 1 \in P PROVE m \in P
  <2>1. PICK f \in Runs(m - 1, S, start, step) : TRUE
    BY <1>2
  <2>2. /\ f \in [0..(m - 1) -> S] /\ f[0] = start
        /\ \A i \in 1..(m - 1) : f[i] = step[i][f[i - 1]]
    BY <2>1 DEF Runs
  <2> DEFINE g == [i \in 0..m |-> IF i = m THEN step[m][f[m - 1]] ELSE f[i]]
  <2>3. g \in [0..m -> S]
    <3>1. f[m - 1] \in S /\ step[m] \in [S -> S]
      BY <2>2
    <3> QED
      BY <3>1, <2>2
  <2>4. \A i \in 1..m : g[i] = step[i][g[i - 1]]
    <3> TAKE i \in 1..m
    <3>1. i - 1 \in 0..(m - 1) /\ g[i - 1] = f[i - 1]
      OBVIOUS
    <3>2. CASE i = m
      BY <3>1, <3>2
    <3>3. CASE i # m
      <4>1. i \in 1..(m - 1) /\ g[i] = f[i]
        BY <3>3
      <4> QED
        BY <3>1, <4>1, <2>2
    <3> QED
      BY <3>2, <3>3
  <2>5. g[0] = start
    BY <2>2
  <2> HIDE DEF g
  <2>6. g \in Runs(m, S, start, step)
    BY <2>3, <2>4, <2>5 DEF Runs
  <2> QED
    BY <2>6
<1> HIDE DEF P
<1>3. 0..N \subseteq P
  BY <1>1, <1>2, Climb
<1> QED
  BY <1>3 DEF P

\* Sum is the last value of the function that its definition builds.
LEMMA SumUnfold ==
  ASSUME NEW s \in Seq(Int)
  PROVE  \E f \in [0..Len(s) -> Int] :
            /\ f[0] = 0
            /\ \A i \in 1..Len(s) : f[i] = f[i - 1] + s[i]
            /\ Sum(s) = f[Len(s)]
<1> DEFINE N == Len(s)
           body(f) == [i \in 0..N |-> IF i = 0 THEN 0 ELSE f[i - 1] + s[i]]
           step == [i \in 1..N |-> [x \in Int |-> x + s[i]]]
<1>1. N \in Nat /\ \A i \in 1..N : s[i] \in Int
  OBVIOUS
<1>2. step \in [1..N -> [Int -> Int]]
  BY <1>1
<1>3. Runs(N, Int, 0, step) # {}
  <2>1. 0 \in Int
    OBVIOUS
  <2> HIDE DEF N, step
  <2> QED
    BY <1>1, <1>2, <2>1, Recursion, Zenon
<1>4. PICK f \in [0..N -> Int] : f[0] = 0 /\ \A i \in 1..N : f[i] = f[i - 1] + s[i]
  <2>1. PICK f \in [0..N -> Int] : f[0] = 0 /\ \A i \in 1..N : f[i] = step[i][f[i - 1]]
    <3> HIDE DEF N, step
    <3> QED
      BY <1>3 DEF Runs
  <2>2. ASSUME NEW i \in 1..N PROVE f[i] = f[i - 1] + s[i]
    <3>1. i - 1 \in 0..N /\ i \in 1..N
      BY <1>1
    <3>2. f[i - 1] \in Int
      BY <2>1, <3>1
    <3> QED
      BY <2>1, <3>1, <3>2
  <2> HIDE DEF N
  <2> QED
    BY <2>1, <2>2
<1>5. f = body(f)
  BY <1>4
<1> DEFINE u == CHOOSE h : h = body(h)
<1>6. u = body(u)
  BY <1>5
<1>7. Sum(s) = u[N]
  BY DEF Sum
<1> HIDE DEF u
<1>8. u[0] = 0 /\ \A i \in 1..N : u[i] = u[i - 1] + s[i]
  BY <1>1, <1>6
<1> DEFINE P == {i \in 0..N : u[i] = f[i]}
<1>9. 0..N \subseteq P
  <2>1. 0 \in P
    BY <1>1, <1>4, <1>8
  <2>2. \A i \in 1..N : i - 1 \in P => i \in P
    BY <1>1, <1>4, <1>8
  <2> HIDE DEF P, N
  <2> QED
    BY <1>1, <2>1, <2>2, Climb
<1> QED
  BY <1>1, <1>4, <1>7, <1>9

\* The sum of no numbers.
LEMMA SumEmpty == Sum(<< >>) = 0
<1>1. << >> \in Seq(Int) /\ Len(<< >>) = 0
  OBVIOUS
<1> QED
  BY <1>1, SumUnfold

\* The sum of one number more.
LEMMA SumAppend ==
  ASSUME NEW s \in Seq(Int), NEW x \in Int
  PROVE  Sum(s) \in Int /\ Sum(Append(s, x)) = Sum(s) + x
<1> DEFINE t == Append(s, x)
           N == Len(s)
<1>1. /\ t \in Seq(Int) /\ Len(t) = N + 1 /\ N \in Nat /\ t[N + 1] = x
      /\ \A i \in 1..N : t[i] = s[i]
  OBVIOUS
<1>2. PICK f \in [0..N -> Int] :
        f[0] = 0 /\ (\A i \in 1..N : f[i] = f[i - 1] + s[i]) /\ Sum(s) = f[N]
  BY SumUnfold
<1> HIDE DEF t
<1>3. PICK g \in [0..(N + 1) -> Int] :
        g[0] = 0 /\ (\A i \in 1..(N + 1) : g[i] = g[i - 1] + t[i]) /\ Sum(t) = g[N + 1]
  BY SumUnfold, <1>1
<1> HIDE DEF N
<1> DEFINE P == {i \in 0..N : g[i] = f[i]}
<1>4. 0..N \subseteq P
  <2>1. 0 \in P
    BY <1>1, <1>2, <1>3
  <2>2. \A i \in 1..N : i - 1 \in P => i \in P
    BY <1>1, <1>2, <1>3
  <2> HIDE DEF P
  <2> QED
    BY <1>1, <2>1, <2>2, Climb
<1>5. g[N + 1] = g[N] + x
  <2>1. N + 1 \in 1..(N + 1) /\ (N + 1) - 1 = N
    BY <1>1
  <2> QED
    BY <2>1, <1>1, <1>3
<1> QED
  BY <1>1, <1>2, <1>3, <1>4, <1>5 DEF t
=============================================================================
