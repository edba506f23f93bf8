-------------------------- MODULE NaturalRecursion --------------------------
(* Induction and recursion over the naturals, stated with sets and         *)
(* functions for parameters instead of operators: what the proofs about    *)
(* loops rest on.                                                          *)
EXTENDS Integers, WellFoundedInduction, TLAPS

(* A set of naturals that is not empty has a least element.                *)
LEMMA LeastNatural ==
    ASSUME NEW T \in SUBSET Nat, NEW n \in T
    PROVE  \E m \in T : \A k \in T : m <= k
<1> DEFINE R == {pair \in Nat \X Nat : pair[1] < pair[2]}
<1>1. IsWellFoundedOn(R, Nat)
  BY NatLessThanWellFounded DEF OpToRel
<1>2. T # {} /\ T \subseteq Nat
  OBVIOUS
<1> HIDE DEF R
<1>3. PICK m \in T : \A k \in T : <<k, m>> \notin R
  BY <1>1, <1>2, WFMin
<1>4. \A k \in T : ~ (k < m)
  BY <1>2, <1>3 DEF R
<1>5. QED
  BY <1>2, <1>4

(* What holds of 0, and of n + 1 when it holds of n, holds of all.         *)
LEMMA Induction ==
    ASSUME NEW T, 0 \in T, \A n \in Nat : n \in T => n + 1 \in T
    PROVE  \A n \in Nat : n \in T
<1> SUFFICES ASSUME NEW n \in Nat \ T PROVE FALSE
  OBVIOUS
<1>1. PICK m \in Nat \ T : \A k \in Nat \ T : m <= k
  BY LeastNatural
<1>2. m # 0 /\ m - 1 \in Nat
  BY <1>1
<1>3. m - 1 \in T
  BY <1>1, <1>2
<1>4. QED
  BY <1>1, <1>2, <1>3

(* The first n values of a recursion.                                      *)
Runs(S, a, step, n) ==
    {g \in [0 .. n -> S] : g[0] = a /\ \A i \in 0 .. n - 1 : g[i + 1] = step[<<i, g[i]>>]}

LEMMA RunsAgree ==
    ASSUME NEW S, NEW a, NEW step, NEW m \in Nat, NEW n \in Nat,
           NEW g \in Runs(S, a, step, m), NEW h \in Runs(S, a, step, n)
    PROVE  \A i \in Nat : i <= m /\ i <= n => g[i] = h[i]
<1> DEFINE T == {i \in Nat : i <= m /\ i <= n => g[i] = h[i]}
<1>1. 0 \in T
  BY DEF Runs
<1>2. ASSUME NEW i \in Nat, i \in T PROVE i + 1 \in T
  <2> SUFFICES ASSUME i + 1 <= m, i + 1 <= n PROVE g[i + 1] = h[i + 1]
    OBVIOUS
  <2>1. i <= m /\ i <= n /\ i \in 0 .. m - 1 /\ i \in 0 .. n - 1
    OBVIOUS
  <2>2. g[i] = h[i]
    BY <1>2, <2>1
  <2>3. g[i + 1] = step[<<i, g[i]>>] /\ h[i + 1] = step[<<i, h[i]>>]
    BY <2>1 DEF Runs
  <2>4. QED
    BY <2>2, <2>3
<1> HIDE DEF T
<1>3. \A i \in Nat : i \in T
  BY <1>1, <1>2, Induction
<1>4. QED
  BY <1>3 DEF T

LEMMA RunsExist ==
    ASSUME NEW S, NEW a \in S, NEW step \in [Nat \X S -> S]
    PROVE  \A n \in Nat : \E g : g \in Runs(S, a, step, n)
<1> DEFINE T == {n \in Nat : \E g : g \in Runs(S, a, step, n)}
<1>1. 0 \in T
  <2>1. [i \in 0 .. 0 |-> a] \in Runs(S, a, step, 0)
    BY DEF Runs
  <2>2. QED
    BY <2>1
<1>2. ASSUME NEW n \in Nat, n \in T PROVE n + 1 \in T
  <2>1. PICK g : g \in Runs(S, a, step, n)
    BY <1>2
  <2>2. g \in [0 .. n -> S] /\ g[0] = a /\ \A i \in 0 .. n - 1 : g[i + 1] = step[<<i, g[i]>>]
    BY <2>1 DEF Runs
  <2>3. g[n] \in S
    BY <2>2
  <2>4. PICK last \in S : last = step[<<n, g[n]>>]
    BY <2>3
  <2> DEFINE h == [i \in 0 .. n + 1 |-> IF i <= n THEN g[i] ELSE last]
  <2>5. h \in [0 .. n + 1 -> S]
    <3>1. ASSUME NEW i \in 0 .. n + 1 PROVE (IF i <= n THEN g[i] ELSE last) \in S
      <4>1. CASE i <= n
        BY <2>2, <4>1
      <4>2. CASE ~ (i <= n)
        BY <4>2
      <4>3. QED
        BY <4>1, <4>2
    <3>2. QED
      BY <3>1
  <2>6. h[0] = a
    BY <2>2
  <2>7. ASSUME NEW i \in 0 .. n + 1 - 1 PROVE h[i + 1] = step[<<i, h[i]>>]
    <3>1. CASE i = n
      <4>1. h[i + 1] = last /\ h[i] = g[n]
        BY <3>1
      <4>2. QED
        BY <2>4, <3>1, <4>1
    <3>2. CASE i # n
      <4>1. i \in 0 .. n - 1 /\ h[i + 1] = g[i + 1] /\ h[i] = g[i]
        BY <3>2
      <4>2. QED
        BY <2>2, <4>1
    <3>3. QED
      BY <3>1, <3>2
  <2> HIDE DEF h
  <2>8. h \in Runs(S, a, step, n + 1)
    BY <2>5, <2>6, <2>7 DEF Runs
  <2>9. QED
    BY <2>8
<1> HIDE DEF T
<1>3. \A n \in Nat : n \in T
  BY <1>1, <1>2, Induction
<1>4. QED
  BY <1>3 DEF T

(* The function that a first value and a step define.                      *)
Recursion(f, S, a, step) ==
    f \in [Nat -> S] /\ f[0] = a /\ \A n \in Nat : f[n + 1] = step[<<n, f[n]>>]

(* There is one for every first value and every step.                      *)
THEOREM RecursionExists ==
    ASSUME NEW S, NEW a \in S, NEW step \in [Nat \X S -> S]
    PROVE  \E f : Recursion(f, S, a, step)
<1> DEFINE run(n) == CHOOSE g : g \in Runs(S, a, step, n)
           f == [n \in Nat |-> run(n)[n]]
<1>1. ASSUME NEW n \in Nat PROVE run(n) \in Runs(S, a, step, n)
  BY RunsExist
<1> HIDE DEF run
<1>2. ASSUME NEW n \in Nat PROVE run(n)[n] \in S
  BY <1>1 DEF Runs
<1>3. f \in [Nat -> S]
  BY <1>2
<1>4. f[0] = a
  BY <1>1 DEF Runs
<1>5. ASSUME NEW n \in Nat PROVE f[n + 1] = step[<<n, f[n]>>]
  <2>1. run(n) \in Runs(S, a, step, n) /\ run(n + 1) \in Runs(S, a, step, n + 1)
    BY <1>1
  <2>2. PICK g, h : g = run(n) /\ h = run(n + 1)
    OBVIOUS
  <2>3. g[n] = h[n]
    <3>1. \A i \in Nat : i <= n /\ i <= n + 1 => g[i] = h[i]
      BY <2>1, <2>2, RunsAgree
    <3>2. QED
      BY <3>1
  <2>4. h[n + 1] = step[<<n, h[n]>>]
    BY <2>1, <2>2 DEF Runs
  <2>5. f[n + 1] = h[n + 1] /\ f[n] = g[n]
    BY <2>2
  <2>6. QED
    BY <2>3, <2>4, <2>5
<1> HIDE DEF f
<1>6. Recursion(f, S, a, step)
  BY <1>3, <1>4, <1>5 DEF Recursion
<1>7. QED
  BY <1>6


-----------------------------------------------------------------------------
(* The values of a loop before its first and after each of its n turns.    *)
Iterated(f, S, a, n, step) ==
    f \in [0 .. n -> S] /\ f[0] = a /\ \A i \in 1 .. n : f[i] = step[<<i, f[i - 1]>>]

(* They exist for every first value and every turn.                        *)
THEOREM LoopExists ==
    ASSUME NEW S, NEW a \in S, NEW n \in Nat, NEW step \in [(1 .. n) \X S -> S]
    PROVE  \E f : Iterated(f, S, a, n, step)
<1> DEFINE next(p) == IF p[1] + 1 \in 1 .. n THEN step[<<p[1] + 1, p[2]>>] ELSE a
           turn == [p \in Nat \X S |-> next(p)]
<1>1. ASSUME NEW p \in Nat \X S PROVE next(p) \in S
  <2>1. p[1] \in Nat /\ p[2] \in S
    OBVIOUS
  <2>2. CASE p[1] + 1 \in 1 .. n
    <3>1. <<p[1] + 1, p[2]>> \in (1 .. n) \X S
      BY <2>1, <2>2
    <3>2. step[<<p[1] + 1, p[2]>>] \in S
      BY <3>1
    <3>3. QED
      BY <2>2, <3>2
  <2>3. CASE p[1] + 1 \notin 1 .. n
    BY <2>3
  <2>4. QED
    BY <2>2, <2>3
<1> HIDE DEF next
<1>2. turn \in [Nat \X S -> S]
  BY <1>1
<1> HIDE DEF turn
<1>3. PICK g : Recursion(g, S, a, turn)
  BY <1>2, RecursionExists
<1>4. g \in [Nat -> S] /\ g[0] = a /\ \A k \in Nat : g[k + 1] = turn[<<k, g[k]>>]
  BY <1>3 DEF Recursion
<1> DEFINE f == [i \in 0 .. n |-> g[i]]
<1>5. f \in [0 .. n -> S] /\ f[0] = a
  BY <1>4
<1>6. ASSUME NEW i \in 1 .. n PROVE f[i] = step[<<i, f[i - 1]>>]
  <2>1. PICK k \in Nat : i = k + 1 /\ i - 1 = k /\ i \in 0 .. n /\ k \in 0 .. n
    OBVIOUS
  <2>2. <<k, g[k]>> \in Nat \X S
    BY <1>4, <2>1
  <2>3. g[i] = next(<<k, g[k]>>)
    BY <1>4, <2>1, <2>2 DEF turn
  <2>4. next(<<k, g[k]>>) = step[<<i, g[k]>>]
    BY <2>1 DEF next
  <2>5. f[i] = g[i] /\ f[i - 1] = g[k]
    BY <2>1
  <2>6. QED
    BY <2>3, <2>4, <2>5
<1> HIDE DEF f
<1>7. Iterated(f, S, a, n, step)
  BY <1>5, <1>6 DEF Iterated
<1>8. QED
  BY <1>7

-----------------------------------------------------------------------------
(* Recursion over any domain with a measure                                 *)

(* A function whose value at x depends on its values where a measure is    *)
(* smaller only.                                                           *)
Descends(D, S, measure, step) ==
    /\ measure \in [D -> Nat] /\ step \in [D \X [D -> S] -> S]
    /\ \A x \in D : \A g, h \in [D -> S] :
          (\A y \in D : measure[y] < measure[x] => g[y] = h[y]) => step[<<x, g>>] = step[<<x, h>>]

(* The function that such a step defines.                                  *)
Descending(f, D, S, step) == f \in [D -> S] /\ \A x \in D : f[x] = step[<<x, f>>]

(* There is one for every such step: the recursion that starts with any    *)
(* function and replaces all of its values at once no longer changes the   *)
(* value at x after as many turns as its measure says.                     *)
THEOREM DescentExists ==
    ASSUME NEW D, NEW S, NEW base \in S, NEW measure, NEW step, Descends(D, S, measure, step)
    PROVE  \E f : Descending(f, D, S, step)
<1> DEFINE F == [D -> S]
           first == [x \in D |-> base]
           turn == [p \in Nat \X F |-> [x \in D |-> step[<<x, p[2]>>]]]
<1>1. /\ measure \in [D -> Nat]
      /\ \A x \in D, g \in F : step[<<x, g>>] \in S
  BY DEF Descends
<1>2. first \in F
  OBVIOUS
<1>3. turn \in [Nat \X F -> F]
  <2>1. ASSUME NEW p \in Nat \X F PROVE [x \in D |-> step[<<x, p[2]>>]] \in F
    <3>1. p[2] \in F
      OBVIOUS
    <3>2. \A x \in D : step[<<x, p[2]>>] \in S
      BY <1>1, <3>1
    <3>3. QED
      BY <3>2
  <2> HIDE DEF F
  <2>2. QED
    BY <2>1
<1>4. PICK run : Recursion(run, F, first, turn)
  <2> HIDE DEF F, first, turn
  <2>1. QED
    BY <1>2, <1>3, RecursionExists
<1>5. run \in [Nat -> F] /\ \A n \in Nat : run[n + 1] = turn[<<n, run[n]>>]
  BY <1>4 DEF Recursion
<1>6. \A n \in Nat : run[n] \in F /\ \A x \in D : run[n + 1][x] = step[<<x, run[n]>>]
  <2> SUFFICES ASSUME NEW n \in Nat
               PROVE  run[n] \in F /\ \A x \in D : run[n + 1][x] = step[<<x, run[n]>>]
    OBVIOUS
  <2>1. run[n] \in F
    BY <1>5
  <2>2. PICK g \in F : g = run[n]
    BY <2>1
  <2>3. <<n, g>> \in Nat \X F /\ <<n, g>>[2] = g
    OBVIOUS
  <2>4. turn[<<n, g>>] = [x \in D |-> step[<<x, g>>]]
    <3> HIDE DEF F
    <3>1. QED
      BY <2>3
  <2>5. run[n + 1] = [x \in D |-> step[<<x, g>>]]
    BY <1>5, <2>2, <2>4
  <2>6. QED
    BY <2>1, <2>2, <2>5
<1> HIDE DEF turn, first, F
<1> DEFINE T == {n \in Nat : \A x \in D : measure[x] < n => run[n + 1][x] = run[n][x]}
<1>7. 0 \in T
  BY <1>1
<1>8. ASSUME NEW n \in Nat, n \in T PROVE n + 1 \in T
  <2> SUFFICES ASSUME NEW x \in D, measure[x] < n + 1 PROVE run[n + 1 + 1][x] = run[n + 1][x]
    OBVIOUS
  <2>1. PICK g \in F, h \in F : g = run[n + 1] /\ h = run[n]
    BY <1>6
  <2>2. \A y \in D : measure[y] < measure[x] => g[y] = h[y]
    <3> SUFFICES ASSUME NEW y \in D, measure[y] < measure[x] PROVE g[y] = h[y]
      OBVIOUS
    <3>1. measure[y] \in Nat /\ measure[x] \in Nat
      BY <1>1
    <3>2. measure[y] < n
      BY <3>1
    <3>3. QED
      BY <1>8, <2>1, <3>2
  <2>3. step[<<x, g>>] = step[<<x, h>>]
    BY <2>2 DEF Descends, F
  <2>4. n + 1 \in Nat
    OBVIOUS
  <2>5. run[n + 1 + 1][x] = step[<<x, g>>] /\ run[n + 1][x] = step[<<x, h>>]
    BY <1>6, <2>1, <2>4
  <2>6. QED
    BY <2>3, <2>5
<1> HIDE DEF T
<1>9. \A n \in Nat : n \in T
  BY <1>7, <1>8, Induction
<1>10. ASSUME NEW x \in D
       PROVE  \A n \in Nat : n > measure[x] => run[n][x] = run[measure[x] + 1][x]
  <2> DEFINE U == {n \in Nat : n > measure[x] => run[n][x] = run[measure[x] + 1][x]}
  <2>1. measure[x] \in Nat
    BY <1>1
  <2>2. 0 \in U
    BY <2>1
  <2>3. ASSUME NEW n \in Nat, n \in U PROVE n + 1 \in U
    <3>1. CASE n > measure[x]
      <4>1. run[n + 1][x] = run[n][x]
        BY <1>9, <2>1, <3>1 DEF T
      <4>2. QED
        BY <2>3, <3>1, <4>1
    <3>2. CASE ~ (n > measure[x])
      <4>1. n + 1 > measure[x] => n = measure[x]
        BY <2>1, <3>2
      <4>2. QED
        BY <4>1
    <3>3. QED
      BY <3>1, <3>2
  <2> HIDE DEF U
  <2>4. \A n \in Nat : n \in U
    BY <2>2, <2>3, Induction
  <2>5. QED
    BY <2>4 DEF U
<1> DEFINE f == [x \in D |-> run[measure[x] + 1][x]]
<1>11. f \in [D -> S]
  <2>1. \A x \in D : run[measure[x] + 1][x] \in S
    BY <1>1, <1>6 DEF F
  <2>2. QED
    BY <2>1
<1>12. ASSUME NEW x \in D PROVE f[x] = step[<<x, f>>]
  <2>1. PICK m \in Nat, h \in F : m = measure[x] /\ h = run[m]
    BY <1>1, <1>6
  <2>2. f[x] = step[<<x, h>>]
    BY <1>6, <2>1
  <2>3. \A y \in D : measure[y] < measure[x] => h[y] = f[y]
    BY <1>1, <1>10, <2>1
  <2>4. PICK k \in F : k = f
    BY <1>11 DEF F
  <2>5. step[<<x, h>>] = step[<<x, k>>]
    BY <2>3, <2>4 DEF Descends, F
  <2>6. QED
    BY <2>2, <2>4, <2>5
<1> HIDE DEF f
<1>13. Descending(f, D, S, step)
  BY <1>11, <1>12 DEF Descending
<1>14. QED
  BY <1>13

(* What holds of n, and of k when it holds of k + 1, holds down to 0.      *)
LEMMA Descent ==
    ASSUME NEW n \in Nat, NEW T, n \in T, \A k \in 0 .. n - 1 : k + 1 \in T => k \in T
    PROVE  \A k \in 0 .. n : k \in T
<1> DEFINE U == {m \in Nat : m <= n => n - m \in T}
<1>1. 0 \in U
  OBVIOUS
<1>2. ASSUME NEW m \in Nat, m \in U PROVE m + 1 \in U
  <2> SUFFICES ASSUME m + 1 <= n PROVE n - (m + 1) \in T
    OBVIOUS
  <2>1. PICK k \in 0 .. n - 1 : k = n - (m + 1) /\ k + 1 = n - m
    OBVIOUS
  <2>2. n - m \in T
    BY <1>2
  <2>3. QED
    BY <2>1, <2>2
<1> HIDE DEF U
<1>3. \A m \in Nat : m \in U
  BY <1>1, <1>2, Induction
<1>4. ASSUME NEW k \in 0 .. n PROVE k \in T
  <2>1. PICK m \in Nat : m = n - k /\ n - m = k /\ m <= n
    OBVIOUS
  <2>2. QED
    BY <1>3, <2>1 DEF U
<1>5. QED
  BY <1>4
=============================================================================
