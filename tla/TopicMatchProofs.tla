-------------------------- MODULE TopicMatchProofs ---------------------------
(* MQTT_MatchTopic says what MQTT does, but for the filters it misses, for *)
(* names and filters of any length.  The code goes from character to       *)
(* character, MQTT from level to level.  First the table of the two loops  *)
(* and what it says along characters; then the levels, by the separators   *)
(* counted from the front; then what the table says at the start of each   *)
(* level comes to what MQTT says of the levels that are left, from the     *)
(* last to the first.                                                      *)
EXTENDS Packets, NaturalRecursion, SequenceTheorems, FiniteSetTheorems

(* The separator, or the end of the name, that a + goes on to.             *)
LEMMA LevelEndIs ==
    ASSUME NEW s \in Seq(STRING), NEW n \in 1 .. Len(s) + 1
    PROVE  /\ LevelEnd(s, n) \in n .. Len(s) + 1
           /\ LevelEnd(s, n) <= Len(s) => s[LevelEnd(s, n)] = "/"
           /\ \A i \in n .. LevelEnd(s, n) - 1 : s[i] # "/"
<1> DEFINE T == {j \in n .. Len(s) : s[j] = "/"} \union {Len(s) + 1}
<1>1. Len(s) \in Nat
  OBVIOUS
<1>2. T \in SUBSET Nat /\ Len(s) + 1 \in T
  BY <1>1
<1>3. \E m \in T : \A k \in T : m <= k
  <2> HIDE DEF T
  <2>1. QED
    BY <1>2, LeastNatural
<1>4. LevelEnd(s, n) = Min(T)
  BY DEF LevelEnd
<1>5. LevelEnd(s, n) \in T /\ \A k \in T : LevelEnd(s, n) <= k
  <2> HIDE DEF T
  <2>1. QED
    BY <1>3, <1>4 DEF Min
<1>6. PICK e : e = LevelEnd(s, n)
  OBVIOUS
<1>7. e \in n .. Len(s) + 1
  BY <1>1, <1>5, <1>6
<1>8. e <= Len(s) => s[e] = "/"
  BY <1>1, <1>5, <1>6
<1>9. ASSUME NEW i \in n .. e - 1 PROVE s[i] # "/"
  <2>1. i \in n .. Len(s) /\ ~ (e <= i)
    BY <1>1, <1>7
  <2>2. QED
    BY <1>5, <1>6, <2>1
<1>10. QED
  BY <1>6, <1>7, <1>8, <1>9

(* The two loops of MQTT_MatchTopic at a place of each, when it is known   *)
(* what they say of the places further on.                                 *)
Places(name, filter) == (1 .. Len(name) + 1) \X (1 .. Len(filter) + 1)
MatchStep(name, filter, n, f, M) ==
    IF n > Len(name) \/ f > Len(filter) THEN n > Len(name) /\ f > Len(filter)
    ELSE IF name[n] = filter[f]
    THEN (n = Len(name) /\ MatchEndWildcards(filter, f)) \/ M[<<n + 1, f + 1>>]
    ELSE IF filter[f] = "+" /\ ValidForWildcard(filter, f)
    THEN IF LevelEnd(name, n) > Len(name) THEN M[<<LevelEnd(name, n), f + 1>>]
         ELSE f < Len(filter) /\ filter[f + 1] = "/" /\ M[<<LevelEnd(name, n) + 1, f + 2>>]
    ELSE filter[f] = "#" /\ f = Len(filter) /\ ValidForWildcard(filter, f)

(* What it is said of a place.                                             *)
Solves(name, filter, M) ==
    M = [at \in Places(name, filter) |-> MatchStep(name, filter, at[1], at[2], M)]

(* What is returned is what the table says of the first places.            *)
LEMMA MatchSolution ==
    ASSUME NEW name, NEW filter, NEW M, M = CHOOSE g : Solves(name, filter, g)
    PROVE  MatchTopicFilter(name, filter) = M[<<1, 1>>]
BY DEF MatchTopicFilter, Solves, MatchStep, Places

(* One step looks at places further on only.                               *)
Further(name, filter, n, f, m, g) ==
    m \in 1 .. Len(name) + 1 /\ g \in 1 .. Len(filter) + 1 /\ m + g > n + f

(* The places it looks at.                                                 *)
LEMMA StepLooksAhead ==
    ASSUME NEW name \in Seq(STRING), NEW filter \in Seq(STRING), NEW n \in 1 .. Len(name) + 1,
           NEW f \in 1 .. Len(filter) + 1, ~ (n > Len(name) \/ f > Len(filter))
    PROVE  /\ Further(name, filter, n, f, n + 1, f + 1)
           /\ LevelEnd(name, n) > Len(name) => Further(name, filter, n, f, LevelEnd(name, n), f + 1)
           /\ ~ (LevelEnd(name, n) > Len(name)) /\ f < Len(filter) =>
                  Further(name, filter, n, f, LevelEnd(name, n) + 1, f + 2)
<1>1. PICK e : e = LevelEnd(name, n)
  OBVIOUS
<1>2. e \in n .. Len(name) + 1
  BY <1>1, LevelEndIs
<1>3. Len(name) \in Nat /\ Len(filter) \in Nat
  OBVIOUS
<1>4. PICK x \in Nat, y \in Nat : x = Len(name) /\ y = Len(filter)
  BY <1>3
<1>5. Further(name, filter, n, f, n + 1, f + 1)
  BY <1>4 DEF Further
<1>6. e > x => Further(name, filter, n, f, e, f + 1)
  BY <1>2, <1>4 DEF Further
<1>7. ~ (e > x) /\ f < y => Further(name, filter, n, f, e + 1, f + 2)
  BY <1>2, <1>4 DEF Further
<1>8. QED
  BY <1>1, <1>4, <1>5, <1>6, <1>7

(* Two tables that agree further on give the same.                         *)
AgreeAhead(name, filter, n, f, M, P) ==
    \A m, g : Further(name, filter, n, f, m, g) => M[<<m, g>>] = P[<<m, g>>]

(* So tables that agree there give the same.                               *)
LEMMA StepsAgree ==
    ASSUME NEW name \in Seq(STRING), NEW filter \in Seq(STRING), NEW n \in 1 .. Len(name) + 1,
           NEW f \in 1 .. Len(filter) + 1, NEW M, NEW P, AgreeAhead(name, filter, n, f, M, P)
    PROVE  MatchStep(name, filter, n, f, M) = MatchStep(name, filter, n, f, P)
<1>0. \A m, g : Further(name, filter, n, f, m, g) => M[<<m, g>>] = P[<<m, g>>]
  BY DEF AgreeAhead
<1>1. CASE n > Len(name) \/ f > Len(filter)
  BY <1>1 DEF MatchStep
<1>2. CASE ~ (n > Len(name) \/ f > Len(filter))
  <2>1. M[<<n + 1, f + 1>>] = P[<<n + 1, f + 1>>]
    BY <1>0, <1>2, StepLooksAhead
  <2>2. LevelEnd(name, n) > Len(name) => M[<<LevelEnd(name, n), f + 1>>] = P[<<LevelEnd(name, n), f + 1>>]
    BY <1>0, <1>2, StepLooksAhead
  <2>3. ~ (LevelEnd(name, n) > Len(name)) /\ f < Len(filter) =>
            M[<<LevelEnd(name, n) + 1, f + 2>>] = P[<<LevelEnd(name, n) + 1, f + 2>>]
    BY <1>0, <1>2, StepLooksAhead
  <2>4. QED
    BY <1>2, <2>1, <2>2, <2>3 DEF MatchStep
<1>3. QED
  BY <1>1, <1>2

(* A step gives a truth value when the table holds truth values.           *)
LEMMA StepIsBoolean ==
    ASSUME NEW name \in Seq(STRING), NEW filter \in Seq(STRING), NEW n \in 1 .. Len(name) + 1,
           NEW f \in 1 .. Len(filter) + 1, NEW M \in [Places(name, filter) -> BOOLEAN]
    PROVE  MatchStep(name, filter, n, f, M) \in BOOLEAN
<1>1. CASE n > Len(name) \/ f > Len(filter)
  BY <1>1 DEF MatchStep
<1>2. CASE ~ (n > Len(name) \/ f > Len(filter))
  <2>1. \A m, g : Further(name, filter, n, f, m, g) => M[<<m, g>>] \in BOOLEAN
    BY DEF Further, Places
  <2>2. LevelEnd(name, n) > Len(name) => M[<<LevelEnd(name, n), f + 1>>] \in BOOLEAN
    BY <1>2, <2>1, StepLooksAhead
  <2>3. QED
    BY <1>2, <2>2 DEF MatchStep
<1>3. QED
  BY <1>1, <1>2

(* Such a table exists, and its first place is what is returned.           *)
LEMMA MatchTable ==
    ASSUME NEW name \in Seq(STRING), NEW filter \in Seq(STRING)
    PROVE  \E M : /\ MatchTopicFilter(name, filter) = M[<<1, 1>>]
                  /\ \A n \in 1 .. Len(name) + 1, f \in 1 .. Len(filter) + 1 :
                        M[<<n, f>>] = MatchStep(name, filter, n, f, M)
<1> DEFINE D == Places(name, filter)
           F == [D -> BOOLEAN]
           measure == [at \in D |-> (Len(name) + 1 - at[1]) + (Len(filter) + 1 - at[2])]
           step == [p \in D \X F |-> MatchStep(name, filter, p[1][1], p[1][2], p[2])]
<1>1. PICK x \in Nat, y \in Nat : x = Len(name) /\ y = Len(filter)
  OBVIOUS
<1>2. \A at \in D : at[1] \in 1 .. x + 1 /\ at[2] \in 1 .. y + 1 /\ at = <<at[1], at[2]>>
  BY <1>1 DEF Places
<1>3. \A at \in D : measure[at] = (x + 1 - at[1]) + (y + 1 - at[2]) /\ measure[at] \in Nat
  BY <1>1, <1>2
<1>4. measure \in [D -> Nat]
  BY <1>3
<1>5. ASSUME NEW at \in D, NEW g \in F PROVE MatchStep(name, filter, at[1], at[2], g) \in BOOLEAN
  BY <1>1, <1>2, StepIsBoolean
<1>6. \A at \in D, g \in F : <<at, g>> \in D \X F /\ step[<<at, g>>] = MatchStep(name, filter, at[1], at[2], g)
  <2> HIDE DEF D, F
  <2>1. QED
    OBVIOUS
<1>7. step \in [D \X F -> BOOLEAN]
  <2>1. ASSUME NEW p \in D \X F PROVE MatchStep(name, filter, p[1][1], p[1][2], p[2]) \in BOOLEAN
    <3>1. p[1] \in D /\ p[2] \in F
      OBVIOUS
    <3> HIDE DEF D, F
    <3>2. QED
      BY <1>5, <3>1
  <2> HIDE DEF D, F
  <2>2. QED
    BY <2>1
<1>8. ASSUME NEW at \in D, NEW g \in F, NEW h \in F, \A to \in D : measure[to] < measure[at] => g[to] = h[to]
      PROVE  MatchStep(name, filter, at[1], at[2], g) = MatchStep(name, filter, at[1], at[2], h)
  <2>1. ASSUME NEW m, NEW k, Further(name, filter, at[1], at[2], m, k)
        PROVE  g[<<m, k>>] = h[<<m, k>>]
    <3>1. m \in 1 .. x + 1 /\ k \in 1 .. y + 1 /\ m + k > at[1] + at[2]
      BY <1>1, <2>1 DEF Further
    <3>2. <<m, k>> \in D /\ <<m, k>>[1] = m /\ <<m, k>>[2] = k
      BY <1>1, <3>1 DEF Places
    <3>3. measure[<<m, k>>] = (x + 1 - m) + (y + 1 - k)
      BY <1>3, <3>2
    <3>4. PICK a \in 1 .. x + 1, b \in 1 .. y + 1 : a = at[1] /\ b = at[2]
      BY <1>2
    <3>5. measure[at] = (x + 1 - a) + (y + 1 - b)
      BY <1>3, <3>4
    <3> HIDE DEF D, F, measure
    <3>6. measure[<<m, k>>] < measure[at]
      <4>1. PICK i \in Nat, j \in Nat : i = m /\ j = k /\ i + j > a + b
        BY <3>1, <3>4
      <4>2. (x + 1 - i) + (y + 1 - j) < (x + 1 - a) + (y + 1 - b)
        BY <4>1
      <4>3. QED
        BY <3>3, <3>5, <4>1, <4>2
    <3>7. QED
      BY <1>8, <3>2, <3>6
  <2>2. at[1] \in 1 .. Len(name) + 1 /\ at[2] \in 1 .. Len(filter) + 1
    BY <1>1, <1>2
  <2> HIDE DEF D, F, measure
  <2>3. PICK n \in 1 .. Len(name) + 1, f \in 1 .. Len(filter) + 1 : n = at[1] /\ f = at[2]
    BY <2>2
  <2>4. AgreeAhead(name, filter, n, f, g, h)
    BY <2>1, <2>3 DEF AgreeAhead
  <2>5. MatchStep(name, filter, n, f, g) = MatchStep(name, filter, n, f, h)
    BY <2>4, StepsAgree
  <2>6. QED
    BY <2>3, <2>5
<1>9. Descends(D, BOOLEAN, measure, step)
  <2> HIDE DEF D, measure, step
  <2>1. ASSUME NEW at \in D, NEW g \in [D -> BOOLEAN], NEW h \in [D -> BOOLEAN],
               \A to \in D : measure[to] < measure[at] => g[to] = h[to]
        PROVE  step[<<at, g>>] = step[<<at, h>>]
    <3>1. MatchStep(name, filter, at[1], at[2], g) = MatchStep(name, filter, at[1], at[2], h)
      BY <1>8, <2>1
    <3>2. QED
      BY <1>6, <3>1
  <2>2. QED
    BY <1>4, <1>7, <2>1 DEF Descends
<1>10. PICK M : Descending(M, D, BOOLEAN, step)
  <2> HIDE DEF D, measure, step
  <2>1. QED
    BY <1>9, DescentExists
<1>11. M \in F /\ \A at \in D : M[at] = MatchStep(name, filter, at[1], at[2], M)
  <2> HIDE DEF D, measure, step
  <2>1. QED
    BY <1>6, <1>10 DEF Descending
<1>12. Solves(name, filter, M)
  <2> HIDE DEF D
  <2>1. M = [at \in D |-> MatchStep(name, filter, at[1], at[2], M)]
    BY <1>11
  <2>2. QED
    BY <2>1 DEF Solves, D
<1> DEFINE S == CHOOSE g : Solves(name, filter, g)
<1>13. Solves(name, filter, S)
  BY <1>12
<1>14. MatchTopicFilter(name, filter) = S[<<1, 1>>]
  BY MatchSolution
<1>15. ASSUME NEW n \in 1 .. Len(name) + 1, NEW f \in 1 .. Len(filter) + 1
       PROVE  S[<<n, f>>] = MatchStep(name, filter, n, f, S)
  <2>1. <<n, f>> \in D /\ <<n, f>>[1] = n /\ <<n, f>>[2] = f
    BY DEF Places
  <2> HIDE DEF D, S
  <2>2. S = [at \in D |-> MatchStep(name, filter, at[1], at[2], S)]
    BY <1>13 DEF Solves, D
  <2>3. QED
    BY <2>1, <2>2
<1>16. QED
  BY <1>14, <1>15

(* The table of a name and a filter, as its rules: at an end, where the    *)
(* two have the same character, where a + stands at the start of a level,  *)
(* and where the characters differ.                                        *)
Text(name, filter) ==
    /\ name \in Seq(STRING) /\ filter \in Seq(STRING)
    /\ \A i \in 1 .. Len(name) : name[i] \notin {"+", "#"}
Rules(name, filter, M) ==
    /\ \A n \in 1 .. Len(name) + 1, f \in 1 .. Len(filter) + 1 :
          n > Len(name) \/ f > Len(filter) => (M[<<n, f>>] <=> n > Len(name) /\ f > Len(filter))
    /\ \A n \in 1 .. Len(name), f \in 1 .. Len(filter) :
          /\ name[n] = filter[f] =>
                (M[<<n, f>>] <=> (n = Len(name) /\ MatchEndWildcards(filter, f)) \/ M[<<n + 1, f + 1>>])
          /\ filter[f] = "+" /\ ValidForWildcard(filter, f) =>
                (M[<<n, f>>] <=> IF LevelEnd(name, n) > Len(name) THEN M[<<LevelEnd(name, n), f + 1>>]
                                 ELSE /\ f < Len(filter) /\ filter[f + 1] = "/"
                                      /\ M[<<LevelEnd(name, n) + 1, f + 2>>])
          /\ name[n] # filter[f] /\ ~ (filter[f] = "+" /\ ValidForWildcard(filter, f)) =>
                (M[<<n, f>>] <=> filter[f] = "#" /\ f = Len(filter) /\ ValidForWildcard(filter, f))

(* There is a table that follows the rules.                                *)
LEMMA MatchRules ==
    ASSUME NEW name, NEW filter, Text(name, filter)
    PROVE  \E M : MatchTopicFilter(name, filter) = M[<<1, 1>>] /\ Rules(name, filter, M)
<1>1. /\ name \in Seq(STRING) /\ filter \in Seq(STRING)
      /\ \A i \in 1 .. Len(name) : name[i] # "+"
  BY DEF Text
<1>2. PICK M : /\ MatchTopicFilter(name, filter) = M[<<1, 1>>]
               /\ \A n \in 1 .. Len(name) + 1, f \in 1 .. Len(filter) + 1 :
                     M[<<n, f>>] = MatchStep(name, filter, n, f, M)
  BY <1>1, MatchTable
<1>3. ASSUME NEW n \in 1 .. Len(name) + 1, NEW f \in 1 .. Len(filter) + 1,
             n > Len(name) \/ f > Len(filter)
      PROVE  M[<<n, f>>] <=> n > Len(name) /\ f > Len(filter)
  BY <1>2, <1>3 DEF MatchStep
<1>4. ASSUME NEW n \in 1 .. Len(name), NEW f \in 1 .. Len(filter)
      PROVE  /\ ~ (n > Len(name) \/ f > Len(filter))
             /\ M[<<n, f>>] = MatchStep(name, filter, n, f, M)
  <2>1. n \in 1 .. Len(name) + 1 /\ f \in 1 .. Len(filter) + 1 /\ ~ (n > Len(name) \/ f > Len(filter))
    BY <1>1
  <2>2. QED
    BY <1>2, <2>1
<1>5. ASSUME NEW n \in 1 .. Len(name), NEW f \in 1 .. Len(filter), name[n] = filter[f]
      PROVE  M[<<n, f>>] <=> (n = Len(name) /\ MatchEndWildcards(filter, f)) \/ M[<<n + 1, f + 1>>]
  BY <1>4, <1>5 DEF MatchStep
<1>6. ASSUME NEW n \in 1 .. Len(name), NEW f \in 1 .. Len(filter), filter[f] = "+", ValidForWildcard(filter, f)
      PROVE  M[<<n, f>>] <=> IF LevelEnd(name, n) > Len(name) THEN M[<<LevelEnd(name, n), f + 1>>]
                             ELSE /\ f < Len(filter) /\ filter[f + 1] = "/"
                                  /\ M[<<LevelEnd(name, n) + 1, f + 2>>]
  <2>1. name[n] # filter[f]
    BY <1>1, <1>6
  <2>2. QED
    BY <1>4, <1>6, <2>1 DEF MatchStep
<1>7. ASSUME NEW n \in 1 .. Len(name), NEW f \in 1 .. Len(filter),
             name[n] # filter[f], ~ (filter[f] = "+" /\ ValidForWildcard(filter, f))
      PROVE  M[<<n, f>>] <=> filter[f] = "#" /\ f = Len(filter) /\ ValidForWildcard(filter, f)
  BY <1>4, <1>7 DEF MatchStep
<1>8. Rules(name, filter, M)
  BY <1>3, <1>5, <1>6, <1>7 DEF Rules
<1>9. QED
  BY <1>2, <1>8

(* The separators of a string in their order, from the place before its    *)
(* start to the one behind its end: level k lies between the k-th and the  *)
(* one before it.                                                          *)
Cut(s, N, c) ==
    /\ N \in Nat \ {0} /\ c \in [0 .. N -> 0 .. Len(s) + 1] /\ c[0] = 0 /\ c[N] = Len(s) + 1
    /\ \A k \in 0 .. N - 1 : c[k] < c[k + 1]
    /\ \A k \in 1 .. N - 1 : s[c[k]] = "/"
    /\ \A k \in 0 .. N - 1 : \A i \in c[k] + 1 .. c[k + 1] - 1 : s[i] # "/"

(* A level, the k + 1st, from behind a to before e.                        *)
Level(s, N, k, a, e) ==
    /\ N \in Nat \ {0} /\ k \in 0 .. N - 1 /\ a \in 0 .. Len(s) /\ e \in a + 1 .. Len(s) + 1
    /\ a = 0 <=> k = 0
    /\ e = Len(s) + 1 <=> k = N - 1
    /\ a # 0 => s[a] = "/"
    /\ e # Len(s) + 1 => s[e] = "/"
    /\ \A i \in a + 1 .. e - 1 : s[i] # "/"

(* Between one separator and the next there is a level.                    *)
LEMMA LevelOf ==
    ASSUME NEW s, Len(s) \in Nat, NEW N, NEW c, Cut(s, N, c), NEW k \in 0 .. N - 1
    PROVE  Level(s, N, k, c[k], c[k + 1])
<1>1. /\ N \in Nat \ {0} /\ c \in [0 .. N -> 0 .. Len(s) + 1] /\ c[0] = 0 /\ c[N] = Len(s) + 1
      /\ \A j \in 0 .. N - 1 : c[j] < c[j + 1]
      /\ \A j \in 1 .. N - 1 : s[c[j]] = "/"
      /\ \A i \in c[k] + 1 .. c[k + 1] - 1 : s[i] # "/"
  BY DEF Cut
<1>2. PICK x \in Nat : x = Len(s)
  OBVIOUS
<1>3. PICK a \in 0 .. x + 1, e \in 0 .. x + 1 : a = c[k] /\ e = c[k + 1]
  BY <1>1, <1>2
<1>4. a < e
  BY <1>1, <1>3
<1>5. k # 0 => a > 0
  <2> SUFFICES ASSUME k # 0 PROVE a > 0
    OBVIOUS
  <2>1. PICK j \in 0 .. N - 1 : j + 1 = k
    BY <1>1
  <2>2. c[j] \in 0 .. x + 1 /\ c[j] < c[j + 1]
    BY <1>1, <1>2, <2>1
  <2>3. QED
    BY <1>3, <2>1, <2>2
<1>6. k # N - 1 => e < x + 1
  <2> SUFFICES ASSUME k # N - 1 PROVE e < x + 1
    OBVIOUS
  <2>1. k + 1 \in 0 .. N - 1 /\ k + 1 + 1 \in 0 .. N
    BY <1>1
  <2>2. c[k + 1 + 1] \in 0 .. x + 1 /\ c[k + 1] < c[k + 1 + 1]
    BY <1>1, <1>2, <2>1
  <2>3. QED
    BY <1>3, <2>2
<1>7. k = N - 1 => k + 1 = N
  BY <1>1
<1>8. k # 0 => s[a] = "/"
  BY <1>1, <1>3
<1>9. k # N - 1 => s[e] = "/"
  <2> SUFFICES ASSUME k # N - 1 PROVE s[e] = "/"
    OBVIOUS
  <2>1. k + 1 \in 1 .. N - 1
    BY <1>1
  <2>2. QED
    BY <1>1, <1>3, <2>1
<1>10. Level(s, N, k, a, e)
  BY <1>1, <1>2, <1>3, <1>4, <1>5, <1>6, <1>7, <1>8, <1>9 DEF Level
<1>11. QED
  BY <1>3, <1>10

(* Along characters that are the same and not the last of the name, or     *)
(* followed by something else than a wildcard, nothing is decided.         *)
SameRun(name, filter, n, f, r) ==
    /\ n \in 1 .. Len(name) + 1 /\ f \in 1 .. Len(filter) + 1
    /\ r \in Nat /\ n + r <= Len(name) + 1 /\ f + r <= Len(filter) + 1
    /\ \A i \in 0 .. r - 1 : /\ name[n + i] = filter[f + i]
                             /\ ~ (n + i = Len(name) /\ MatchEndWildcards(filter, f + i))

(* As long as nothing decides, the table says the same of the places       *)
(* reached.                                                                *)
LEMMA RunGoesOn ==
    ASSUME NEW name, NEW filter, Text(name, filter), NEW M, Rules(name, filter, M), NEW n, NEW f, NEW r,
           SameRun(name, filter, n, f, r)
    PROVE  M[<<n, f>>] <=> M[<<n + r, f + r>>]
<1>1. PICK x \in Nat, y \in Nat : x = Len(name) /\ y = Len(filter)
  BY DEF Text
<1>2. /\ n \in 1 .. x + 1 /\ f \in 1 .. y + 1 /\ r \in Nat /\ n + r <= x + 1 /\ f + r <= y + 1
      /\ \A i \in 0 .. r - 1 : name[n + i] = filter[f + i] /\ ~ (n + i = x /\ MatchEndWildcards(filter, f + i))
  BY <1>1 DEF SameRun
<1>3. \A m \in 1 .. x, g \in 1 .. y :
          name[m] = filter[g] => (M[<<m, g>>] <=> (m = x /\ MatchEndWildcards(filter, g)) \/ M[<<m + 1, g + 1>>])
  BY <1>1 DEF Rules
<1> DEFINE T == {i \in Nat : i <= r => (M[<<n, f>>] <=> M[<<n + i, f + i>>])}
<1>4. 0 \in T
  <2>1. n + 0 = n /\ f + 0 = f
    BY <1>2
  <2>2. QED
    BY <2>1
<1>5. ASSUME NEW i \in Nat, i \in T PROVE i + 1 \in T
  <2> SUFFICES ASSUME i + 1 <= r PROVE M[<<n, f>>] <=> M[<<n + (i + 1), f + (i + 1)>>]
    OBVIOUS
  <2>1. PICK m \in 1 .. x, g \in 1 .. y :
            m = n + i /\ g = f + i /\ m + 1 = n + (i + 1) /\ g + 1 = f + (i + 1) /\ i \in 0 .. r - 1
    BY <1>2
  <2>2. name[m] = filter[g] /\ ~ (m = x /\ MatchEndWildcards(filter, g))
    BY <1>2, <2>1
  <2>3. M[<<m, g>>] <=> M[<<m + 1, g + 1>>]
    BY <1>3, <2>2
  <2>4. i <= r
    BY <1>2
  <2>5. M[<<n, f>>] <=> M[<<n + i, f + i>>]
    BY <1>5, <2>4
  <2>6. QED
    BY <2>1, <2>3, <2>5
<1> HIDE DEF T
<1>6. \A i \in Nat : i \in T
  BY <1>4, <1>5, Induction
<1>7. r \in T
  BY <1>2, <1>6
<1>8. QED
  BY <1>2, <1>7 DEF T

(* The places of a level in the name, from behind a to before e, and of    *)
(* one in the filter, from behind b to before g.                           *)
BothLevels(name, filter, M, N, K, k, a, e, b, g) ==
    /\ Text(name, filter) /\ Rules(name, filter, M)
    /\ Level(name, N, k, a, e) /\ Level(filter, K, k, b, g) /\ a < Len(name)

(* A + takes the level, and either both end or both go on.                 *)
LEMMA PlusLevel ==
    ASSUME NEW name, NEW filter, NEW M, NEW N, NEW K, NEW k, NEW a, NEW e, NEW b, NEW g,
           BothLevels(name, filter, M, N, K, k, a, e, b, g), g = b + 2, filter[b + 1] = "+"
    PROVE  M[<<a + 1, b + 1>>] <=>
               IF k + 1 = N THEN k + 1 = K ELSE k + 1 < K /\ M[<<e + 1, g + 1>>]
<1>1. PICK x \in Nat, y \in Nat : x = Len(name) /\ y = Len(filter)
  BY DEF BothLevels, Text
<1>2. /\ N \in Nat /\ k \in 0 .. N - 1 /\ a \in 0 .. x - 1 /\ e \in a + 1 .. x + 1
      /\ e = x + 1 <=> k + 1 = N
      /\ e # x + 1 => name[e] = "/"
      /\ \A i \in a + 1 .. e - 1 : name[i] # "/"
  BY <1>1 DEF BothLevels, Level
<1>3. /\ K \in Nat /\ k \in 0 .. K - 1 /\ b \in 0 .. y /\ g \in b + 1 .. y + 1
      /\ b = 0 <=> k = 0
      /\ g = y + 1 <=> k + 1 = K
      /\ b # 0 => filter[b] = "/"
      /\ g # y + 1 => filter[g] = "/"
  BY <1>1 DEF BothLevels, Level
<1>4. LevelEnd(name, a + 1) = e
  <2>1. PICK h : h = LevelEnd(name, a + 1)
    OBVIOUS
  <2>2. name \in Seq(STRING) /\ a + 1 \in 1 .. Len(name) + 1
    BY <1>1, <1>2 DEF BothLevels, Text
  <2>3. h \in a + 1 .. x + 1 /\ (h <= x => name[h] = "/") /\ \A i \in a + 1 .. h - 1 : name[i] # "/"
    BY <1>1, <2>1, <2>2, LevelEndIs
  <2>4. ~ (h < e)
    BY <1>2, <2>3
  <2>5. ~ (e < h)
    BY <1>2, <2>3
  <2>6. h = e
    BY <1>2, <2>3, <2>4, <2>5
  <2>7. QED
    BY <2>1, <2>6
<1>5. PICK n \in 1 .. x, f \in 1 .. y : n = a + 1 /\ f = b + 1 /\ g = f + 1 /\ g + 1 = f + 2
  BY <1>2, <1>3
<1>6. filter[f] = "+" /\ ValidForWildcard(filter, f)
  <2>1. f = 1 \/ filter[f - 1] = "/"
    BY <1>3, <1>5
  <2>2. QED
    BY <1>5, <2>1 DEF ValidForWildcard
<1>7. M[<<n, f>>] <=> IF e > x THEN M[<<e, f + 1>>]
                      ELSE f < y /\ filter[f + 1] = "/" /\ M[<<e + 1, f + 2>>]
  <2>1. M[<<n, f>>] <=> IF LevelEnd(name, n) > Len(name) THEN M[<<LevelEnd(name, n), f + 1>>]
                        ELSE f < Len(filter) /\ filter[f + 1] = "/" /\ M[<<LevelEnd(name, n) + 1, f + 2>>]
    BY <1>1, <1>6 DEF BothLevels, Rules
  <2>2. QED
    BY <1>1, <1>4, <1>5, <2>1
<1>8. CASE e > x
  <2>1. k + 1 = N
    BY <1>2, <1>8
  <2>2. e \in 1 .. Len(name) + 1 /\ g \in 1 .. Len(filter) + 1 /\ e > Len(name)
    BY <1>1, <1>2, <1>3, <1>8
  <2>3. M[<<e, g>>] <=> g > Len(filter)
    BY <2>2 DEF BothLevels, Rules
  <2>4. g > y <=> k + 1 = K
    BY <1>3
  <2>5. QED
    BY <1>1, <1>5, <1>7, <1>8, <2>1, <2>3, <2>4
<1>9. CASE ~ (e > x)
  <2>1. k + 1 # N
    BY <1>2, <1>9
  <2>2. f < y <=> k + 1 < K
    BY <1>3, <1>5
  <2>3. f < y => filter[f + 1] = "/"
    BY <1>3, <1>5
  <2>4. QED
    BY <1>5, <1>7, <1>9, <2>1, <2>2, <2>3
<1>10. QED
  BY <1>8, <1>9

(* A # takes all that is left, when it is the last.                        *)
LEMMA HashLevel ==
    ASSUME NEW name, NEW filter, NEW M, NEW N, NEW K, NEW k, NEW a, NEW e, NEW b, NEW g,
           BothLevels(name, filter, M, N, K, k, a, e, b, g), g = b + 2, filter[b + 1] = "#"
    PROVE  M[<<a + 1, b + 1>>] <=> k + 1 = K
<1>1. PICK x \in Nat, y \in Nat : x = Len(name) /\ y = Len(filter)
  BY DEF BothLevels, Text
<1>2. a \in 0 .. x - 1 /\ \A i \in 1 .. x : name[i] # "#"
  BY <1>1 DEF BothLevels, Level, Text
<1>3. /\ K \in Nat /\ k \in 0 .. K - 1 /\ b \in 0 .. y /\ g \in b + 1 .. y + 1
      /\ b = 0 <=> k = 0
      /\ g = y + 1 <=> k + 1 = K
      /\ b # 0 => filter[b] = "/"
  BY <1>1 DEF BothLevels, Level
<1>4. PICK n \in 1 .. x, f \in 1 .. y : n = a + 1 /\ f = b + 1 /\ g = f + 1
  BY <1>2, <1>3
<1>5. filter[f] = "#" /\ ValidForWildcard(filter, f) /\ name[n] # filter[f] /\ filter[f] # "+"
  <2>1. f = 1 \/ filter[f - 1] = "/"
    BY <1>3, <1>4
  <2>2. QED
    BY <1>2, <1>4, <2>1 DEF ValidForWildcard
<1>6. M[<<n, f>>] <=> f = y
  BY <1>1, <1>5 DEF BothLevels, Rules
<1>7. f = y <=> k + 1 = K
  BY <1>3, <1>4
<1>8. QED
  BY <1>4, <1>6, <1>7

(* Levels with the same characters.                                        *)
SameLevels(name, filter, a, e, b, g) ==
    /\ g - b = e - a
    /\ \A i \in 0 .. e - a - 2 : name[a + 1 + i] = filter[b + 1 + i]

(* The name may end with the level, in front of a last /#.                 *)
LEMMA SameLevel ==
    ASSUME NEW name, NEW filter, NEW M, NEW N, NEW K, NEW k, NEW a, NEW e, NEW b, NEW g,
           BothLevels(name, filter, M, N, K, k, a, e, b, g), SameLevels(name, filter, a, e, b, g)
    PROVE  M[<<a + 1, b + 1>>] <=>
               \/ k + 1 = N /\ g = Len(filter) - 1 /\ filter[g] = "/" /\ filter[g + 1] = "#"
               \/ M[<<e, g>>]
<1>1. PICK x \in Nat, y \in Nat : x = Len(name) /\ y = Len(filter)
  BY DEF BothLevels, Text
<1>2. /\ N \in Nat /\ k \in 0 .. N - 1 /\ a \in 0 .. x - 1 /\ e \in a + 1 .. x + 1
      /\ e = x + 1 <=> k + 1 = N
  BY <1>1 DEF BothLevels, Level
<1>3. b \in 0 .. y /\ g \in b + 1 .. y + 1 /\ \A i \in b + 1 .. g - 1 : filter[i] # "/"
  BY <1>1 DEF BothLevels, Level
<1>4. g - b = e - a /\ \A i \in 0 .. e - a - 2 : name[a + 1 + i] = filter[b + 1 + i]
  BY DEF SameLevels
<1>5. CASE e = a + 1
  <2>1. g = b + 1 /\ k + 1 # N
    BY <1>2, <1>3, <1>4, <1>5
  <2>2. QED
    BY <1>5, <2>1
<1>6. CASE e # a + 1
  <2>1. PICK r \in Nat : r = e - a - 2
    BY <1>2, <1>6
  <2>2. PICK n \in 1 .. x, f \in 1 .. y : n = a + 1 /\ f = b + 1
    BY <1>2, <1>3, <1>4, <1>6
  <2>3. PICK m \in 1 .. x, h \in 1 .. y :
            m = n + r /\ h = f + r /\ m + 1 = e /\ h + 1 = g /\ h \in b + 1 .. g - 1 /\ h = g - 1
    BY <1>2, <1>3, <1>4, <2>1, <2>2
  <2>4. ASSUME NEW i \in 0 .. r - 1
        PROVE  name[n + i] = filter[f + i] /\ ~ (n + i = x)
    <3>1. i \in 0 .. e - a - 2
      BY <1>2, <2>1
    <3>2. n + i # x
      BY <1>2, <2>1, <2>2
    <3>3. QED
      BY <1>4, <2>2, <3>1, <3>2
  <2>5. n + r <= x + 1 /\ f + r <= y + 1
    BY <2>3
  <2>6. SameRun(name, filter, n, f, r)
    <3>1. n \in 1 .. x + 1 /\ f \in 1 .. y + 1 /\ r \in Nat
      BY <2>2
    <3>2. \A i \in 0 .. r - 1 : name[n + i] = filter[f + i] /\ ~ (n + i = x /\ MatchEndWildcards(filter, f + i))
      BY <2>4
    <3>3. QED
      BY <1>1, <2>5, <3>1, <3>2 DEF SameRun
  <2>7. M[<<n, f>>] <=> M[<<m, h>>]
    BY <2>3, <2>6, RunGoesOn DEF BothLevels
  <2>8. name[m] = filter[h]
    <3>1. r \in 0 .. e - a - 2
      BY <1>2, <2>1
    <3>2. QED
      BY <1>4, <2>2, <2>3, <3>1
  <2>9. M[<<m, h>>] <=> (m = x /\ MatchEndWildcards(filter, h)) \/ M[<<m + 1, h + 1>>]
    BY <1>1, <2>8 DEF BothLevels, Rules
  <2>10. m = x <=> k + 1 = N
    BY <1>2, <2>3
  <2>11. MatchEndWildcards(filter, h) <=>
             h = y - 2 /\ filter[h + 1] = "/" /\ filter[h + 2] = "#"
    BY <1>1, <1>3, <2>3 DEF MatchEndWildcards
  <2>12. (h = y - 2 <=> g = y - 1) /\ h + 1 = g /\ h + 2 = g + 1
    BY <2>3
  <2>13. QED
    BY <1>1, <2>2, <2>3, <2>7, <2>9, <2>10, <2>11, <2>12
<1>7. QED
  BY <1>5, <1>6

(* Inside a level that is no wildcard a difference is one.                 *)
LEMMA DifferentInside ==
    ASSUME NEW name, NEW filter, NEW M, NEW K, NEW k, NEW b, NEW g,
           Text(name, filter), Rules(name, filter, M), Level(filter, K, k, b, g),
           ~ (g = b + 2 /\ filter[b + 1] \in {"+", "#"}),
           NEW n \in 1 .. Len(name), NEW f \in b + 1 .. g - 1, name[n] # filter[f]
    PROVE  ~ M[<<n, f>>]
<1>1. PICK x \in Nat, y \in Nat : x = Len(name) /\ y = Len(filter)
  BY DEF Text
<1>2. b \in 0 .. y /\ g \in b + 1 .. y + 1 /\ \A i \in b + 1 .. g - 1 : filter[i] # "/"
  BY <1>1 DEF Level
<1>3. n \in 1 .. x /\ f \in 1 .. y /\ b \in Int /\ g \in Int
  BY <1>1, <1>2
<1>4. CASE filter[f] \in {"+", "#"} /\ ValidForWildcard(filter, f)
  <2>1. f = b + 1
    <3>1. f # 1 => ~ (f - 1 \in b + 1 .. g - 1)
      BY <1>2, <1>4 DEF ValidForWildcard
    <3>2. QED
      BY <1>2, <1>3, <3>1
  <2>2. PICK h \in 1 .. y : h = f + 1 /\ h \in b + 1 .. g - 1
    <3>1. g # b + 2
      BY <1>4, <2>1
    <3>2. QED
      BY <1>2, <2>1, <3>1
  <2>3. filter[h] # "/"
    BY <1>2, <2>2
  <2>4. CASE filter[f] = "+"
    <3>1. M[<<n, f>>] <=> IF LevelEnd(name, n) > Len(name) THEN M[<<LevelEnd(name, n), f + 1>>]
                          ELSE f < Len(filter) /\ filter[f + 1] = "/" /\ M[<<LevelEnd(name, n) + 1, f + 2>>]
      BY <1>1, <1>3, <1>4, <2>4 DEF Rules
    <3>2. PICK e \in 1 .. x + 1 : e = LevelEnd(name, n)
      <4>1. name \in Seq(STRING) /\ n \in 1 .. Len(name) + 1
        BY <1>1, <1>3 DEF Text
      <4>2. LevelEnd(name, n) \in n .. Len(name) + 1
        BY <4>1, LevelEndIs
      <4>3. QED
        BY <1>1, <1>3, <4>2
    <3>3. e > x => ~ M[<<e, h>>]
      <4>1. e \in 1 .. Len(name) + 1 /\ h \in 1 .. Len(filter) + 1 /\ ~ (h > Len(filter))
        BY <1>1, <2>2, <3>2
      <4>2. QED
        BY <1>1, <4>1 DEF Rules
    <3>4. QED
      BY <1>1, <2>2, <2>3, <3>1, <3>2, <3>3
  <2>5. CASE filter[f] = "#"
    <3>1. M[<<n, f>>] <=> f = y
      BY <1>1, <1>3, <1>4, <2>5 DEF Rules
    <3>2. QED
      BY <2>2, <3>1
  <2>6. QED
    BY <1>4, <2>4, <2>5
<1>5. CASE ~ (filter[f] \in {"+", "#"} /\ ValidForWildcard(filter, f))
  <2>1. M[<<n, f>>] <=> filter[f] = "#" /\ f = Len(filter) /\ ValidForWildcard(filter, f)
    BY <1>1, <1>3, <1>5 DEF Rules
  <2>2. QED
    BY <1>5, <2>1
<1>6. QED
  BY <1>4, <1>5

(* A level of the filter that is neither a wildcard nor the same refuses.  *)
LEMMA DifferentLevel ==
    ASSUME NEW name, NEW filter, NEW M, NEW N, NEW K, NEW k, NEW a, NEW e, NEW b, NEW g,
           BothLevels(name, filter, M, N, K, k, a, e, b, g), ~ SameLevels(name, filter, a, e, b, g),
           ~ (g = b + 2 /\ filter[b + 1] \in {"+", "#"})
    PROVE  ~ M[<<a + 1, b + 1>>]
<1>1. PICK x \in Nat, y \in Nat : x = Len(name) /\ y = Len(filter)
  BY DEF BothLevels, Text
<1>2. /\ a \in 0 .. x - 1 /\ e \in a + 1 .. x + 1
      /\ e # x + 1 => name[e] = "/"
      /\ \A i \in a + 1 .. e - 1 : name[i] # "/"
  BY <1>1 DEF BothLevels, Level
<1>3. /\ b \in 0 .. y /\ g \in b + 1 .. y + 1
      /\ g # y + 1 => filter[g] = "/"
      /\ \A i \in b + 1 .. g - 1 : filter[i] # "/"
  BY <1>1 DEF BothLevels, Level
<1>4. PICK l \in Nat, m \in Nat : l = e - a - 1 /\ m = g - b - 1 /\ e = a + 1 + l /\ g = b + 1 + m
  BY <1>2, <1>3
<1> DEFINE T == {i \in Nat : i >= l \/ i >= m \/ name[a + 1 + i] # filter[b + 1 + i]}
<1>5. l \in T /\ m \in T
  OBVIOUS
<1>6. PICK r \in T : \A i \in T : r <= i
  <2>1. T \in SUBSET Nat
    OBVIOUS
  <2> HIDE DEF T
  <2>2. QED
    BY <1>5, <2>1, LeastNatural
<1>7. /\ r \in Nat /\ r <= l /\ r <= m
      /\ r = l \/ r = m \/ name[a + 1 + r] # filter[b + 1 + r]
  BY <1>5, <1>6
<1>8. ASSUME NEW i \in 0 .. r - 1 PROVE name[a + 1 + i] = filter[b + 1 + i]
  <2>1. i \in Nat /\ ~ (r <= i)
    BY <1>7
  <2>2. i \notin T
    BY <1>6, <2>1
  <2>3. QED
    BY <2>1, <2>2
<1> HIDE DEF T
<1>9. ~ (r = l /\ r = m)
  <2> SUFFICES ASSUME r = l, r = m PROVE SameLevels(name, filter, a, e, b, g)
    OBVIOUS
  <2>1. g - b = e - a /\ e - a - 2 = r - 1
    BY <1>2, <1>3, <1>4
  <2>2. QED
    BY <1>8, <2>1 DEF SameLevels
<1>10. PICK n \in 1 .. x, f \in 1 .. y + 1 : n = a + 1 /\ f = b + 1
  BY <1>2, <1>3
<1>11. ASSUME NEW i \in 0 .. r - 1 PROVE ~ (n + i = x /\ MatchEndWildcards(filter, f + i))
  <2> SUFFICES ASSUME n + i = x, MatchEndWildcards(filter, f + i) PROVE FALSE
    OBVIOUS
  <2>1. i + 1 = l /\ r = l
    BY <1>2, <1>4, <1>7, <1>10
  <2>2. PICK h \in b + 1 .. g - 1 : h = f + i
    BY <1>3, <1>4, <1>7, <1>10
  <2>3. filter[h] # "/"
    BY <1>3
  <2>4. filter[h + 1] = "/"
    BY <2>2, <2>3 DEF MatchEndWildcards
  <2>5. ~ (h + 1 \in b + 1 .. g - 1)
    BY <1>3, <2>4
  <2>6. h + 1 = g
    BY <1>3, <2>5
  <2>7. r = m
    <3>1. PICK j \in Nat : j = i /\ h = b + 1 + j
      BY <1>10, <2>2
    <3>2. b + 1 + j + 1 = b + 1 + m
      BY <1>4, <2>6, <3>1
    <3>3. b \in Nat
      BY <1>3
    <3>4. j + 1 = m
      BY <1>4, <3>2, <3>3
    <3>5. QED
      BY <2>1, <3>1, <3>4
  <2>8. QED
    BY <1>9, <2>1, <2>7
<1>12. n + r <= x + 1 /\ f + r <= y + 1 /\ n + r \in 1 .. x + 1 /\ f + r \in 1 .. y + 1
  BY <1>2, <1>3, <1>4, <1>7, <1>10
<1>13. SameRun(name, filter, n, f, r)
  <2>1. n \in 1 .. x + 1 /\ f \in 1 .. y + 1 /\ r \in Nat
    BY <1>7
  <2>2. \A i \in 0 .. r - 1 : name[n + i] = filter[f + i] /\ ~ (n + i = x /\ MatchEndWildcards(filter, f + i))
    BY <1>8, <1>10, <1>11
  <2>3. QED
    BY <1>1, <1>12, <2>1, <2>2 DEF SameRun
<1>14. M[<<a + 1, b + 1>>] <=> M[<<n + r, f + r>>]
  BY <1>10, <1>13, RunGoesOn DEF BothLevels
<1>15. PICK p \in 1 .. x + 1, q \in 1 .. y + 1 : p = n + r /\ q = f + r
  BY <1>12
<1>16. ~ M[<<p, q>>]
  <2>1. CASE r < m
    <3>1. q \in b + 1 .. g - 1 /\ q <= y
      BY <1>3, <1>4, <1>7, <1>10, <1>15, <2>1
    <3>2. filter[q] # "/"
      BY <1>3, <3>1
    <3>3. CASE p > x
      <4>1. p \in 1 .. Len(name) + 1 /\ q \in 1 .. Len(filter) + 1 /\ p > Len(name) /\ ~ (q > Len(filter))
        BY <1>1, <3>1, <3>3
      <4>2. QED
        BY <4>1 DEF BothLevels, Rules
    <3>4. CASE ~ (p > x)
      <4>1. name[p] # filter[q]
        <5>1. CASE r = l
          <6>1. p = e /\ e # x + 1
            BY <1>2, <1>4, <1>10, <1>15, <3>4, <5>1
          <6>2. QED
            BY <1>2, <3>2, <6>1
        <5>2. CASE r # l
          BY <1>7, <1>10, <1>15, <2>1, <5>2
        <5>3. QED
          BY <5>1, <5>2
      <4>2. p \in 1 .. Len(name)
        BY <1>1, <3>4
      <4>3. QED
        BY <3>1, <4>1, <4>2, DifferentInside DEF BothLevels
    <3>5. QED
      BY <3>3, <3>4
  <2>2. CASE ~ (r < m)
    <3>1. r = m /\ r < l
      BY <1>7, <1>9, <2>2
    <3>2. q = g /\ p \in a + 1 .. e - 1 /\ p <= x
      BY <1>2, <1>3, <1>4, <1>10, <1>15, <3>1
    <3>3. name[p] # "/"
      BY <1>2, <3>2
    <3>4. CASE g = y + 1
      <4>1. p \in 1 .. Len(name) + 1 /\ q \in 1 .. Len(filter) + 1 /\ q > Len(filter) /\ ~ (p > Len(name))
        BY <1>1, <3>2, <3>4
      <4>2. QED
        BY <4>1 DEF BothLevels, Rules
    <3>5. CASE g # y + 1
      <4>1. p \in 1 .. Len(name) /\ q \in 1 .. Len(filter) /\ filter[q] = "/"
        BY <1>1, <1>3, <3>2, <3>5
      <4>2. name[p] # filter[q] /\ filter[q] # "+" /\ filter[q] # "#"
        BY <3>3, <4>1
      <4>3. QED
        BY <4>1, <4>2 DEF BothLevels, Rules
    <3>6. QED
      BY <3>4, <3>5
  <2>3. QED
    BY <2>1, <2>2
<1>17. QED
  BY <1>14, <1>15, <1>16

-----------------------------------------------------------------------------
(* Level by level                                                           *)

(* The levels that stand for others, and the one without a character.      *)
AnyLevel == <<"+">>
AllLevels == <<"#">>
NoLevel == <<>>

(* What the table says of the place where level k + 1 of the name and of   *)
(* the filter begin, in terms of the levels: P are the numbers k where it  *)
(* says yes.                                                               *)
LevelRule(nl, fl, N, K, P, k) ==
    /\ k + 1 = N /\ nl[N] = NoLevel => (k \in P <=> k + 1 = K /\ fl[K] = NoLevel)
    /\ ~ (k + 1 = N /\ nl[N] = NoLevel) =>
          /\ fl[k + 1] = AnyLevel =>
                (k \in P <=> IF k + 1 = N THEN k + 1 = K ELSE k + 1 < K /\ k + 1 \in P)
          /\ fl[k + 1] = AllLevels => (k \in P <=> k + 1 = K)
          /\ fl[k + 1] = nl[k + 1] =>
                (k \in P <=>
                    IF k + 1 = N THEN k + 1 = K \/ (k + 2 = K /\ fl[K] = AllLevels)
                    ELSE /\ k + 1 < K
                         /\ \/ k + 1 \in P
                            \/ /\ k + 2 = N /\ nl[N] = NoLevel
                               /\ \/ k + 3 = K /\ fl[k + 2] = NoLevel /\ fl[K] = AllLevels
                                  \/ k + 2 = K /\ fl[K] \in {AnyLevel, AllLevels})
          /\ fl[k + 1] \notin {AnyLevel, AllLevels, nl[k + 1]} => k \notin P
LevelRules(nl, fl, V, N, K, P) ==
    /\ N \in Nat \ {0} /\ K \in Nat \ {0}
    /\ \A j \in 1 .. N : nl[j] \notin {AnyLevel, AllLevels}
    /\ \A j \in 1 .. K : /\ fl[j] \in {AnyLevel, NoLevel} => j \in V
                         /\ fl[j] = AllLevels => (j \in V <=> j = K)
                         /\ \A i \in 1 .. N : fl[j] = nl[i] => j \in V
    /\ \A k \in 0 .. N - 1 : k < K => LevelRule(nl, fl, N, K, P, k)

(* What MQTT says of the levels after the first k, V being the valid ones  *)
(* of the filter, less what is missed.                                     *)
FixedLevels(fl, K) == IF fl[K] = AllLevels THEN K - 1 ELSE K
MissedLast(nl, fl, N, K, k) ==
    \/ K = N + 1 /\ fl[N] = AnyLevel /\ fl[K] = AllLevels
    \/ /\ N >= k + 2 /\ nl[N] = NoLevel /\ fl[N - 1] = AnyLevel
       /\ \/ K = N /\ fl[N] \in {AnyLevel, AllLevels}
          \/ K = N + 1 /\ fl[N] = NoLevel /\ fl[K] = AllLevels
RestMatches(nl, fl, V, N, K, k) ==
    /\ \A j \in k + 1 .. K : j \in V
    /\ IF fl[K] = AllLevels THEN N >= FixedLevels(fl, K) ELSE N = K
    /\ \A j \in k + 1 .. FixedLevels(fl, K) : fl[j] = AnyLevel \/ nl[j] = fl[j]
    /\ ~ MissedLast(nl, fl, N, K, k)

(* The three are different.                                                *)
LEMMA LevelsDiffer == AnyLevel # AllLevels /\ AnyLevel # NoLevel /\ AllLevels # NoLevel
BY DEF AnyLevel, AllLevels, NoLevel

(* Where a level fits and is not the last, the rest decides.               *)
LEMMA RestGoesOn ==
    ASSUME NEW nl, NEW fl, NEW V, NEW N \in Nat, NEW K \in Nat, NEW k \in Nat, k + 1 < N, k + 1 < K,
           k + 1 \in V, fl[k + 1] = AnyLevel \/ nl[k + 1] = fl[k + 1],
           ~ (fl[k + 1] = AnyLevel /\ N = k + 2 /\ nl[N] = NoLevel)
    PROVE  RestMatches(nl, fl, V, N, K, k) <=> RestMatches(nl, fl, V, N, K, k + 1)
<1>1. (\A j \in k + 1 .. K : j \in V) <=> (\A j \in k + 1 + 1 .. K : j \in V)
  OBVIOUS
<1>2. PICK h \in {K - 1, K} : h = FixedLevels(fl, K)
  BY DEF FixedLevels
<1>3. (\A j \in k + 1 .. h : fl[j] = AnyLevel \/ nl[j] = fl[j]) <=>
          (\A j \in k + 1 + 1 .. h : fl[j] = AnyLevel \/ nl[j] = fl[j])
  <2>1. \A j \in k + 1 .. h : j = k + 1 \/ j \in k + 1 + 1 .. h
    OBVIOUS
  <2>2. \A j \in k + 1 + 1 .. h : j \in k + 1 .. h
    OBVIOUS
  <2>3. QED
    BY <2>1, <2>2
<1>4. MissedLast(nl, fl, N, K, k) <=> MissedLast(nl, fl, N, K, k + 1)
  <2>1. CASE N = k + 2
    <3>1. N - 1 = k + 1 /\ N >= k + 2 /\ ~ (N >= k + 1 + 2)
      BY <2>1
    <3>2. ~ (nl[N] = NoLevel /\ fl[N - 1] = AnyLevel)
      BY <2>1, <3>1
    <3>3. QED
      BY <3>1, <3>2 DEF MissedLast
  <2>2. CASE N # k + 2
    <3>1. N >= k + 2 /\ N >= k + 1 + 2
      BY <2>2
    <3>2. QED
      BY <3>1 DEF MissedLast
  <2>3. QED
    BY <2>1, <2>2
<1>5. QED
  BY <1>1, <1>2, <1>3, <1>4 DEF RestMatches

(* A level that stands for any other.                                      *)
LEMMA AnyDecides ==
    ASSUME NEW nl, NEW fl, NEW V, NEW N, NEW K, NEW P, LevelRules(nl, fl, V, N, K, P),
           NEW k \in 0 .. N - 1, k < K, ~ (k + 1 = N /\ nl[N] = NoLevel), fl[k + 1] = AnyLevel,
           k + 1 < N /\ k + 1 < K /\ ~ (k + 2 = N /\ nl[N] = NoLevel) =>
               (k + 1 \in P <=> RestMatches(nl, fl, V, N, K, k + 1))
    PROVE  k \in P <=> RestMatches(nl, fl, V, N, K, k)
<1>1. /\ N \in Nat \ {0} /\ K \in Nat \ {0} /\ LevelRule(nl, fl, N, K, P, k)
      /\ \A j \in 1 .. K : fl[j] \in {AnyLevel, NoLevel} => j \in V
      /\ fl[K] = AllLevels => K \in V
  BY DEF LevelRules
<1>2. k \in P <=> IF k + 1 = N THEN k + 1 = K ELSE k + 1 < K /\ k + 1 \in P
  BY <1>1 DEF LevelRule
<1>3. k + 1 \in V
  BY <1>1
<1>4. CASE k + 1 = N
  <2>1. CASE K = N
    <3>1. fl[K] # AllLevels /\ FixedLevels(fl, K) = K /\ fl[K] = AnyLevel
      BY <1>4, <2>1, LevelsDiffer DEF FixedLevels
    <3>2. (\A j \in k + 1 .. K : j = k + 1) /\ k + 1 = K
      BY <1>1, <1>4, <2>1
    <3>3. ~ MissedLast(nl, fl, N, K, k)
      <4>1. K # N + 1 /\ ~ (N >= k + 2)
        BY <1>1, <1>4, <2>1
      <4>2. QED
        BY <4>1 DEF MissedLast
    <3>4. RestMatches(nl, fl, V, N, K, k)
      BY <1>3, <2>1, <3>1, <3>2, <3>3 DEF RestMatches
    <3>5. QED
      BY <1>2, <1>4, <2>1, <3>4
  <2>2. CASE K # N
    <3> SUFFICES ASSUME RestMatches(nl, fl, V, N, K, k) PROVE FALSE
      BY <1>2, <1>4, <2>2
    <3>1. fl[K] = AllLevels /\ N >= K - 1
      BY <2>2 DEF RestMatches, FixedLevels
    <3>2. K = N + 1
      BY <1>1, <1>4, <2>2, <3>1
    <3>3. MissedLast(nl, fl, N, K, k)
      BY <1>4, <3>1, <3>2 DEF MissedLast
    <3>4. QED
      BY <3>3 DEF RestMatches
  <2>3. QED
    BY <2>1, <2>2
<1>5. CASE k + 1 # N /\ ~ (k + 1 < K)
  <2>1. K = k + 1 /\ K # N /\ fl[K] # AllLevels
    BY <1>1, <1>5, LevelsDiffer
  <2>2. ~ RestMatches(nl, fl, V, N, K, k)
    BY <2>1 DEF RestMatches
  <2>3. QED
    BY <1>2, <1>5, <2>2
<1>6. CASE k + 1 # N /\ k + 1 < K /\ ~ (k + 2 = N /\ nl[N] = NoLevel)
  <2>1. k + 1 < N /\ k \in Nat
    BY <1>1, <1>6
  <2>2. RestMatches(nl, fl, V, N, K, k) <=> RestMatches(nl, fl, V, N, K, k + 1)
    BY <1>1, <1>3, <1>6, <2>1, RestGoesOn
  <2>3. QED
    BY <1>2, <1>6, <2>1, <2>2
<1>7. CASE k + 1 # N /\ k + 1 < K /\ k + 2 = N /\ nl[N] = NoLevel
  <2>1. k + 1 \in 0 .. N - 1 /\ k + 1 + 1 = N
    BY <1>1, <1>7
  <2>2. k + 1 \in P <=> N = K /\ fl[K] = NoLevel
    <3>1. LevelRule(nl, fl, N, K, P, k + 1)
      BY <1>7, <2>1 DEF LevelRules
    <3>2. QED
      BY <1>7, <2>1, <3>1 DEF LevelRule
  <2>3. CASE N = K /\ fl[K] = NoLevel
    <3>1. fl[K] # AllLevels /\ FixedLevels(fl, K) = K
      BY <2>3, LevelsDiffer DEF FixedLevels
    <3>2. \A j \in k + 1 .. K : j = k + 1 \/ j = K
      BY <1>1, <1>7, <2>3
    <3>3. K \in V
      BY <1>1, <2>3
    <3>4. ~ MissedLast(nl, fl, N, K, k)
      BY <1>1, <2>3, LevelsDiffer DEF MissedLast
    <3>5. RestMatches(nl, fl, V, N, K, k)
      BY <1>3, <1>7, <2>3, <3>1, <3>2, <3>3, <3>4 DEF RestMatches
    <3>6. QED
      BY <1>2, <1>7, <2>2, <2>3, <3>5
  <2>4. CASE ~ (N = K /\ fl[K] = NoLevel)
    <3> SUFFICES ASSUME RestMatches(nl, fl, V, N, K, k) PROVE FALSE
      BY <1>2, <1>7, <2>2, <2>4
    <3>1. N - 1 = k + 1 /\ N >= k + 2 /\ fl[N - 1] = AnyLevel
      BY <1>1, <1>7
    <3>2. CASE fl[K] = AllLevels
      <4>1. K = N \/ K = N + 1
        BY <1>1, <1>7, <3>2 DEF RestMatches, FixedLevels
      <4>2. K = N + 1 => fl[N] = AnyLevel \/ nl[N] = fl[N]
        <5>1. K = N + 1 => N \in k + 1 .. FixedLevels(fl, K)
          BY <1>1, <1>7, <3>2 DEF FixedLevels
        <5>2. QED
          BY <5>1 DEF RestMatches
      <4>3. MissedLast(nl, fl, N, K, k)
        BY <1>7, <3>1, <3>2, <4>1, <4>2 DEF MissedLast
      <4>4. QED
        BY <4>3 DEF RestMatches
    <3>3. CASE fl[K] # AllLevels
      <4>1. K = N /\ FixedLevels(fl, K) = K
        BY <3>3 DEF RestMatches, FixedLevels
      <4>2. fl[N] = AnyLevel \/ nl[N] = fl[N]
        <5>1. N \in k + 1 .. FixedLevels(fl, K)
          BY <1>1, <1>7, <4>1
        <5>2. QED
          BY <5>1 DEF RestMatches
      <4>3. fl[N] = AnyLevel
        BY <1>7, <2>4, <4>1, <4>2
      <4>4. MissedLast(nl, fl, N, K, k)
        BY <1>7, <3>1, <4>1, <4>3 DEF MissedLast
      <4>5. QED
        BY <4>4 DEF RestMatches
    <3>4. QED
      BY <3>2, <3>3
  <2>5. QED
    BY <2>3, <2>4
<1>8. QED
  BY <1>4, <1>5, <1>6, <1>7

(* A level that stands for all that is left.                               *)
LEMMA AllDecides ==
    ASSUME NEW nl, NEW fl, NEW V, NEW N, NEW K, NEW P, LevelRules(nl, fl, V, N, K, P),
           NEW k \in 0 .. N - 1, k < K, ~ (k + 1 = N /\ nl[N] = NoLevel), fl[k + 1] = AllLevels
    PROVE  k \in P <=> RestMatches(nl, fl, V, N, K, k)
<1>1. /\ N \in Nat \ {0} /\ K \in Nat \ {0} /\ LevelRule(nl, fl, N, K, P, k)
      /\ \A j \in 1 .. K : fl[j] = AllLevels => (j \in V <=> j = K)
  BY DEF LevelRules
<1>2. k \in P <=> k + 1 = K
  BY <1>1 DEF LevelRule
<1>3. k + 1 \in 1 .. K /\ (k + 1 \in V <=> k + 1 = K)
  BY <1>1
<1>4. CASE k + 1 = K
  <2>1. fl[K] = AllLevels /\ FixedLevels(fl, K) = k
    BY <1>1, <1>4 DEF FixedLevels
  <2>2. N >= k /\ (\A j \in k + 1 .. K : j = k + 1) /\ ~ \E j \in k + 1 .. k : TRUE
    BY <1>1, <1>4
  <2>3. ~ MissedLast(nl, fl, N, K, k)
    <3>1. K # N + 1 /\ ~ (N >= k + 2 /\ K = N)
      BY <1>1, <1>4
    <3>2. QED
      BY <3>1 DEF MissedLast
  <2>4. RestMatches(nl, fl, V, N, K, k)
    BY <1>3, <1>4, <2>1, <2>2, <2>3 DEF RestMatches
  <2>5. QED
    BY <1>2, <1>4, <2>4
<1>5. CASE k + 1 # K
  <2>1. k + 1 \in k + 1 .. K /\ k + 1 \notin V
    BY <1>1, <1>3, <1>5
  <2>2. QED
    BY <1>2, <1>5, <2>1 DEF RestMatches
<1>6. QED
  BY <1>4, <1>5

(* A level that is neither a wildcard nor the one of the name.             *)
LEMMA NoneDecides ==
    ASSUME NEW nl, NEW fl, NEW V, NEW N, NEW K, NEW P, LevelRules(nl, fl, V, N, K, P),
           NEW k \in 0 .. N - 1, k < K, ~ (k + 1 = N /\ nl[N] = NoLevel),
           fl[k + 1] \notin {AnyLevel, AllLevels, nl[k + 1]}
    PROVE  k \in P <=> RestMatches(nl, fl, V, N, K, k)
<1>1. N \in Nat \ {0} /\ K \in Nat \ {0} /\ LevelRule(nl, fl, N, K, P, k)
  BY DEF LevelRules
<1>2. k \notin P
  BY <1>1 DEF LevelRule
<1>3. k + 1 \in k + 1 .. FixedLevels(fl, K)
  <2>1. fl[K] = AllLevels => k + 1 # K
    OBVIOUS
  <2>2. QED
    BY <1>1, <2>1 DEF FixedLevels
<1>4. QED
  BY <1>2, <1>3 DEF RestMatches

(* The level of the name.                                                  *)
LEMMA SameDecides ==
    ASSUME NEW nl, NEW fl, NEW V, NEW N, NEW K, NEW P, LevelRules(nl, fl, V, N, K, P),
           NEW k \in 0 .. N - 1, k < K, ~ (k + 1 = N /\ nl[N] = NoLevel), fl[k + 1] = nl[k + 1],
           k + 1 < N /\ k + 1 < K /\ ~ (k + 2 = N /\ nl[N] = NoLevel) =>
               (k + 1 \in P <=> RestMatches(nl, fl, V, N, K, k + 1))
    PROVE  k \in P <=> RestMatches(nl, fl, V, N, K, k)
<1>1. /\ N \in Nat \ {0} /\ K \in Nat \ {0} /\ LevelRule(nl, fl, N, K, P, k)
      /\ \A j \in 1 .. N : nl[j] \notin {AnyLevel, AllLevels}
      /\ \A j \in 1 .. K : fl[j] \in {AnyLevel, NoLevel} => j \in V
      /\ fl[K] = AllLevels => K \in V
      /\ \A j \in 1 .. K, i \in 1 .. N : fl[j] = nl[i] => j \in V
  BY DEF LevelRules
<1>2. k \in P <=>
          IF k + 1 = N THEN k + 1 = K \/ (k + 2 = K /\ fl[K] = AllLevels)
          ELSE /\ k + 1 < K
               /\ \/ k + 1 \in P
                  \/ /\ k + 2 = N /\ nl[N] = NoLevel
                     /\ \/ k + 3 = K /\ fl[k + 2] = NoLevel /\ fl[K] = AllLevels
                        \/ k + 2 = K /\ fl[K] \in {AnyLevel, AllLevels}
  BY <1>1 DEF LevelRule
<1>3. /\ k + 1 \in 1 .. N /\ k + 1 \in 1 .. K /\ k + 1 \in V
      /\ fl[k + 1] # AnyLevel /\ fl[k + 1] # AllLevels
  BY <1>1
<1>4. CASE k + 1 = N
  <2>1. ~ MissedLast(nl, fl, N, K, k)
    <3>1. ~ (N >= k + 2) /\ fl[N] # AnyLevel
      BY <1>1, <1>3, <1>4
    <3>2. QED
      BY <3>1 DEF MissedLast
  <2>2. CASE K = N
    <3>1. fl[K] # AllLevels /\ FixedLevels(fl, K) = K
      BY <1>3, <1>4, <2>2 DEF FixedLevels
    <3>2. \A j \in k + 1 .. K : j = k + 1
      BY <1>1, <1>4, <2>2
    <3>3. RestMatches(nl, fl, V, N, K, k)
      BY <1>3, <2>1, <2>2, <3>1, <3>2 DEF RestMatches
    <3>4. QED
      BY <1>2, <1>4, <2>2, <3>3
  <2>3. CASE K = N + 1 /\ fl[K] = AllLevels
    <3>1. FixedLevels(fl, K) = N /\ K = k + 2
      BY <1>1, <1>4, <2>3 DEF FixedLevels
    <3>2. (\A j \in k + 1 .. K : j = k + 1 \/ j = K) /\ (\A j \in k + 1 .. N : j = k + 1)
      BY <1>1, <1>4, <3>1
    <3>3. N >= FixedLevels(fl, K)
      BY <1>1, <3>1
    <3>4. RestMatches(nl, fl, V, N, K, k)
      BY <1>1, <1>3, <2>1, <2>3, <3>1, <3>2, <3>3 DEF RestMatches
    <3>5. QED
      BY <1>2, <1>4, <2>3, <3>1, <3>4
  <2>4. CASE K # N /\ ~ (K = N + 1 /\ fl[K] = AllLevels)
    <3>1. RestMatches(nl, fl, V, N, K, k) => fl[K] = AllLevels /\ N >= K - 1
      BY <2>4 DEF RestMatches, FixedLevels
    <3>2. N >= K - 1 => K = N \/ K = N + 1
      BY <1>1, <1>4
    <3>3. ~ (k + 1 = K) /\ (k + 2 = K => K = N + 1)
      BY <1>1, <1>4, <2>4
    <3>4. QED
      BY <1>2, <1>4, <2>4, <3>1, <3>2, <3>3
  <2>5. QED
    BY <2>2, <2>3, <2>4
<1>5. CASE k + 1 # N /\ ~ (k + 1 < K)
  <2>1. K = k + 1 /\ K # N /\ fl[K] # AllLevels
    BY <1>1, <1>3, <1>5
  <2>2. ~ RestMatches(nl, fl, V, N, K, k)
    BY <2>1 DEF RestMatches
  <2>3. QED
    BY <1>2, <1>5, <2>2
<1>6. CASE k + 1 # N /\ k + 1 < K /\ ~ (k + 2 = N /\ nl[N] = NoLevel)
  <2>1. k + 1 < N /\ k \in Nat
    BY <1>1, <1>6
  <2>2. RestMatches(nl, fl, V, N, K, k) <=> RestMatches(nl, fl, V, N, K, k + 1)
    BY <1>1, <1>3, <1>6, <2>1, RestGoesOn
  <2>3. QED
    BY <1>2, <1>6, <2>1, <2>2
<1>7. CASE k + 1 # N /\ k + 1 < K /\ k + 2 = N /\ nl[N] = NoLevel
  <2>1. k + 1 \in 0 .. N - 1 /\ k + 1 + 1 = N /\ N - 1 = k + 1 /\ k + 3 = N + 1 /\ N \in 1 .. N /\ k \in Nat
    BY <1>1, <1>7
  <2>2. k + 1 \in P <=> N = K /\ fl[K] = NoLevel
    <3>1. LevelRule(nl, fl, N, K, P, k + 1)
      BY <1>7, <2>1 DEF LevelRules
    <3>2. QED
      BY <1>7, <2>1, <3>1 DEF LevelRule
  <2>3. k \in P <=> \/ K = N + 1 /\ fl[N] = NoLevel /\ fl[K] = AllLevels
                    \/ K = N /\ fl[K] \in {AnyLevel, AllLevels, NoLevel}
    BY <1>2, <1>7, <2>1, <2>2
  <2>4. MissedLast(nl, fl, N, K, k) <=> K = N + 1 /\ fl[N] = AnyLevel /\ fl[K] = AllLevels
    BY <1>3, <1>7, <2>1 DEF MissedLast
  <2>5. CASE K = N
    <3>1. \A j \in k + 1 .. K : j = k + 1 \/ j = K
      BY <1>1, <1>7, <2>5
    <3>2. ~ MissedLast(nl, fl, N, K, k)
      BY <1>1, <2>4, <2>5
    <3>3. CASE fl[K] = AllLevels
      <4>1. FixedLevels(fl, K) = k + 1 /\ N >= k + 1
        BY <1>1, <1>7, <2>5, <3>3 DEF FixedLevels
      <4>2. \A j \in k + 1 .. k + 1 : j = k + 1
        BY <2>1
      <4>3. RestMatches(nl, fl, V, N, K, k)
        BY <1>1, <1>3, <3>1, <3>2, <3>3, <4>1, <4>2 DEF RestMatches
      <4>4. QED
        BY <2>3, <2>5, <3>3, <4>3
    <3>4. CASE fl[K] \in {AnyLevel, NoLevel}
      <4>1. fl[K] # AllLevels /\ FixedLevels(fl, K) = K
        BY <3>4, LevelsDiffer DEF FixedLevels
      <4>2. K \in V /\ (fl[K] = AnyLevel \/ nl[K] = fl[K])
        BY <1>1, <1>7, <2>5, <3>4
      <4>3. RestMatches(nl, fl, V, N, K, k)
        BY <1>3, <2>5, <3>1, <3>2, <4>1, <4>2 DEF RestMatches
      <4>4. QED
        BY <2>3, <2>5, <3>4, <4>3
    <3>5. CASE fl[K] \notin {AnyLevel, AllLevels, NoLevel}
      <4>1. FixedLevels(fl, K) = K /\ K \in k + 1 .. K
        BY <1>1, <1>7, <3>5 DEF FixedLevels
      <4>2. ~ (fl[K] = AnyLevel \/ nl[K] = fl[K])
        BY <1>7, <2>5, <3>5
      <4>3. ~ RestMatches(nl, fl, V, N, K, k)
        BY <4>1, <4>2 DEF RestMatches
      <4>4. QED
        BY <1>1, <2>3, <2>5, <3>5, <4>3
    <3>6. QED
      BY <3>3, <3>4, <3>5
  <2>6. CASE K = N + 1 /\ fl[K] = AllLevels
    <3>1. FixedLevels(fl, K) = N /\ N >= N
      BY <1>1, <2>6 DEF FixedLevels
    <3>2. \A j \in k + 1 .. K : j = k + 1 \/ j = N \/ j = K
      BY <1>1, <1>7, <2>6
    <3>3. (\A j \in k + 1 .. N : j = k + 1 \/ j = N) /\ N \in k + 1 .. N
      BY <1>1, <1>7
    <3>4. CASE fl[N] = NoLevel
      <4>1. N \in V
        <5>1. N \in 1 .. K
          BY <1>1, <2>6
        <5>2. QED
          BY <1>1, <3>4, <5>1
      <4>2. ~ MissedLast(nl, fl, N, K, k)
        BY <2>4, <3>4, LevelsDiffer
      <4>3. RestMatches(nl, fl, V, N, K, k)
        BY <1>1, <1>3, <1>7, <2>6, <3>1, <3>2, <3>3, <3>4, <4>1, <4>2 DEF RestMatches
      <4>4. QED
        BY <2>3, <2>6, <3>4, <4>3
    <3>5. CASE fl[N] # NoLevel
      <4>1. ~ RestMatches(nl, fl, V, N, K, k)
        BY <1>7, <2>4, <2>6, <3>1, <3>3, <3>5 DEF RestMatches
      <4>2. K # N
        BY <1>1, <2>6
      <4>3. QED
        BY <2>3, <3>5, <4>1, <4>2
    <3>6. QED
      BY <3>4, <3>5
  <2>7. CASE K # N /\ ~ (K = N + 1 /\ fl[K] = AllLevels)
    <3>1. RestMatches(nl, fl, V, N, K, k) => fl[K] = AllLevels /\ N >= K - 1
      BY <2>7 DEF RestMatches, FixedLevels
    <3>2. N >= K - 1 => K = N \/ K = N + 1
      BY <1>1, <1>7
    <3>3. QED
      BY <2>3, <2>7, <3>1, <3>2
  <2>8. QED
    BY <2>5, <2>6, <2>7
<1>8. QED
  BY <1>4, <1>5, <1>6, <1>7

(* From the last level to the first.                                       *)
LEMMA LevelsDecide ==
    ASSUME NEW nl, NEW fl, NEW V, NEW N, NEW K, NEW P, LevelRules(nl, fl, V, N, K, P),
           ~ (N = 1 /\ nl[N] = NoLevel)
    PROVE  0 \in P <=> RestMatches(nl, fl, V, N, K, 0)
<1>1. N \in Nat \ {0} /\ K \in Nat \ {0}
  BY DEF LevelRules
<1> DEFINE T == {k \in Nat : k < N /\ k < K /\ ~ (k + 1 = N /\ nl[N] = NoLevel) =>
                                 (k \in P <=> RestMatches(nl, fl, V, N, K, k))}
<1>2. N \in T
  BY <1>1
<1>3. ASSUME NEW k \in 0 .. N - 1, k + 1 \in T PROVE k \in T
  <2>1. k \in Nat
    BY <1>1
  <2> SUFFICES ASSUME k < K, ~ (k + 1 = N /\ nl[N] = NoLevel)
               PROVE  k \in P <=> RestMatches(nl, fl, V, N, K, k)
    BY <2>1
  <2>2. k + 1 < N /\ k + 1 < K /\ ~ (k + 2 = N /\ nl[N] = NoLevel) =>
            (k + 1 \in P <=> RestMatches(nl, fl, V, N, K, k + 1))
    <3>1. k + 1 + 1 = k + 2
      BY <2>1
    <3>2. QED
      BY <1>3, <3>1
  <2> HIDE DEF T
  <2>3. CASE fl[k + 1] = AnyLevel
    BY <2>2, <2>3, AnyDecides
  <2>4. CASE fl[k + 1] = AllLevels
    BY <2>4, AllDecides
  <2>5. CASE fl[k + 1] = nl[k + 1]
    BY <2>2, <2>5, SameDecides
  <2>6. CASE fl[k + 1] \notin {AnyLevel, AllLevels, nl[k + 1]}
    BY <2>6, NoneDecides
  <2>7. QED
    BY <2>3, <2>4, <2>5, <2>6
<1> HIDE DEF T
<1>4. N \in Nat
  BY <1>1
<1>5. \A k \in 0 .. N : k \in T
  BY <1>2, <1>3, <1>4, Descent
<1>6. 0 \in T
  BY <1>4, <1>5
<1>7. 0 < N /\ 0 < K /\ (0 + 1 = N => N = 1)
  BY <1>1
<1>8. QED
  BY <1>6, <1>7 DEF T

(* The members of a set of numbers up to m, counted from below: rank[n] is *)
(* how many of them there are below n.                                     *)
Ranks(C, m, rank) ==
    /\ m \in Nat /\ C \in SUBSET (0 .. m) /\ rank \in [0 .. m + 1 -> Nat]
    /\ rank[0] = 0
    /\ \A n \in 0 .. m : rank[n + 1] = IF n \in C THEN rank[n] + 1 ELSE rank[n]

(* Counting the members below a number ranks them.                         *)
LEMMA RankIsCount ==
    ASSUME NEW m \in Nat, NEW C \in SUBSET (0 .. m)
    PROVE  /\ IsFiniteSet(C) /\ Cardinality(C) = Cardinality({d \in C : d < m + 1})
           /\ Ranks(C, m, [n \in 0 .. m + 1 |-> Cardinality({d \in C : d < n})])
<1> DEFINE below(n) == {d \in C : d < n}
           T == {n \in Nat : n <= m + 1 => IsFiniteSet(below(n))}
           rank == [n \in 0 .. m + 1 |-> Cardinality({d \in C : d < n})]
<1>1. below(0) = {}
  <2>1. \A d \in C : ~ (d < 0)
    OBVIOUS
  <2>2. QED
    BY <2>1
<1>2. ASSUME NEW n \in Nat PROVE below(n + 1) = IF n \in C THEN below(n) \union {n} ELSE below(n)
  <2>1. \A d \in C : d \in Nat /\ (d < n + 1 <=> d < n \/ d = n)
    OBVIOUS
  <2>2. QED
    BY <2>1
<1>3. \A n \in Nat : n \notin below(n)
  OBVIOUS
<1>4. 0 \in T
  BY <1>1, FS_EmptySet
<1>5. ASSUME NEW n \in Nat, n \in T PROVE n + 1 \in T
  <2>1. n + 1 <= m + 1 => IsFiniteSet(below(n))
    BY <1>5
  <2> HIDE DEF below
  <2>2. n + 1 <= m + 1 => IsFiniteSet(below(n) \union {n})
    BY <2>1, FS_AddElement
  <2>3. n + 1 <= m + 1 => IsFiniteSet(below(n + 1))
    BY <1>2, <2>1, <2>2
  <2>4. QED
    BY <2>3
<1>6. \A n \in Nat : n \in T
  <2> HIDE DEF T
  <2>1. QED
    BY <1>4, <1>5, Induction
<1>7. \A n \in 0 .. m + 1 : IsFiniteSet(below(n))
  BY <1>6
<1>8. \A n \in 0 .. m + 1 : rank[n] = Cardinality(below(n))
  OBVIOUS
<1>9. below(m + 1) = C
  <2>1. \A d \in C : d < m + 1
    OBVIOUS
  <2>2. QED
    BY <2>1
<1> HIDE DEF below, rank, T
<1>10. m + 1 \in 0 .. m + 1 /\ 0 \in 0 .. m + 1
  OBVIOUS
<1>11. IsFiniteSet(C) /\ Cardinality(C) = Cardinality(below(m + 1))
  BY <1>7, <1>9, <1>10
<1>12. \A n \in 0 .. m + 1 : rank[n] \in Nat
  BY <1>7, <1>8, FS_CardinalityType
<1>13. rank[0] = 0
  BY <1>1, <1>8, <1>10, FS_EmptySet
<1>14. ASSUME NEW n \in 0 .. m PROVE rank[n + 1] = IF n \in C THEN rank[n] + 1 ELSE rank[n]
  <2>1. n \in Nat /\ n \in 0 .. m + 1 /\ n + 1 \in 0 .. m + 1
    OBVIOUS
  <2>2. IsFiniteSet(below(n)) /\ n \notin below(n)
    BY <1>3, <1>7, <2>1
  <2>3. Cardinality(below(n) \union {n}) = Cardinality(below(n)) + 1
    BY <2>2, FS_AddElement
  <2>4. QED
    BY <1>2, <1>8, <2>1, <2>3
<1>15. rank \in [0 .. m + 1 -> Nat]
  BY <1>12 DEF rank
<1>16. Ranks(C, m, rank)
  BY <1>13, <1>14, <1>15 DEF Ranks
<1>17. QED
  BY <1>11, <1>16 DEF below, rank

(* A rank never falls, and grows behind a member.                          *)
LEMMA RanksGrow ==
    ASSUME NEW C, NEW m, NEW rank, Ranks(C, m, rank), NEW a \in 0 .. m + 1, NEW b \in 0 .. m + 1
    PROVE  /\ a <= b => rank[a] <= rank[b]
           /\ a < b /\ a \in C => rank[a] < rank[b]
<1>1. /\ m \in Nat /\ \A n \in 0 .. m + 1 : rank[n] \in Nat
      /\ \A n \in 0 .. m : rank[n + 1] = IF n \in C THEN rank[n] + 1 ELSE rank[n]
  BY DEF Ranks
<1> DEFINE Top(n) == \A i \in 0 .. n : rank[i] <= rank[n] /\ (i < n /\ i \in C => rank[i] < rank[n])
           T == {n \in Nat : n <= m + 1 => Top(n)}
<1>2. 0 \in T
  BY <1>1
<1>3. ASSUME NEW n \in Nat, n \in T PROVE n + 1 \in T
  <2> SUFFICES ASSUME n + 1 <= m + 1, NEW i \in 0 .. n + 1
               PROVE  rank[i] <= rank[n + 1] /\ (i < n + 1 /\ i \in C => rank[i] < rank[n + 1])
    OBVIOUS
  <2>1. n \in 0 .. m /\ n \in 0 .. m + 1 /\ n + 1 \in 0 .. m + 1 /\ i \in 0 .. m + 1
    BY <1>1
  <2>2. PICK p \in Nat, q \in Nat, r \in Nat : p = rank[n] /\ q = rank[n + 1] /\ r = rank[i]
    BY <1>1, <2>1
  <2>3. q = IF n \in C THEN p + 1 ELSE p
    BY <1>1, <2>1, <2>2
  <2>4. CASE i = n + 1
    BY <1>1, <2>1, <2>4
  <2>5. CASE i = n
    BY <2>2, <2>3, <2>5
  <2>6. CASE i \in 0 .. n /\ i # n
    <3>1. Top(n)
      <4> HIDE DEF Top
      <4>1. n <= m + 1
        BY <1>1, <2>1
      <4>2. QED
        BY <1>3, <4>1
    <3> HIDE DEF T
    <3>2. i < n
      BY <2>1, <2>6
    <3>3. r <= p /\ (i \in C => r < p)
      BY <2>2, <2>6, <3>1, <3>2
    <3>4. QED
      BY <2>2, <2>3, <2>6, <3>3
  <2>7. QED
    BY <2>4, <2>5, <2>6
<1> HIDE DEF T
<1>4. \A n \in Nat : n \in T
  BY <1>2, <1>3, Induction
<1>5. b \in Nat /\ b <= m + 1 /\ b \in T
  BY <1>1, <1>4
<1>6. a <= b => a \in 0 .. b
  BY <1>1
<1>7. Top(b)
  <2> HIDE DEF Top
  <2>1. QED
    BY <1>5 DEF T
<1>8. a < b => a <= b
  BY <1>1
<1>9. QED
  BY <1>6, <1>7, <1>8

(* Every rank below the last is that of a member.                          *)
LEMMA RanksReached ==
    ASSUME NEW C, NEW m, NEW rank, Ranks(C, m, rank), NEW n \in 0 .. m + 1
    PROVE  \A j \in 0 .. rank[n] - 1 : \E c \in C : c < n /\ rank[c] = j
<1>1. /\ m \in Nat /\ \A i \in 0 .. m + 1 : rank[i] \in Nat
      /\ C \in SUBSET (0 .. m) /\ rank[0] = 0
      /\ \A i \in 0 .. m : rank[i + 1] = IF i \in C THEN rank[i] + 1 ELSE rank[i]
  BY DEF Ranks
<1> DEFINE T == {i \in Nat : i <= m + 1 => \A j \in 0 .. rank[i] - 1 : \E c \in C : c < i /\ rank[c] = j}
<1>2. 0 \in T
  BY <1>1
<1>3. ASSUME NEW i \in Nat, i \in T PROVE i + 1 \in T
  <2> SUFFICES ASSUME i + 1 <= m + 1, NEW j \in 0 .. rank[i + 1] - 1
               PROVE  \E c \in C : c < i + 1 /\ rank[c] = j
    OBVIOUS
  <2>1. i \in 0 .. m /\ i \in 0 .. m + 1 /\ i + 1 \in 0 .. m + 1 /\ i <= m + 1
    BY <1>1
  <2>2. PICK p \in Nat, q \in Nat : p = rank[i] /\ q = rank[i + 1]
    BY <1>1, <2>1
  <2>3. q = IF i \in C THEN p + 1 ELSE p
    BY <1>1, <2>1, <2>2
  <2>4. CASE j \in 0 .. p - 1
    <3>1. PICK c \in C : c < i /\ rank[c] = j
      BY <1>3, <2>1, <2>2, <2>4
    <3>2. c \in Nat
      BY <1>1
    <3>3. c < i + 1
      BY <3>1, <3>2
    <3>4. QED
      BY <3>1, <3>3
  <2>5. CASE ~ (j \in 0 .. p - 1)
    <3>1. i \in C /\ j = p
      BY <2>2, <2>3, <2>5
    <3>2. QED
      BY <2>2, <3>1
  <2>6. QED
    BY <2>4, <2>5
<1> HIDE DEF T
<1>4. \A i \in Nat : i \in T
  BY <1>2, <1>3, Induction
<1>5. n \in Nat /\ n <= m + 1
  BY <1>1
<1>6. n \in T
  BY <1>4, <1>5
<1>7. QED
  BY <1>5, <1>6 DEF T

(* Two members of the same rank are one.                                   *)
LEMMA RankIsUnique ==
    ASSUME NEW C, NEW m, NEW rank, Ranks(C, m, rank), NEW a \in C, NEW b \in C, rank[a] <= rank[b]
    PROVE  a <= b /\ (rank[a] = rank[b] => a = b)
<1>1. a \in 0 .. m + 1 /\ b \in 0 .. m + 1 /\ a \in Nat /\ b \in Nat
  BY DEF Ranks
<1>2. rank[a] \in Nat /\ rank[b] \in Nat
  BY <1>1 DEF Ranks
<1>3. b < a => rank[b] < rank[a]
  BY <1>1, RanksGrow
<1>4. a < b => rank[a] < rank[b]
  BY <1>1, RanksGrow
<1>5. QED
  BY <1>1, <1>2, <1>3, <1>4

(* Levels takes the separators in their order.                             *)
LEMMA LevelsCut ==
    ASSUME NEW s \in Seq(STRING)
    PROVE  \E N, c : Cut(s, N, c) /\ Levels(s) = [k \in 1 .. N |-> SubSeq(s, c[k - 1] + 1, c[k] - 1)]
<1> DEFINE C == {i \in 1 .. Len(s) : s[i] = "/"} \union {0, Len(s) + 1}
           start(k) == CHOOSE e \in C : Cardinality({d \in C : d < e}) = k - 1
<1>1. PICK m \in Nat : m = Len(s) + 1 /\ m >= 1
  <2>1. Len(s) \in Nat
    OBVIOUS
  <2>2. QED
    BY <2>1
<1> DEFINE rank == [n \in 0 .. m + 1 |-> Cardinality({d \in C : d < n})]
<1>2. Levels(s) = [k \in 1 .. Cardinality(C) - 1 |-> SubSeq(s, start(k) + 1, start(k + 1) - 1)]
  BY DEF Levels
<1>3. /\ C \in SUBSET (0 .. m) /\ 0 \in C /\ m \in C
      /\ \A i \in C : i # 0 /\ i # m => s[i] = "/"
      /\ \A i \in 1 .. m - 1 : s[i] = "/" => i \in C
  BY <1>1
<1>4. \A e \in C : e \in 0 .. m + 1
  BY <1>1, <1>3
<1>5. \A e \in C : rank[e] = Cardinality({d \in C : d < e})
  <2> HIDE DEF C
  <2>1. QED
    BY <1>4
<1>6. IsFiniteSet(C) /\ Ranks(C, m, rank) /\ Cardinality(C) = Cardinality({d \in C : d < m + 1})
  <2> HIDE DEF C
  <2>1. QED
    BY <1>3, RankIsCount
<1>7. Cardinality(C) = rank[m + 1]
  <2> HIDE DEF C
  <2>1. m + 1 \in 0 .. m + 1
    BY <1>1
  <2>2. QED
    BY <1>6, <2>1
<1>8. \A k : start(k) = CHOOSE e \in C : rank[e] = k - 1
  <2>1. ASSUME NEW k PROVE start(k) = CHOOSE e \in C : rank[e] = k - 1
    <3>1. \A e \in C : (Cardinality({d \in C : d < e}) = k - 1) <=> (rank[e] = k - 1)
      <4> HIDE DEF C, rank
      <4>1. QED
        BY <1>5
    <3> HIDE DEF C, rank
    <3>2. {e \in C : Cardinality({d \in C : d < e}) = k - 1} = {e \in C : rank[e] = k - 1}
      BY <3>1
    <3>3. start(k) = CHOOSE e : e \in C /\ Cardinality({d \in C : d < e}) = k - 1
      OBVIOUS
    <3>4. QED
      BY <3>1
  <2> HIDE DEF C, rank, start
  <2>2. QED
    BY <2>1
<1> HIDE DEF C, start, rank
<1>9. /\ rank \in [0 .. m + 1 -> Nat] /\ rank[0] = 0 /\ rank[m + 1] = rank[m] + 1
      /\ \A n \in 0 .. m : rank[n + 1] = IF n \in C THEN rank[n] + 1 ELSE rank[n]
  BY <1>1, <1>3, <1>6 DEF Ranks
<1>10. PICK N \in Nat : N = rank[m]
  <2>1. m \in 0 .. m + 1
    BY <1>1
  <2>2. QED
    BY <1>9, <2>1
<1>11. N \in Nat \ {0}
  <2>1. 0 \in 0 .. m + 1 /\ m \in 0 .. m + 1 /\ 0 < m
    BY <1>1
  <2>2. rank[0] < rank[m]
    BY <1>3, <1>6, <2>1, RanksGrow
  <2>3. QED
    BY <1>9, <1>10, <2>2
<1>12. \A j \in 0 .. N : \E e \in C : rank[e] = j
  <2>1. m + 1 \in 0 .. m + 1 /\ rank[m + 1] - 1 = N
    BY <1>1, <1>9, <1>10
  <2>2. \A j \in 0 .. rank[m + 1] - 1 : \E e \in C : e < m + 1 /\ rank[e] = j
    BY <1>6, <2>1, RanksReached
  <2>3. QED
    BY <2>1, <2>2
<1> DEFINE c == [j \in 0 .. N |-> CHOOSE e \in C : rank[e] = j]
<1>13. \A j \in 0 .. N : c[j] \in C /\ rank[c[j]] = j
  BY <1>12
<1>14. \A j \in 0 .. N, e \in C : rank[e] = j => e = c[j]
  <2> HIDE DEF c
  <2>1. ASSUME NEW j \in 0 .. N, NEW e \in C, rank[e] = j PROVE e = c[j]
    <3>1. c[j] \in C /\ rank[c[j]] = rank[e] /\ j <= j
      BY <1>13, <2>1
    <3>2. rank[e] <= rank[c[j]]
      BY <2>1, <3>1
    <3>3. QED
      BY <1>6, <3>1, <3>2, RankIsUnique
  <2>2. QED
    BY <2>1
<1>15. c \in [0 .. N -> 0 .. Len(s) + 1]
  <2>1. \A j \in 0 .. N : c[j] \in 0 .. Len(s) + 1
    BY <1>1, <1>3, <1>13
  <2>2. QED
    BY <2>1
<1>16. \A k \in 1 .. N + 1 : start(k) = c[k - 1]
  BY <1>8
<1> HIDE DEF c
<1>17. c[0] = 0 /\ c[N] = Len(s) + 1
  <2>1. 0 \in 0 .. N /\ N \in 0 .. N
    BY <1>11
  <2>2. QED
    BY <1>1, <1>3, <1>9, <1>10, <1>14, <2>1
<1>18. ASSUME NEW k \in 0 .. N - 1 PROVE c[k] < c[k + 1]
  <2>1. k \in 0 .. N /\ k + 1 \in 0 .. N /\ k \in Nat
    BY <1>11
  <2>2. c[k] \in C /\ c[k + 1] \in C /\ rank[c[k]] = k /\ rank[c[k + 1]] = k + 1
    BY <1>13, <2>1
  <2>3. rank[c[k]] <= rank[c[k + 1]] /\ rank[c[k]] # rank[c[k + 1]]
    BY <2>1, <2>2
  <2>4. c[k] <= c[k + 1] /\ c[k] # c[k + 1]
    <3>1. PICK a \in C, b \in C : a = c[k] /\ b = c[k + 1] /\ rank[a] <= rank[b] /\ rank[a] # rank[b]
      BY <2>2, <2>3
    <3>2. a <= b
      BY <1>6, <3>1, RankIsUnique
    <3>3. QED
      BY <3>1, <3>2
  <2>5. c[k] \in Nat /\ c[k + 1] \in Nat
    <3>1. c[k] \in 0 .. m /\ c[k + 1] \in 0 .. m
      BY <1>3, <2>2
    <3>2. QED
      BY <3>1
  <2>6. QED
    BY <2>4, <2>5
<1>19. ASSUME NEW k \in 1 .. N - 1 PROVE s[c[k]] = "/"
  <2>1. k \in 0 .. N /\ N \in 0 .. N /\ 0 \in 0 .. N /\ k # 0 /\ k # N
    BY <1>11
  <2>2. c[k] \in C /\ rank[c[k]] = k /\ rank[c[N]] = N /\ rank[c[0]] = 0
    BY <1>13, <2>1
  <2>3. c[k] # c[0] /\ c[k] # c[N]
    BY <2>1, <2>2
  <2>4. QED
    BY <1>1, <1>3, <1>17, <2>2, <2>3
<1>20. ASSUME NEW k \in 0 .. N - 1, NEW i \in c[k] + 1 .. c[k + 1] - 1 PROVE s[i] # "/"
  <2> SUFFICES ASSUME s[i] = "/" PROVE FALSE
    OBVIOUS
  <2>1. k \in 0 .. N /\ k + 1 \in 0 .. N /\ k \in Nat
    BY <1>11
  <2>2. c[k] \in C /\ c[k + 1] \in C /\ rank[c[k]] = k /\ rank[c[k + 1]] = k + 1
    BY <1>13, <2>1
  <2>3. c[k] \in 0 .. m /\ c[k + 1] \in 0 .. m
    BY <1>3, <2>2
  <2>4. i \in 1 .. m - 1 /\ c[k] < i /\ i < c[k + 1] /\ i \in 0 .. m + 1
    BY <2>3
  <2>5. i \in C
    BY <1>3, <2>4
  <2>6. c[k] \in 0 .. m + 1 /\ c[k + 1] \in 0 .. m + 1
    BY <1>4, <2>2
  <2>7. rank[c[k]] < rank[i] /\ rank[i] < rank[c[k + 1]]
    BY <1>6, <2>2, <2>4, <2>5, <2>6, RanksGrow
  <2>8. rank[i] \in Nat
    BY <1>9, <2>4
  <2>9. QED
    BY <2>1, <2>2, <2>7, <2>8
<1>21. Cut(s, N, c)
  BY <1>11, <1>15, <1>17, <1>18, <1>19, <1>20 DEF Cut
<1>22. Levels(s) = [k \in 1 .. N |-> SubSeq(s, c[k - 1] + 1, c[k] - 1)]
  <2>1. Cardinality(C) - 1 = N
    BY <1>7, <1>9, <1>10
  <2>2. ASSUME NEW k \in 1 .. N PROVE start(k) = c[k - 1] /\ start(k + 1) = c[k]
    <3>1. k \in 1 .. N + 1 /\ k + 1 \in 1 .. N + 1 /\ k + 1 - 1 = k
      BY <1>11
    <3>2. QED
      BY <1>16, <3>1
  <2>3. QED
    BY <1>2, <2>1, <2>2
<1>23. QED
  BY <1>21, <1>22

(* What a level holds, by its places in the string.                        *)
Holds(s, a, e, l) ==
    /\ l \in Seq(STRING) /\ Len(l) = e - a - 1
    /\ \A i \in 1 .. e - a - 1 : l[i] = s[a + i]

(* Levels takes the characters of a level.                                 *)
LEMMA LevelContents ==
    ASSUME NEW s \in Seq(STRING), NEW N, NEW k, NEW a, NEW e, Level(s, N, k, a, e)
    PROVE  Holds(s, a, e, SubSeq(s, a + 1, e - 1))
<1>1. a \in Nat /\ e \in a + 1 .. Len(s) + 1 /\ Len(s) \in Nat
  BY DEF Level
<1>2. PICK p \in Nat, q \in Nat : p = a + 1 /\ q = e - 1 /\ p >= 1 /\ q <= Len(s) /\ q >= p - 1
  BY <1>1
<1>3. \A i \in p .. q : s[i] \in STRING
  BY <1>2
<1>4. PICK l : l = SubSeq(s, p, q)
  OBVIOUS
<1>5. l \in Seq(STRING) /\ Len(l) = q - p + 1 /\ \A i \in 1 .. q - p + 1 : l[i] = s[p + i - 1]
  BY <1>2, <1>3, <1>4
<1>6. q - p + 1 = e - a - 1 /\ \A i \in 1 .. e - a - 1 : p + i - 1 = a + i
  BY <1>1, <1>2
<1>7. Holds(s, a, e, l)
  BY <1>5, <1>6 DEF Holds
<1>8. QED
  BY <1>2, <1>4, <1>7

(* A level of one character, and one without.                              *)
LEMMA OneCharacter ==
    ASSUME NEW l, l \in Seq(STRING), NEW w
    PROVE  (l = NoLevel <=> Len(l) = 0) /\ (l = <<w>> <=> Len(l) = 1 /\ l[1] = w)
<1>0. l = <<>> <=> Len(l) = 0
  OBVIOUS
<1>1. Len(<<w>>) = 1 /\ <<w>>[1] = w
  OBVIOUS
<1>2. Len(l) = 1 => l = <<l[1]>>
  OBVIOUS
<1>3. QED
  BY <1>0, <1>1, <1>2 DEF NoLevel

(* The wildcards and the empty level, by their places.                     *)
LEMMA ShortLevels ==
    ASSUME NEW s \in Seq(STRING), NEW N, NEW k, NEW a, NEW e, Level(s, N, k, a, e), NEW l,
           Holds(s, a, e, l)
    PROVE  /\ l = NoLevel <=> e = a + 1
           /\ l = AnyLevel <=> e = a + 2 /\ s[a + 1] = "+"
           /\ l = AllLevels <=> e = a + 2 /\ s[a + 1] = "#"
<1>1. a \in Nat /\ e \in Nat
  BY DEF Level
<1>2. l \in Seq(STRING) /\ Len(l) = e - a - 1
  BY DEF Holds
<1>3. l = NoLevel <=> Len(l) = 0
  BY <1>2, OneCharacter
<1>4. ASSUME NEW w PROVE l = <<w>> <=> e = a + 2 /\ s[a + 1] = w
  <2>1. l = <<w>> <=> Len(l) = 1 /\ l[1] = w
    BY <1>2, OneCharacter
  <2>2. Len(l) = 1 <=> e = a + 2
    BY <1>1, <1>2
  <2>3. e = a + 2 => l[1] = s[a + 1]
    <3>1. e = a + 2 => 1 \in 1 .. e - a - 1
      BY <1>1
    <3>2. QED
      BY <3>1 DEF Holds
  <2>4. QED
    BY <2>1, <2>2, <2>3
<1>5. Len(l) = 0 <=> e = a + 1
  BY <1>1, <1>2
<1>6. QED
  BY <1>3, <1>4, <1>5 DEF AnyLevel, AllLevels

(* Two levels that are the same have the same characters.                  *)
LEMMA EqualLevels ==
    ASSUME NEW s, NEW t, NEW N, NEW K, NEW k, NEW j, NEW a, NEW e, NEW b, NEW g,
           Level(s, N, k, a, e), Level(t, K, j, b, g), NEW l, Holds(s, a, e, l), NEW m, Holds(t, b, g, m)
    PROVE  l = m <=> SameLevels(s, t, a, e, b, g)
<1>1. Len(l) = e - a - 1 /\ \A i \in 1 .. e - a - 1 : l[i] = s[a + i]
  BY DEF Holds
<1>2. Len(m) = g - b - 1 /\ \A i \in 1 .. g - b - 1 : m[i] = t[b + i]
  BY DEF Holds
<1>3. a \in Nat /\ e \in Nat /\ b \in Nat /\ g \in Nat
  BY DEF Level
<1>4. ASSUME l = m PROVE SameLevels(s, t, a, e, b, g)
  <2>1. e - a - 1 = g - b - 1
    BY <1>1, <1>2, <1>4
  <2>2. g - b = e - a
    BY <1>3, <2>1
  <2>3. ASSUME NEW i \in 0 .. e - a - 2 PROVE s[a + 1 + i] = t[b + 1 + i]
    <3>1. PICK h \in 1 .. e - a - 1 : h = i + 1 /\ a + h = a + 1 + i /\ b + h = b + 1 + i
      BY <1>3
    <3>2. h \in 1 .. g - b - 1
      BY <2>1
    <3>3. l[h] = s[a + h] /\ m[h] = t[b + h]
      BY <1>1, <1>2, <3>2
    <3>4. QED
      BY <1>4, <3>1, <3>3
  <2>4. QED
    BY <2>2, <2>3 DEF SameLevels
<1>5. ASSUME SameLevels(s, t, a, e, b, g) PROVE l = m
  <2>1. g - b = e - a /\ \A i \in 0 .. e - a - 2 : s[a + 1 + i] = t[b + 1 + i]
    BY <1>5 DEF SameLevels
  <2>2. e - a - 1 = g - b - 1
    BY <1>3, <2>1
  <2>3. Len(l) = Len(m)
    BY <1>1, <1>2, <2>2
  <2>4. ASSUME NEW i \in 1 .. Len(l) PROVE l[i] = m[i]
    <3>1. i \in 1 .. e - a - 1 /\ i \in 1 .. g - b - 1
      BY <1>1, <2>2
    <3>2. PICK h \in 0 .. e - a - 2 : a + 1 + h = a + i /\ b + 1 + h = b + i
      <4>1. i - 1 \in 0 .. e - a - 2 /\ a + 1 + (i - 1) = a + i /\ b + 1 + (i - 1) = b + i
        BY <1>3, <3>1
      <4>2. QED
        BY <4>1
    <3>3. s[a + i] = t[b + i]
      BY <2>1, <3>2
    <3>4. l[i] = s[a + i] /\ m[i] = t[b + i]
      BY <1>1, <1>2, <3>1
    <3>5. QED
      BY <3>3, <3>4
  <2>5. l \in Seq(STRING) /\ m \in Seq(STRING)
    BY DEF Holds
  <2>6. QED
    BY <2>3, <2>4, <2>5, SeqEqual
<1>6. QED
  BY <1>4, <1>5

(* A wildcard that ends the filter behind a separator is its last level.   *)
LEMMA LastLevel ==
    ASSUME NEW s \in Seq(STRING), NEW K, NEW k, NEW g, NEW h, Level(s, K, k, g, h), NEW w \in {"+", "#"}
    PROVE  g = Len(s) - 1 /\ s[g + 1] = w <=> k + 1 = K /\ h = g + 2 /\ s[g + 1] = w
<1>1. PICK y \in Nat : y = Len(s)
  OBVIOUS
<1>2. /\ K \in Nat /\ k \in 0 .. K - 1 /\ g \in 0 .. y /\ h \in g + 1 .. y + 1
      /\ h = y + 1 <=> k = K - 1
      /\ h # y + 1 => s[h] = "/"
  BY <1>1 DEF Level
<1>3. g = y - 1 /\ s[g + 1] = w => h = y + 1
  <2> SUFFICES ASSUME g = y - 1, s[g + 1] = w, h # y + 1 PROVE FALSE
    OBVIOUS
  <2>1. h = g + 1
    BY <1>2
  <2>2. QED
    BY <1>2, <2>1
<1>4. QED
  BY <1>1, <1>2, <1>3

(* A name and a filter with their levels, and where the table says yes.    *)
Table(name, filter, M, N, c, K, d, nl, fl, P) ==
    /\ Text(name, filter) /\ Rules(name, filter, M) /\ Cut(name, N, c) /\ Cut(filter, K, d)
    /\ \A k \in 0 .. N - 1 : Holds(name, c[k], c[k + 1], nl[k + 1])
    /\ \A k \in 0 .. K - 1 : Holds(filter, d[k], d[k + 1], fl[k + 1])
    /\ \A k \in 0 .. N - 1 : k < K => (k \in P <=> M[<<c[k] + 1, d[k] + 1>>])

(* The same at the k + 1st level of both.                                  *)
TableAt(name, filter, M, N, K, nl, fl, P, k, a, e, b, g) ==
    /\ Text(name, filter) /\ Rules(name, filter, M)
    /\ Level(name, N, k, a, e) /\ Level(filter, K, k, b, g)
    /\ Holds(name, a, e, nl[k + 1]) /\ Holds(filter, b, g, fl[k + 1])
    /\ k \in P <=> M[<<a + 1, b + 1>>]

(* The table at each level.                                                *)
LEMMA TableLevel ==
    ASSUME NEW name, NEW filter, NEW M, NEW N, NEW c, NEW K, NEW d, NEW nl, NEW fl, NEW P,
           Table(name, filter, M, N, c, K, d, nl, fl, P), NEW k \in 0 .. N - 1, k < K
    PROVE  TableAt(name, filter, M, N, K, nl, fl, P, k, c[k], c[k + 1], d[k], d[k + 1])
<1>1. Text(name, filter) /\ Rules(name, filter, M) /\ Cut(name, N, c) /\ Cut(filter, K, d)
  BY DEF Table
<1>2. Len(name) \in Nat /\ Len(filter) \in Nat
  BY <1>1 DEF Text
<1>3. k \in 0 .. K - 1
  BY <1>1 DEF Cut
<1>4. Level(name, N, k, c[k], c[k + 1]) /\ Level(filter, K, k, d[k], d[k + 1])
  BY <1>1, <1>2, <1>3, LevelOf
<1>5. Holds(name, c[k], c[k + 1], nl[k + 1]) /\ Holds(filter, d[k], d[k + 1], fl[k + 1])
  BY <1>3 DEF Table
<1>6. k \in P <=> M[<<c[k] + 1, d[k] + 1>>]
  BY DEF Table
<1>7. QED
  BY <1>1, <1>4, <1>5, <1>6 DEF TableAt

(* The name has a character left, unless only an empty level is left.      *)
LEMMA NameLeft ==
    ASSUME NEW name, name \in Seq(STRING), NEW N, NEW k, NEW a, NEW e, Level(name, N, k, a, e),
           NEW nl, Holds(name, a, e, nl[k + 1])
    PROVE  a < Len(name) <=> ~ (k + 1 = N /\ nl[N] = NoLevel)
<1>1. PICK x \in Nat : x = Len(name)
  OBVIOUS
<1>2. /\ N \in Nat /\ k \in 0 .. N - 1 /\ a \in 0 .. x /\ e \in a + 1 .. x + 1
      /\ e = x + 1 <=> k + 1 = N
  BY <1>1 DEF Level
<1>3. nl[k + 1] = NoLevel <=> e = a + 1
  BY ShortLevels
<1>4. k + 1 = N => nl[k + 1] = nl[N]
  OBVIOUS
<1>5. QED
  BY <1>1, <1>2, <1>3, <1>4

(* At the end of the name only the end of the filter matches.              *)
LEMMA EndRule ==
    ASSUME NEW name, NEW filter, NEW M, NEW N, NEW K, NEW nl, NEW fl, NEW P, NEW k, NEW a, NEW e, NEW b, NEW g,
           TableAt(name, filter, M, N, K, nl, fl, P, k, a, e, b, g), k + 1 = N, nl[N] = NoLevel
    PROVE  k \in P <=> k + 1 = K /\ fl[K] = NoLevel
<1>1. name \in Seq(STRING) /\ filter \in Seq(STRING)
  BY DEF TableAt, Text
<1>2. PICK x \in Nat, y \in Nat : x = Len(name) /\ y = Len(filter)
  BY <1>1
<1>3. a \in 0 .. x /\ ~ (a < x)
  <2>1. ~ (a < Len(name))
    BY <1>1, NameLeft DEF TableAt
  <2>2. QED
    BY <1>2, <2>1 DEF TableAt, Level
<1>4. /\ K \in Nat /\ k \in 0 .. K - 1 /\ b \in 0 .. y /\ g \in b + 1 .. y + 1
      /\ g = y + 1 <=> k + 1 = K
  BY <1>2 DEF TableAt, Level
<1>5. a + 1 \in 1 .. Len(name) + 1 /\ b + 1 \in 1 .. Len(filter) + 1 /\ a + 1 > Len(name)
  BY <1>2, <1>3, <1>4
<1>6. M[<<a + 1, b + 1>>] <=> b + 1 > Len(filter)
  BY <1>5 DEF TableAt, Rules
<1>7. fl[k + 1] = NoLevel <=> g = b + 1
  BY <1>1, ShortLevels DEF TableAt
<1>8. k + 1 = K => fl[k + 1] = fl[K]
  OBVIOUS
<1>9. b + 1 > y <=> k + 1 = K /\ g = b + 1
  BY <1>4
<1>10. k \in P <=> M[<<a + 1, b + 1>>]
  BY DEF TableAt
<1>11. QED
  BY <1>2, <1>6, <1>7, <1>8, <1>9, <1>10

(* Where both go on with the characters /, the next levels decide, or the  *)
(* name ends here and the filter has a wildcard behind it.                 *)
LEMMA CrossSeparators ==
    ASSUME NEW name, NEW filter, NEW M, NEW N, NEW K, NEW nl, NEW fl, NEW P, NEW k, NEW a, NEW e, NEW b, NEW g,
           TableAt(name, filter, M, N, K, nl, fl, P, k, a, e, b, g),
           NEW e2, NEW g2,
           k + 1 < N /\ k + 1 < K =>
               TableAt(name, filter, M, N, K, nl, fl, P, k + 1, e, e2, g, g2)
    PROVE  M[<<e, g>>] <=>
               IF k + 1 = N THEN k + 1 = K
               ELSE /\ k + 1 < K
                    /\ \/ k + 1 \in P
                       \/ k + 2 = N /\ nl[N] = NoLevel /\ MatchEndWildcards(filter, g)
<1>1. name \in Seq(STRING) /\ filter \in Seq(STRING)
  BY DEF TableAt, Text
<1>2. PICK x \in Nat, y \in Nat : x = Len(name) /\ y = Len(filter)
  BY <1>1
<1>3. /\ N \in Nat /\ k \in 0 .. N - 1 /\ a \in 0 .. x /\ e \in a + 1 .. x + 1
      /\ e = x + 1 <=> k + 1 = N
      /\ e # x + 1 => name[e] = "/"
  BY <1>2 DEF TableAt, Level
<1>4. /\ K \in Nat /\ k \in 0 .. K - 1 /\ b \in 0 .. y /\ g \in b + 1 .. y + 1
      /\ g = y + 1 <=> k + 1 = K
      /\ g # y + 1 => filter[g] = "/"
  BY <1>2 DEF TableAt, Level
<1>5. e \in 1 .. Len(name) + 1 /\ g \in 1 .. Len(filter) + 1
  BY <1>2, <1>3, <1>4
<1>6. CASE e = x + 1 \/ g = y + 1
  <2>1. M[<<e, g>>] <=> e > Len(name) /\ g > Len(filter)
    BY <1>2, <1>5, <1>6 DEF TableAt, Rules
  <2>2. (e > x <=> k + 1 = N) /\ (g > y <=> k + 1 = K) /\ (k + 1 < K <=> k + 1 # K)
    BY <1>3, <1>4
  <2>3. QED
    BY <1>2, <1>3, <1>4, <1>6, <2>1, <2>2
<1>7. CASE ~ (e = x + 1 \/ g = y + 1)
  <2>1. k + 1 < N /\ k + 1 < K /\ k + 1 # N
    BY <1>3, <1>4, <1>7
  <2>2. e \in 1 .. Len(name) /\ g \in 1 .. Len(filter) /\ name[e] = filter[g]
    BY <1>2, <1>3, <1>4, <1>7
  <2>3. M[<<e, g>>] <=> (e = Len(name) /\ MatchEndWildcards(filter, g)) \/ M[<<e + 1, g + 1>>]
    BY <2>2 DEF TableAt, Rules
  <2>4. TableAt(name, filter, M, N, K, nl, fl, P, k + 1, e, e2, g, g2)
    BY <2>1
  <2>5. k + 1 \in P <=> M[<<e + 1, g + 1>>]
    BY <2>4 DEF TableAt
  <2>6. e < Len(name) <=> ~ (k + 1 + 1 = N /\ nl[N] = NoLevel)
    BY <1>1, <2>4, NameLeft DEF TableAt
  <2>7. e < Len(name) <=> e # Len(name)
    BY <1>2, <1>3, <1>7
  <2>8. k + 1 + 1 = N <=> k + 2 = N
    BY <1>3
  <2>9. QED
    BY <2>1, <2>3, <2>5, <2>6, <2>7, <2>8
<1>8. QED
  BY <1>6, <1>7

(* A last level that is a wildcard, by its place.                          *)
LEMMA WildcardLast ==
    ASSUME NEW s, s \in Seq(STRING), NEW K, NEW k, NEW g, NEW h, Level(s, K, k, g, h), NEW fl,
           Holds(s, g, h, fl[k + 1])
    PROVE  /\ g = Len(s) - 1 /\ s[g + 1] = "+" <=> k + 1 = K /\ fl[K] = AnyLevel
           /\ g = Len(s) - 1 /\ s[g + 1] = "#" <=> k + 1 = K /\ fl[K] = AllLevels
<1>1. g = Len(s) - 1 /\ s[g + 1] = "+" <=> k + 1 = K /\ h = g + 2 /\ s[g + 1] = "+"
  BY LastLevel
<1>2. g = Len(s) - 1 /\ s[g + 1] = "#" <=> k + 1 = K /\ h = g + 2 /\ s[g + 1] = "#"
  BY LastLevel
<1>3. /\ fl[k + 1] = AnyLevel <=> h = g + 2 /\ s[g + 1] = "+"
      /\ fl[k + 1] = AllLevels <=> h = g + 2 /\ s[g + 1] = "#"
  BY ShortLevels
<1>4. k + 1 = K => fl[k + 1] = fl[K]
  OBVIOUS
<1>5. QED
  BY <1>1, <1>2, <1>3, <1>4

(* What matchEndWildcardsSpecialCases looks for behind a level, by levels. *)
FilterAhead(s, K, k, g, h, i, fl) ==
    /\ Level(s, K, k, g, h) /\ Holds(s, g, h, fl[k + 1])
    /\ k + 1 < K => Level(s, K, k + 1, h, i) /\ Holds(s, h, i, fl[k + 1 + 1])

(* It finds a last wildcard, behind the separator or behind an empty       *)
(* level.                                                                  *)
LEMMA EndWildcards ==
    ASSUME NEW s, s \in Seq(STRING), NEW K, NEW k, NEW g, NEW h, NEW i, NEW fl,
           FilterAhead(s, K, k, g, h, i, fl), s[g] = "/"
    PROVE  MatchEndWildcards(s, g) <=>
               \/ k + 2 = K /\ fl[k + 1] = NoLevel /\ fl[K] = AllLevels
               \/ k + 1 = K /\ fl[K] \in {AnyLevel, AllLevels}
<1>1. PICK y \in Nat : y = Len(s)
  OBVIOUS
<1>2. /\ K \in Nat /\ k \in 0 .. K - 1 /\ g \in 0 .. y /\ h \in g + 1 .. y + 1
      /\ h = y + 1 <=> k + 1 = K
      /\ h # y + 1 => s[h] = "/"
      /\ \A j \in g + 1 .. h - 1 : s[j] # "/"
  BY <1>1 DEF FilterAhead, Level
<1>3. g = y - 1 /\ s[g + 1] \in {"+", "#"} <=> k + 1 = K /\ fl[K] \in {AnyLevel, AllLevels}
  <2>1. /\ g = Len(s) - 1 /\ s[g + 1] = "+" <=> k + 1 = K /\ fl[K] = AnyLevel
        /\ g = Len(s) - 1 /\ s[g + 1] = "#" <=> k + 1 = K /\ fl[K] = AllLevels
    BY WildcardLast DEF FilterAhead
  <2>2. QED
    BY <1>1, <2>1
<1>4. fl[k + 1] = NoLevel <=> h = g + 1
  BY ShortLevels DEF FilterAhead
<1>5. g = y - 2 /\ s[g + 1] = "/" /\ s[g + 2] = "#" <=> h = g + 1 /\ h = y - 1 /\ s[h + 1] = "#"
  <2>1. s[g + 1] = "/" => ~ (g + 1 \in g + 1 .. h - 1)
    BY <1>2
  <2>2. g + 1 \notin g + 1 .. h - 1 => h = g + 1
    BY <1>2
  <2>3. h = g + 1 /\ h = y - 1 => s[g + 1] = "/"
    BY <1>2
  <2>4. h = g + 1 => h + 1 = g + 2 /\ (h = y - 1 <=> g = y - 2)
    BY <1>2
  <2>5. QED
    BY <2>1, <2>2, <2>3, <2>4
<1>6. h = y - 1 /\ s[h + 1] = "#" <=> k + 2 = K /\ fl[K] = AllLevels
  <2>1. CASE k + 1 < K
    <3>1. Level(s, K, k + 1, h, i) /\ Holds(s, h, i, fl[k + 1 + 1])
      BY <2>1 DEF FilterAhead
    <3>2. h = Len(s) - 1 /\ s[h + 1] = "#" <=> k + 1 + 1 = K /\ fl[K] = AllLevels
      BY <3>1, WildcardLast
    <3>3. k + 1 + 1 = k + 2
      BY <1>2
    <3>4. QED
      BY <1>1, <3>2, <3>3
  <2>2. CASE ~ (k + 1 < K)
    BY <1>2, <2>2
  <2>3. QED
    BY <2>1, <2>2
<1>7. MatchEndWildcards(s, g) <=>
          \/ g = y - 2 /\ s[g + 1] = "/" /\ s[g + 2] = "#"
          \/ g = y - 1 /\ s[g + 1] \in {"+", "#"}
  BY <1>1 DEF MatchEndWildcards
<1>8. QED
  BY <1>3, <1>4, <1>5, <1>6, <1>7

(* The two wildcards, and a level that is neither one nor the name's.      *)
LEMMA WildcardRules ==
    ASSUME NEW name, NEW filter, NEW M, NEW N, NEW K, NEW nl, NEW fl, NEW P, NEW k, NEW a, NEW e, NEW b, NEW g,
           TableAt(name, filter, M, N, K, nl, fl, P, k, a, e, b, g), ~ (k + 1 = N /\ nl[N] = NoLevel),
           NEW e2, NEW g2,
           k + 1 < N /\ k + 1 < K => TableAt(name, filter, M, N, K, nl, fl, P, k + 1, e, e2, g, g2)
    PROVE  /\ fl[k + 1] = AnyLevel =>
                 (k \in P <=> IF k + 1 = N THEN k + 1 = K ELSE k + 1 < K /\ k + 1 \in P)
           /\ fl[k + 1] = AllLevels => (k \in P <=> k + 1 = K)
           /\ fl[k + 1] \notin {AnyLevel, AllLevels, nl[k + 1]} => k \notin P
<1>1. name \in Seq(STRING) /\ filter \in Seq(STRING)
  BY DEF TableAt, Text
<1>2. a < Len(name)
  BY <1>1, NameLeft DEF TableAt
<1>3. BothLevels(name, filter, M, N, K, k, a, e, b, g)
  BY <1>2 DEF TableAt, BothLevels
<1>4. k \in P <=> M[<<a + 1, b + 1>>]
  BY DEF TableAt
<1>5. /\ fl[k + 1] = AnyLevel <=> g = b + 2 /\ filter[b + 1] = "+"
      /\ fl[k + 1] = AllLevels <=> g = b + 2 /\ filter[b + 1] = "#"
  BY <1>1, ShortLevels DEF TableAt
<1>6. fl[k + 1] = nl[k + 1] <=> SameLevels(name, filter, a, e, b, g)
  BY EqualLevels DEF TableAt
<1>7. ASSUME fl[k + 1] = AnyLevel
      PROVE  k \in P <=> IF k + 1 = N THEN k + 1 = K ELSE k + 1 < K /\ k + 1 \in P
  <2>1. M[<<a + 1, b + 1>>] <=> IF k + 1 = N THEN k + 1 = K ELSE k + 1 < K /\ M[<<e + 1, g + 1>>]
    BY <1>3, <1>5, <1>7, PlusLevel
  <2>2. k + 1 # N => k + 1 < N
    BY DEF TableAt, Level
  <2>3. k + 1 < N /\ k + 1 < K => (k + 1 \in P <=> M[<<e + 1, g + 1>>])
    BY DEF TableAt
  <2>4. QED
    BY <1>4, <2>1, <2>2, <2>3
<1>8. ASSUME fl[k + 1] = AllLevels PROVE k \in P <=> k + 1 = K
  <2>1. g = b + 2 /\ filter[b + 1] = "#"
    BY <1>5, <1>8
  <2>2. M[<<a + 1, b + 1>>] <=> k + 1 = K
    BY <1>3, <2>1, HashLevel
  <2>3. QED
    BY <1>4, <2>2
<1>9. ASSUME fl[k + 1] \notin {AnyLevel, AllLevels, nl[k + 1]} PROVE k \notin P
  <2>1. ~ SameLevels(name, filter, a, e, b, g) /\ ~ (g = b + 2 /\ filter[b + 1] \in {"+", "#"})
    BY <1>5, <1>6, <1>9
  <2>2. ~ M[<<a + 1, b + 1>>]
    BY <1>3, <2>1, DifferentLevel
  <2>3. QED
    BY <1>4, <2>2
<1>10. QED
  BY <1>7, <1>8, <1>9

(* The same, where the two levels are equal.                               *)
LEMMA SameRule ==
    ASSUME NEW name, NEW filter, NEW M, NEW N, NEW K, NEW nl, NEW fl, NEW P, NEW k, NEW a, NEW e, NEW b, NEW g,
           TableAt(name, filter, M, N, K, nl, fl, P, k, a, e, b, g), ~ (k + 1 = N /\ nl[N] = NoLevel),
           NEW e2, NEW g2,
           k + 1 < N /\ k + 1 < K => TableAt(name, filter, M, N, K, nl, fl, P, k + 1, e, e2, g, g2),
           NEW g3, k + 1 < K => FilterAhead(filter, K, k + 1, g, g2, g3, fl), fl[k + 1] = nl[k + 1]
    PROVE  k \in P <=>
               IF k + 1 = N THEN k + 1 = K \/ (k + 2 = K /\ fl[K] = AllLevels)
               ELSE /\ k + 1 < K
                    /\ \/ k + 1 \in P
                       \/ /\ k + 2 = N /\ nl[N] = NoLevel
                          /\ \/ k + 3 = K /\ fl[k + 2] = NoLevel /\ fl[K] = AllLevels
                             \/ k + 2 = K /\ fl[K] \in {AnyLevel, AllLevels}
<1>1. name \in Seq(STRING) /\ filter \in Seq(STRING)
  BY DEF TableAt, Text
<1>2. a < Len(name)
  BY <1>1, NameLeft DEF TableAt
<1>3. BothLevels(name, filter, M, N, K, k, a, e, b, g)
  BY <1>2 DEF TableAt, BothLevels
<1>4. k \in P <=> M[<<a + 1, b + 1>>]
  BY DEF TableAt
<1>5. SameLevels(name, filter, a, e, b, g)
  BY EqualLevels DEF TableAt
<1>6. PICK y \in Nat : y = Len(filter)
  BY <1>1
<1>7. /\ K \in Nat /\ k \in 0 .. K - 1 /\ b \in 0 .. y /\ g \in b + 1 .. y + 1
      /\ g = y + 1 <=> k + 1 = K
      /\ g # y + 1 => filter[g] = "/"
  BY <1>6 DEF TableAt, Level
<1>8. k + 1 + 1 = k + 2 /\ k + 1 + 2 = k + 3 /\ (k + 1 < K <=> k + 1 # K)
  BY <1>7
<1>9. M[<<a + 1, b + 1>>] <=>
          \/ k + 1 = N /\ g = Len(filter) - 1 /\ filter[g] = "/" /\ filter[g + 1] = "#"
          \/ M[<<e, g>>]
  BY <1>3, <1>5, SameLevel
<1>10. M[<<e, g>>] <=>
           IF k + 1 = N THEN k + 1 = K
           ELSE /\ k + 1 < K
                /\ k + 1 \in P \/ (k + 2 = N /\ nl[N] = NoLevel /\ MatchEndWildcards(filter, g))
  BY CrossSeparators
<1>11. g = Len(filter) - 1 /\ filter[g] = "/" /\ filter[g + 1] = "#" <=> k + 2 = K /\ fl[K] = AllLevels
  <2>1. CASE k + 1 < K
    <3>1. Level(filter, K, k + 1, g, g2) /\ Holds(filter, g, g2, fl[k + 1 + 1])
      BY <2>1 DEF FilterAhead
    <3>2. g = Len(filter) - 1 /\ filter[g + 1] = "#" <=> k + 1 + 1 = K /\ fl[K] = AllLevels
      BY <1>1, <3>1, WildcardLast
    <3>3. filter[g] = "/"
      BY <1>7, <2>1
    <3>4. QED
      BY <1>8, <3>2, <3>3
  <2>2. CASE ~ (k + 1 < K)
    BY <1>6, <1>7, <2>2
  <2>3. QED
    BY <2>1, <2>2
<1>12. k + 1 < K =>
           (MatchEndWildcards(filter, g) <=>
                \/ k + 3 = K /\ fl[k + 2] = NoLevel /\ fl[K] = AllLevels
                \/ k + 2 = K /\ fl[K] \in {AnyLevel, AllLevels})
  <2> SUFFICES ASSUME k + 1 < K
               PROVE  MatchEndWildcards(filter, g) <=>
                          \/ k + 3 = K /\ fl[k + 2] = NoLevel /\ fl[K] = AllLevels
                          \/ k + 2 = K /\ fl[K] \in {AnyLevel, AllLevels}
    OBVIOUS
  <2>1. filter[g] = "/"
    BY <1>7
  <2>2. MatchEndWildcards(filter, g) <=>
            \/ k + 1 + 2 = K /\ fl[k + 1 + 1] = NoLevel /\ fl[K] = AllLevels
            \/ k + 1 + 1 = K /\ fl[K] \in {AnyLevel, AllLevels}
    BY <1>1, <2>1, EndWildcards
  <2>3. QED
    BY <1>8, <2>2
<1>13. QED
  BY <1>4, <1>9, <1>10, <1>11, <1>12

(* The levels of a filter that are valid as ValidFilter has it.            *)
ValidLevels(fl, K) ==
    {j \in 1 .. K : \A i \in DOMAIN fl[j] : /\ fl[j][i] \in {"+", "#"} => Len(fl[j]) = 1
                                            /\ fl[j][i] = "#" => j = K}

(* No level of a name is a wildcard, and which ones of a filter are valid. *)
LEMMA LevelsValid ==
    ASSUME NEW name, NEW filter, NEW M, NEW N, NEW c, NEW K, NEW d, NEW nl, NEW fl, NEW P,
           Table(name, filter, M, N, c, K, d, nl, fl, P)
    PROVE  /\ \A j \in 1 .. N : nl[j] \notin {AnyLevel, AllLevels}
           /\ \A j \in 1 .. K : /\ fl[j] \in {AnyLevel, NoLevel} => j \in ValidLevels(fl, K)
                                /\ fl[j] = AllLevels => (j \in ValidLevels(fl, K) <=> j = K)
                                /\ \A i \in 1 .. N : fl[j] = nl[i] => j \in ValidLevels(fl, K)
<1>1. /\ Text(name, filter) /\ Cut(name, N, c) /\ Cut(filter, K, d)
      /\ \A k \in 0 .. N - 1 : Holds(name, c[k], c[k + 1], nl[k + 1])
  BY DEF Table
<1>2. /\ name \in Seq(STRING) /\ Len(name) \in Nat
      /\ \A i \in 1 .. Len(name) : name[i] \notin {"+", "#"}
  BY <1>1 DEF Text
<1>3. ASSUME NEW j \in 1 .. N
      PROVE  /\ nl[j] \in Seq(STRING)
             /\ \A i \in 1 .. Len(nl[j]) : nl[j][i] \notin {"+", "#"}
  <2>1. PICK k \in 0 .. N - 1 : k + 1 = j
    <3>1. j - 1 \in 0 .. N - 1 /\ (j - 1) + 1 = j
      BY <1>1 DEF Cut
    <3>2. QED
      BY <3>1
  <2>2. PICK a, e : a = c[k] /\ e = c[k + 1]
    OBVIOUS
  <2>3. Level(name, N, k, a, e)
    BY <1>1, <1>2, <2>2, LevelOf
  <2>4. Holds(name, a, e, nl[j])
    BY <1>1, <2>1, <2>2
  <2>5. a \in 0 .. Len(name) /\ e \in a + 1 .. Len(name) + 1
    BY <2>3 DEF Level
  <2>6. /\ nl[j] \in Seq(STRING) /\ Len(nl[j]) = e - a - 1
        /\ \A i \in 1 .. e - a - 1 : nl[j][i] = name[a + i]
    BY <2>4 DEF Holds
  <2>7. \A i \in 1 .. e - a - 1 : a + i \in 1 .. Len(name)
    BY <1>2, <2>5
  <2>8. QED
    BY <1>2, <2>6, <2>7
<1>4. /\ Len(AnyLevel) = 1 /\ AnyLevel[1] = "+" /\ DOMAIN AnyLevel = {1}
      /\ Len(AllLevels) = 1 /\ AllLevels[1] = "#" /\ DOMAIN AllLevels = {1}
      /\ DOMAIN NoLevel = {}
  BY DEF AnyLevel, AllLevels, NoLevel
<1>5. ASSUME NEW j \in 1 .. N PROVE nl[j] \notin {AnyLevel, AllLevels}
  <2>1. 1 \in 1 .. 1
    OBVIOUS
  <2>2. QED
    BY <1>3, <1>4, <2>1
<1>6. ASSUME NEW j \in 1 .. K, fl[j] = AnyLevel PROVE j \in ValidLevels(fl, K)
  BY <1>4, <1>6 DEF ValidLevels
<1>7. ASSUME NEW j \in 1 .. K, fl[j] = NoLevel PROVE j \in ValidLevels(fl, K)
  BY <1>4, <1>7 DEF ValidLevels
<1>8. ASSUME NEW j \in 1 .. K, fl[j] = AllLevels PROVE j \in ValidLevels(fl, K) <=> j = K
  BY <1>4, <1>8 DEF ValidLevels
<1>9. ASSUME NEW j \in 1 .. K, NEW i \in 1 .. N, fl[j] = nl[i] PROVE j \in ValidLevels(fl, K)
  <2>1. DOMAIN nl[i] = 1 .. Len(nl[i])
    BY <1>3
  <2>2. \A p \in DOMAIN nl[i] : nl[i][p] \notin {"+", "#"}
    BY <1>3, <2>1
  <2>3. QED
    BY <1>9, <2>2 DEF ValidLevels
<1>10. QED
  BY <1>5, <1>6, <1>7, <1>8, <1>9

(* The table follows the rules for levels.                                 *)
LEMMA TableRules ==
    ASSUME NEW name, NEW filter, NEW M, NEW N, NEW c, NEW K, NEW d, NEW nl, NEW fl, NEW P,
           Table(name, filter, M, N, c, K, d, nl, fl, P)
    PROVE  LevelRules(nl, fl, ValidLevels(fl, K), N, K, P)
<1>1. N \in Nat \ {0} /\ K \in Nat \ {0} /\ filter \in Seq(STRING) /\ Len(filter) \in Nat /\ Cut(filter, K, d)
  BY DEF Table, Cut, Text
<1>2. ASSUME NEW k \in 0 .. N - 1, k < K PROVE LevelRule(nl, fl, N, K, P, k)
  <2>1. PICK a, e, b, g : a = c[k] /\ e = c[k + 1] /\ b = d[k] /\ g = d[k + 1]
    OBVIOUS
  <2>2. PICK e2, g2, g3 : e2 = c[k + 1 + 1] /\ g2 = d[k + 1 + 1] /\ g3 = d[k + 1 + 1 + 1]
    OBVIOUS
  <2>3. TableAt(name, filter, M, N, K, nl, fl, P, k, a, e, b, g)
    BY <1>2, <2>1, TableLevel
  <2>4. k + 1 < N /\ k + 1 < K => TableAt(name, filter, M, N, K, nl, fl, P, k + 1, e, e2, g, g2)
    <3>1. k + 1 < N => k + 1 \in 0 .. N - 1
      BY <1>1
    <3>2. QED
      BY <2>1, <2>2, <3>1, TableLevel
  <2>5. k + 1 < K => FilterAhead(filter, K, k + 1, g, g2, g3, fl)
    <3>1. ASSUME NEW j \in 0 .. K - 1
          PROVE  Level(filter, K, j, d[j], d[j + 1]) /\ Holds(filter, d[j], d[j + 1], fl[j + 1])
      BY <1>1, LevelOf DEF Table
    <3>2. (k + 1 < K => k + 1 \in 0 .. K - 1) /\ (k + 1 + 1 < K => k + 1 + 1 \in 0 .. K - 1)
      BY <1>1
    <3>3. k + 1 < K => Level(filter, K, k + 1, g, g2) /\ Holds(filter, g, g2, fl[k + 1 + 1])
      BY <2>1, <2>2, <3>1, <3>2
    <3>4. k + 1 + 1 < K => Level(filter, K, k + 1 + 1, g2, g3) /\ Holds(filter, g2, g3, fl[k + 1 + 1 + 1])
      BY <2>2, <3>1, <3>2
    <3>5. QED
      BY <3>3, <3>4 DEF FilterAhead
  <2>6. k + 1 = N /\ nl[N] = NoLevel => (k \in P <=> k + 1 = K /\ fl[K] = NoLevel)
    BY <2>3, EndRule
  <2>7. ASSUME ~ (k + 1 = N /\ nl[N] = NoLevel)
        PROVE  /\ fl[k + 1] = AnyLevel =>
                     (k \in P <=> IF k + 1 = N THEN k + 1 = K ELSE k + 1 < K /\ k + 1 \in P)
               /\ fl[k + 1] = AllLevels => (k \in P <=> k + 1 = K)
               /\ fl[k + 1] \notin {AnyLevel, AllLevels, nl[k + 1]} => k \notin P
    BY <2>3, <2>4, <2>7, WildcardRules
  <2>8. ASSUME ~ (k + 1 = N /\ nl[N] = NoLevel), fl[k + 1] = nl[k + 1]
        PROVE  k \in P <=>
                   IF k + 1 = N THEN k + 1 = K \/ (k + 2 = K /\ fl[K] = AllLevels)
                   ELSE /\ k + 1 < K
                        /\ \/ k + 1 \in P
                           \/ /\ k + 2 = N /\ nl[N] = NoLevel
                              /\ \/ k + 3 = K /\ fl[k + 2] = NoLevel /\ fl[K] = AllLevels
                                 \/ k + 2 = K /\ fl[K] \in {AnyLevel, AllLevels}
    BY <2>3, <2>4, <2>5, <2>8, SameRule
  <2>9. QED
    BY <2>6, <2>7, <2>8 DEF LevelRule
<1>3. QED
  BY <1>1, <1>2, LevelsValid DEF LevelRules

(* The two loops decide as the levels do, those that are missed left out.  *)
LEMMA LoopsDecide ==
    ASSUME NEW name \in TopicName, NEW filter \in TopicFilter
    PROVE  \E N \in Nat \ {0}, K \in Nat \ {0} :
              LET nl == Levels(name)
                  fl == Levels(filter)
              IN  /\ nl \in [1 .. N -> Seq(STRING)] /\ fl \in [1 .. K -> Seq(STRING)]
                  /\ Len(nl) = N /\ Len(fl) = K
                  /\ \A j \in 1 .. N : nl[j] \notin {AnyLevel, AllLevels}
                  /\ \A j \in 1 .. K, i \in 1 .. N : fl[j] = nl[i] => j \in ValidLevels(fl, K)
                  /\ ~ (N = 1 /\ nl[N] = NoLevel)
                  /\ MatchTopicFilter(name, filter) <=> RestMatches(nl, fl, ValidLevels(fl, K), N, K, 0)
<1>1. /\ name \in Seq(STRING) /\ filter \in Seq(STRING) /\ name # <<>>
      /\ \A i \in DOMAIN name : name[i] \notin {"+", "#"}
  BY DEF TopicName, TopicFilter
<1>2. Len(name) \in Nat /\ Len(filter) \in Nat /\ Len(name) > 0 /\ DOMAIN name = 1 .. Len(name)
  BY <1>1
<1>3. Text(name, filter)
  BY <1>1, <1>2 DEF Text
<1>4. PICK M : MatchTopicFilter(name, filter) = M[<<1, 1>>] /\ Rules(name, filter, M)
  BY <1>3, MatchRules
<1>5. PICK N, c : Cut(name, N, c) /\ Levels(name) = [k \in 1 .. N |-> SubSeq(name, c[k - 1] + 1, c[k] - 1)]
  BY <1>1, LevelsCut
<1>6. PICK K, d : Cut(filter, K, d) /\ Levels(filter) = [k \in 1 .. K |-> SubSeq(filter, d[k - 1] + 1, d[k] - 1)]
  BY <1>1, LevelsCut
<1>7. PICK nl, fl : nl = Levels(name) /\ fl = Levels(filter)
  OBVIOUS
<1>8. N \in Nat \ {0} /\ K \in Nat \ {0} /\ c[0] = 0 /\ d[0] = 0
  BY <1>5, <1>6 DEF Cut
<1>9. ASSUME NEW k \in 0 .. N - 1 PROVE Holds(name, c[k], c[k + 1], nl[k + 1])
  <2>1. k + 1 \in 1 .. N /\ (k + 1) - 1 = k
    BY <1>8
  <2>2. nl[k + 1] = SubSeq(name, c[k] + 1, c[k + 1] - 1)
    BY <1>5, <1>7, <2>1
  <2>3. Level(name, N, k, c[k], c[k + 1])
    BY <1>2, <1>5, LevelOf
  <2>4. QED
    BY <1>1, <2>2, <2>3, LevelContents
<1>10. ASSUME NEW k \in 0 .. K - 1 PROVE Holds(filter, d[k], d[k + 1], fl[k + 1])
  <2>1. k + 1 \in 1 .. K /\ (k + 1) - 1 = k
    BY <1>8
  <2>2. fl[k + 1] = SubSeq(filter, d[k] + 1, d[k + 1] - 1)
    BY <1>6, <1>7, <2>1
  <2>3. Level(filter, K, k, d[k], d[k + 1])
    BY <1>2, <1>6, LevelOf
  <2>4. QED
    BY <1>1, <2>2, <2>3, LevelContents
<1>11. PICK P : P = {k \in 0 .. N - 1 : k < K /\ M[<<c[k] + 1, d[k] + 1>>]}
  OBVIOUS
<1>12. Table(name, filter, M, N, c, K, d, nl, fl, P)
  <2>1. \A k \in 0 .. N - 1 : k < K => (k \in P <=> M[<<c[k] + 1, d[k] + 1>>])
    BY <1>11
  <2>2. QED
    BY <1>3, <1>4, <1>5, <1>6, <1>9, <1>10, <2>1 DEF Table
<1>13. /\ \A j \in 1 .. N : nl[j] \notin {AnyLevel, AllLevels}
       /\ \A j \in 1 .. K, i \in 1 .. N : fl[j] = nl[i] => j \in ValidLevels(fl, K)
  BY <1>12, LevelsValid
<1>14. ~ (N = 1 /\ nl[N] = NoLevel)
  <2>1. 0 \in 0 .. N - 1 /\ 0 + 1 = 1
    BY <1>8
  <2>2. PICK e : e = c[0 + 1]
    OBVIOUS
  <2>3. Level(name, N, 0, 0, e)
    BY <1>2, <1>5, <1>8, <2>1, <2>2, LevelOf
  <2>4. Holds(name, 0, e, nl[0 + 1])
    BY <1>8, <1>9, <2>1, <2>2
  <2>5. 0 < Len(name) <=> ~ (0 + 1 = N /\ nl[N] = NoLevel)
    BY <1>1, <2>3, <2>4, NameLeft
  <2>6. QED
    BY <1>2, <2>1, <2>5
<1>15. 0 \in P <=> RestMatches(nl, fl, ValidLevels(fl, K), N, K, 0)
  BY <1>12, <1>14, TableRules, LevelsDecide
<1>16. 0 \in P <=> MatchTopicFilter(name, filter)
  <2>1. 0 \in 0 .. N - 1 /\ 0 < K /\ c[0] + 1 = 1 /\ d[0] + 1 = 1
    BY <1>8
  <2>2. 0 \in P <=> M[<<1, 1>>]
    BY <1>11, <2>1
  <2>3. QED
    BY <1>4, <2>2
<1>17. nl \in [1 .. N -> Seq(STRING)] /\ Len(nl) = N
  <2>1. ASSUME NEW j \in 1 .. N PROVE nl[j] \in Seq(STRING)
    <3>1. PICK k \in 0 .. N - 1 : k + 1 = j
      <4>1. j - 1 \in 0 .. N - 1 /\ (j - 1) + 1 = j
        BY <1>8
      <4>2. QED
        BY <4>1
    <3>2. QED
      BY <1>9, <3>1 DEF Holds
  <2>2. nl = [j \in 1 .. N |-> SubSeq(name, c[j - 1] + 1, c[j] - 1)]
    BY <1>5, <1>7
  <2>3. nl = [j \in 1 .. N |-> nl[j]]
    BY <2>2
  <2>4. nl \in [1 .. N -> Seq(STRING)]
    BY <2>1, <2>3
  <2>5. QED
    BY <1>8, <2>4
<1>18. fl \in [1 .. K -> Seq(STRING)] /\ Len(fl) = K
  <2>1. ASSUME NEW j \in 1 .. K PROVE fl[j] \in Seq(STRING)
    <3>1. PICK k \in 0 .. K - 1 : k + 1 = j
      <4>1. j - 1 \in 0 .. K - 1 /\ (j - 1) + 1 = j
        BY <1>8
      <4>2. QED
        BY <4>1
    <3>2. QED
      BY <1>10, <3>1 DEF Holds
  <2>2. fl = [j \in 1 .. K |-> SubSeq(filter, d[j - 1] + 1, d[j] - 1)]
    BY <1>6, <1>7
  <2>3. fl = [j \in 1 .. K |-> fl[j]]
    BY <2>2
  <2>4. fl \in [1 .. K -> Seq(STRING)]
    BY <2>1, <2>3
  <2>5. QED
    BY <1>8, <2>4
<1>19. QED
  BY <1>7, <1>8, <1>13, <1>14, <1>15, <1>16, <1>17, <1>18

(* A sequence of one member, and one of two.                               *)
LEMMA ShortSequences ==
    ASSUME NEW t, t \in Seq(Seq(STRING)), NEW v, NEW w
    PROVE  /\ t = <<w>> <=> Len(t) = 1 /\ t[1] = w
           /\ t = <<v, w>> <=> Len(t) = 2 /\ t[1] = v /\ t[2] = w
<1>1. Len(<<w>>) = 1 /\ <<w>>[1] = w /\ Len(<<v, w>>) = 2 /\ <<v, w>>[1] = v /\ <<v, w>>[2] = w
  OBVIOUS
<1>2. Len(t) = 1 => t = <<t[1]>>
  OBVIOUS
<1>3. Len(t) = 2 => t = <<t[1], t[2]>>
  OBVIOUS
<1>4. QED
  BY <1>1, <1>2, <1>3

(* The levels of a filter from that one on where the name ends: a wildcard *)
(* or two, in terms of their places.                                       *)
LastWildcards(fl, N, K) ==
    \/ K = N /\ fl[N] \in {AnyLevel, AllLevels}
    \/ K = N + 1 /\ fl[N] = NoLevel /\ fl[K] = AllLevels

(* They are all that Missed has for the levels from there on.              *)
LEMMA LastOfFilter ==
    ASSUME NEW N, N \in Nat \ {0}, NEW K, K \in Nat \ {0}, NEW fl, fl \in [1 .. K -> Seq(STRING)], N <= K
    PROVE  SubSeq(fl, N, K) \in {<<AnyLevel>>, <<AllLevels>>, <<NoLevel, AllLevels>>} <=> LastWildcards(fl, N, K)
<1>1. PICK t : t = SubSeq(fl, N, K)
  OBVIOUS
<1>2. \A i \in N .. K : fl[i] \in Seq(STRING)
  OBVIOUS
<1>3. /\ t \in Seq(Seq(STRING)) /\ Len(t) = K - N + 1
      /\ \A i \in 1 .. K - N + 1 : t[i] = fl[N + i - 1]
  <2>1. fl \in Seq(Seq(STRING)) /\ Len(fl) = K
    OBVIOUS
  <2>2. QED
    BY <1>1, <1>2, <2>1
<1>4. (Len(t) = 1 <=> K = N) /\ (Len(t) = 2 <=> K = N + 1)
  BY <1>3
<1>5. t[1] = fl[N]
  <2>1. 1 \in 1 .. K - N + 1 /\ N + 1 - 1 = N
    OBVIOUS
  <2>2. QED
    BY <1>3, <2>1
<1>6. K = N + 1 => t[2] = fl[K]
  <2> SUFFICES ASSUME K = N + 1 PROVE t[2] = fl[K]
    OBVIOUS
  <2>1. 2 \in 1 .. K - N + 1 /\ N + 2 - 1 = K
    OBVIOUS
  <2>2. QED
    BY <1>3, <2>1
<1>7. t \in Seq(Seq(STRING))
  BY <1>3
<1>8. PICK any, all, none : any = AnyLevel /\ all = AllLevels /\ none = NoLevel
  OBVIOUS
<1>9. t = <<any>> <=> Len(t) = 1 /\ t[1] = any
  BY <1>7, ShortSequences
<1>10. t = <<all>> <=> Len(t) = 1 /\ t[1] = all
  BY <1>7, ShortSequences
<1>11. t = <<none, all>> <=> Len(t) = 2 /\ t[1] = none /\ t[2] = all
  BY <1>7, ShortSequences
<1>12. QED
  BY <1>1, <1>4, <1>5, <1>6, <1>8, <1>9, <1>10, <1>11 DEF LastWildcards

(* What MQTT says of a name and a filter, less what is missed, by levels.  *)
LEMMA SpecByLevels ==
    ASSUME NEW name, NEW filter, NEW N \in Nat \ {0}, NEW K \in Nat \ {0}, NEW nl, NEW fl,
           nl = Levels(name), fl = Levels(filter), nl \in [1 .. N -> Seq(STRING)], fl \in [1 .. K -> Seq(STRING)],
           Len(nl) = N, Len(fl) = K
    PROVE  SpecMatch(name, filter) /\ ~ Missed(name, filter) <=>
               /\ ~ (name[1] = "$" /\ filter[1] \in {"+", "#"})
               /\ RestMatches(nl, fl, ValidLevels(fl, K), N, K, 0)
<1> DEFINE all == fl[K] = AllLevels
           fixed == IF all THEN K - 1 ELSE K
           dollar == name[1] = "$" /\ filter[1] \in {"+", "#"}
           valid == \A j \in 0 + 1 .. K : j \in ValidLevels(fl, K)
           count == IF all THEN N >= fixed ELSE N = fixed
           fit == \A j \in 0 + 1 .. fixed : fl[j] = AnyLevel \/ nl[j] = fl[j]
<1>1. ValidFilter(fl) <=> valid
  <2>1. DOMAIN fl = 1 .. K /\ 0 + 1 = 1
    OBVIOUS
  <2>2. QED
    BY <2>1 DEF ValidFilter, ValidLevels
<1>2. SpecMatch(name, filter) <=> valid /\ ~ dollar /\ count /\ fit
  <2>1. (\A j \in 1 .. fixed : LevelOk(nl[j], fl[j])) <=> fit
    BY DEF LevelOk, AnyLevel
  <2>2. (fl[Len(fl)] = <<"#">>) = all
    BY DEF AllLevels
  <2>3. SpecMatch(name, filter) <=>
            /\ ValidFilter(fl) /\ ~ dollar /\ count /\ \A j \in 1 .. fixed : LevelOk(nl[j], fl[j])
    BY <2>2 DEF SpecMatch
  <2>4. QED
    BY <1>1, <2>1, <2>3
<1>3. RestMatches(nl, fl, ValidLevels(fl, K), N, K, 0) <=>
          valid /\ count /\ fit /\ ~ MissedLast(nl, fl, N, K, 0)
  <2>1. FixedLevels(fl, K) = fixed
    BY DEF FixedLevels
  <2>2. (IF all THEN N >= fixed ELSE N = K) <=> count
    OBVIOUS
  <2>3. QED
    BY <2>1, <2>2 DEF RestMatches
<1>4. Missed(name, filter) <=> MissedLast(nl, fl, N, K, 0)
  <2> DEFINE last == SubSeq(fl, N, K) \in {<<AnyLevel>>, <<AllLevels>>, <<NoLevel, AllLevels>>}
  <2>1. Missed(name, filter) <=>
            \/ K = N + 1 /\ fl[N] = AnyLevel /\ fl[N + 1] = AllLevels
            \/ N >= 2 /\ nl[N] = NoLevel /\ K >= N /\ fl[N - 1] = AnyLevel /\ last
    BY DEF Missed, AnyLevel, AllLevels, NoLevel
  <2>2. K >= N => (last <=> LastWildcards(fl, N, K))
    <3> HIDE DEF all, fixed, dollar, valid, count, fit
    <3>1. QED
      BY LastOfFilter
  <2> HIDE DEF last
  <2>3. (K = N \/ K = N + 1 => K >= N) /\ (K = N + 1 => fl[N + 1] = fl[K]) /\ 0 + 2 = 2
    OBVIOUS
  <2>4. QED
    BY <2>1, <2>2, <2>3 DEF MissedLast, LastWildcards
<1>5. QED
  BY <1>2, <1>3, <1>4

(* MQTT_MatchTopic says of every name and every filter what MQTT says, but *)
(* for those that are missed.                                              *)
LEMMA MatchIsSpec ==
    ASSUME NEW name \in TopicName, NEW filter \in TopicFilter
    PROVE  MatchTopic(name, filter) <=> SpecMatch(name, filter) /\ ~ Missed(name, filter)
<1>1. PICK nl, fl : nl = Levels(name) /\ fl = Levels(filter)
  OBVIOUS
<1>2. PICK N \in Nat \ {0}, K \in Nat \ {0} :
          /\ nl \in [1 .. N -> Seq(STRING)] /\ fl \in [1 .. K -> Seq(STRING)]
          /\ Len(nl) = N /\ Len(fl) = K
          /\ \A j \in 1 .. N : nl[j] \notin {AnyLevel, AllLevels}
          /\ \A j \in 1 .. K, i \in 1 .. N : fl[j] = nl[i] => j \in ValidLevels(fl, K)
          /\ ~ (N = 1 /\ nl[N] = NoLevel)
          /\ MatchTopicFilter(name, filter) <=> RestMatches(nl, fl, ValidLevels(fl, K), N, K, 0)
  BY <1>1, LoopsDecide
<1>3. SpecMatch(name, filter) /\ ~ Missed(name, filter) <=>
          /\ ~ (name[1] = "$" /\ filter[1] \in {"+", "#"})
          /\ RestMatches(nl, fl, ValidLevels(fl, K), N, K, 0)
  BY <1>1, <1>2, SpecByLevels
<1>4. CASE name # filter
  BY <1>2, <1>3, <1>4 DEF MatchTopic
<1>5. CASE name = filter
  <2>1. filter[1] \notin {"+", "#"}
    BY <1>5 DEF TopicName
  <2>2. fl = nl /\ K = N
    BY <1>1, <1>2, <1>5
  <2>3. \A j \in 1 .. N : j \in ValidLevels(fl, K) /\ fl[j] = nl[j] /\ fl[j] \notin {AnyLevel, AllLevels}
    BY <1>2, <2>2
  <2>4. N \in 1 .. N /\ 0 + 1 = 1 /\ (N >= 2 => N - 1 \in 1 .. N)
    BY <1>2
  <2>5. fl[K] # AllLevels /\ FixedLevels(fl, K) = N
    BY <2>2, <2>3, <2>4 DEF FixedLevels
  <2>6. ~ MissedLast(nl, fl, N, K, 0)
    <3>1. K # N + 1 /\ 0 + 2 = 2
      BY <1>2, <2>2
    <3>2. N >= 2 => fl[N - 1] # AnyLevel
      BY <2>3, <2>4
    <3>3. QED
      BY <3>1, <3>2 DEF MissedLast
  <2>7. RestMatches(nl, fl, ValidLevels(fl, K), N, K, 0)
    BY <2>2, <2>3, <2>4, <2>5, <2>6 DEF RestMatches
  <2>8. QED
    BY <1>3, <1>5, <2>1, <2>7 DEF MatchTopic
<1>6. QED
  BY <1>4, <1>5

(* What is known once a name was matched.                                  *)
MatchInv ==
    stage = "matched" =>
        \E name \in TopicName, filter \in TopicFilter :
            /\ packet = [kind |-> "MATCH", name |-> name, filter |-> filter]
            /\ answer = [status |-> "Success", isMatch |-> MatchTopic(name, filter)]

(* It holds after every step.                                              *)
LEMMA MatchNext == MatchInv /\ [Next]_vars => MatchInv'
<1> SUFFICES ASSUME MatchInv, [Next]_vars
             PROVE  MatchInv'
  OBVIOUS
<1>1. ASSUME NEW p, NEW s, Measure(p, s)
      PROVE  MatchInv'
  <2>1. stage' \in {"sized", "refused"}
    BY <1>1 DEF Measure
  <2>2. QED
    BY <2>1 DEF MatchInv
<1>2. CASE GetConnectSize \/ GetSubscriptionSize \/ GetPublishSize \/ GetFixedSize \/ GetSizeOfLengths
  BY <1>1, <1>2 DEF GetConnectSize, GetSubscriptionSize, GetPublishSize, GetFixedSize, GetSizeOfLengths
<1>3. ASSUME NEW kind, NEW next \in {"written", "header"}, NEW separate, NEW size, NEW written,
             Serialize(kind, next, separate, size, written)
      PROVE  MatchInv'
  <2>1. stage' \in {"written", "header", "refused"}
    BY <1>3 DEF Serialize
  <2>2. QED
    BY <2>1 DEF MatchInv
<1>4. CASE ConnectCall \/ SubscribeCall \/ UnsubscribeCall \/ PublishCall
  BY <1>3, <1>4 DEF ConnectCall, SubscribeCall, UnsubscribeCall, PublishCall
<1>5. CASE PublishHeaderCall \/ AckCall \/ FixedCall
  BY <1>3, <1>5 DEF PublishHeaderCall, AckCall, FixedCall
<1>6. CASE SendPayload \/ Arrive \/ ReadHeader \/ ReadBody \/ Done
  <2>1. stage' \in {"written", "arrived", "framed", "refused", "decoded", "idle"}
    BY <1>6 DEF SendPayload, Arrive, ReadHeader, ReadBody, Done
  <2>2. QED
    BY <2>1 DEF MatchInv
<1>7. CASE MatchCall
  <2>1. TopicNames \subseteq TopicName /\ TopicFilters \subseteq TopicFilter
    BY TopicsAssumption
  <2>2. QED
    BY <1>7, <2>1 DEF MatchCall, MatchInv
<1>8. CASE UNCHANGED vars
  BY <1>8 DEF vars, MatchInv
<1>9. QED
  BY <1>2, <1>4, <1>5, <1>6, <1>7, <1>8 DEF Next

(* MQTT_MatchTopic says that a name matches a filter exactly when MQTT     *)
(* 3.1.1 says so and the filter is not one it misses, for names and        *)
(* filters of any length, and not only those of a run.                     *)
THEOREM MatchIsExact == Spec => []MatchExact
<1>1. Init => MatchInv
  BY DEF Init, MatchInv
<1>2. MatchInv => MatchExact
  <2> SUFFICES ASSUME MatchInv, stage = "matched"
               PROVE  answer.isMatch <=>
                          SpecMatch(packet.name, packet.filter) /\ ~ Missed(packet.name, packet.filter)
    BY DEF MatchExact
  <2>1. PICK name \in TopicName, filter \in TopicFilter :
            /\ packet = [kind |-> "MATCH", name |-> name, filter |-> filter]
            /\ answer = [status |-> "Success", isMatch |-> MatchTopic(name, filter)]
    BY DEF MatchInv
  <2>2. packet.name = name /\ packet.filter = filter /\ answer.isMatch = MatchTopic(name, filter)
    BY <2>1
  <2>3. QED
    BY <2>2, MatchIsSpec
<1>3. QED
  BY <1>1, <1>2, MatchNext, PTL DEF Spec
=============================================================================
