------------------------------- MODULE Induction -------------------------------
(***************************************************************************)
(* Induction over the naturals as a fact about sets, and what it gives:    *)
(* functions defined by recursion exist and are what they say.             *)
(***************************************************************************)
EXTENDS Integers, Sequences, WellFoundedInduction, TLAPS

\* A set with 0 and the successor of each of its numbers has all of them.
LEMMA SetInduction == ASSUME NEW S, 0 \in S, \A n \in Nat : n \in S => n + 1 \in S
                      PROVE  Nat \subseteq S
<1> DEFINE Lt == OpToRel(<, Nat)
<1>1. \A m, n \in Nat : <<m, n>> \in Lt <=> m < n
  BY DEF OpToRel
<1> HIDE DEF Lt
<1> SUFFICES ASSUME Nat \ S # {} PROVE FALSE
  OBVIOUS
<1>2. IsWellFoundedOn(Lt, Nat)
  BY NatLessThanWellFounded DEF Lt
<1>3. PICK x \in Nat \ S : \A y \in Nat \ S : <<y, x>> \notin Lt
  BY <1>2, WFMin
<1>4. x # 0 /\ x - 1 \in Nat /\ x - 1 < x
  BY <1>3
<1>5. x - 1 \in S
  BY <1>1, <1>3, <1>4
<1> QED BY <1>3, <1>4, <1>5

\* f has the value c at 0, and each next value up to n follows by the function step.
StepsIn(step, n, V) == step \in [1..n -> [V -> V]]
Recurs(f, n, V, c, step) ==
    f \in [0..n -> V] /\ f[0] = c /\ \A k \in 1..n : f[k] = step[k][f[k - 1]]

\* There is a function that is defined by recursion.
LEMMA Recursion == ASSUME NEW n \in Nat, NEW V, NEW c \in V, NEW step, StepsIn(step, n, V)
                   PROVE  \E f : Recurs(f, n, V, c, step)
<1> DEFINE Good(m, f) == f[0] = c /\ \A k \in 1..m : f[k] = step[k][f[k - 1]]
           S == {m \in Nat : m <= n => \E f \in [0..m -> V] : Good(m, f)}
<1>1. 0 \in S
  <2>1. [k \in 0..0 |-> c] \in [0..0 -> V] /\ Good(0, [k \in 0..0 |-> c])
    OBVIOUS
  <2> QED BY <2>1
<1>2. ASSUME NEW m \in Nat, m \in S, m + 1 <= n PROVE \E f \in [0..m + 1 -> V] : Good(m + 1, f)
  <2>1. PICK f \in [0..m -> V] : Good(m, f)
    BY <1>2
  <2> DEFINE g == [k \in 0..m + 1 |-> IF k = m + 1 THEN step[m + 1][f[m]] ELSE f[k]]
  <2>2. step[m + 1][f[m]] \in V
    BY <1>2, <2>1 DEF StepsIn
  <2>3. g \in [0..m + 1 -> V]
    BY <2>1, <2>2
  <2>4. g[0] = c
    BY <2>1
  <2>5. ASSUME NEW k \in 1..m + 1 PROVE g[k] = step[k][g[k - 1]]
    <3>1. k - 1 \in 0..m + 1 /\ k - 1 # m + 1 /\ g[k - 1] = f[k - 1]
      OBVIOUS
    <3>2. CASE k = m + 1
      BY <3>1, <3>2
    <3>3. CASE k # m + 1
      <4>1. k \in 1..m /\ g[k] = f[k]
        BY <3>3
      <4> QED BY <2>1, <3>1, <4>1
    <3> QED BY <3>2, <3>3
  <2> QED BY <2>3, <2>4, <2>5
<1>3. \A m \in Nat : m \in S => m + 1 \in S
  <2> HIDE DEF Good
  <2> QED BY <1>2
<1>4. n \in S
  <2> HIDE DEF S
  <2> QED BY <1>1, <1>3, SetInduction
<1> QED BY <1>4 DEF Recurs

\* A function that follows from 0 on, as long as it is of its type, is of its type.
LEMMA Recursive ==
    ASSUME NEW n \in Nat, NEW V, NEW c \in V, NEW step, StepsIn(step, n, V),
           NEW f, f = [k \in 0..n |-> f[k]], f[0] = c,
           \A k \in 1..n : f[k - 1] \in V => f[k] = step[k][f[k - 1]]
    PROVE  Recurs(f, n, V, c, step)
<1> DEFINE S == {m \in Nat : m <= n => f[m] \in V}
<1>1. 0 \in S
  OBVIOUS
<1>2. ASSUME NEW m \in Nat, m \in S PROVE m + 1 \in S
  <2>1. CASE m + 1 <= n
    <3>1. m + 1 \in 1..n /\ (m + 1) - 1 = m /\ f[m] \in V
      BY <1>2, <2>1
    <3>2. f[m + 1] = step[m + 1][f[m]]
      BY <3>1
    <3>3. step[m + 1][f[m]] \in V
      BY <3>1 DEF StepsIn
    <3> QED BY <3>2, <3>3
  <2> QED BY <2>1
<1>3. \A m \in Nat : m \in S
  <2> HIDE DEF S
  <2> QED BY <1>1, <1>2, SetInduction
<1>4. \A k \in 0..n : f[k] \in V
  BY <1>3
<1>5. \A k \in 1..n : k - 1 \in 0..n
  OBVIOUS
<1> QED BY <1>4, <1>5 DEF Recurs

\* Two that begin and go on alike are alike.
LEMMA RecursAlike ==
    ASSUME NEW n \in Nat, NEW m \in Nat, n <= m, NEW V, NEW c, NEW step, NEW other, NEW f, NEW g,
           Recurs(f, n, V, c, step), Recurs(g, m, V, c, other),
           \A k \in 1..n : step[k] = other[k]
    PROVE  \A k \in 0..n : f[k] = g[k]
<1> DEFINE S == {k \in Nat : k <= n => f[k] = g[k]}
<1>1. 0 \in S
  BY DEF Recurs
<1>2. ASSUME NEW k \in Nat, k \in S PROVE k + 1 \in S
  <2>1. CASE k + 1 <= n
    <3>1. k + 1 \in 1..n /\ k + 1 \in 1..m /\ (k + 1) - 1 = k /\ f[k] = g[k]
      BY <1>2, <2>1
    <3>2. f[k + 1] = step[k + 1][f[k]] /\ g[k + 1] = other[k + 1][g[k]]
      BY <3>1 DEF Recurs
    <3> QED BY <3>1, <3>2
  <2> QED BY <2>1
<1>3. \A k \in Nat : k \in S
  <2> HIDE DEF S
  <2> QED BY <1>1, <1>2, SetInduction
<1> QED BY <1>3

\* Induction over sequences, by what is put at their end.
LEMMA SeqInduction ==
    ASSUME NEW V, NEW S, <<>> \in S, \A s \in Seq(V) : \A x \in V : s \in S => Append(s, x) \in S
    PROVE  Seq(V) \subseteq S
<1> DEFINE N == {n \in Nat : \A s \in Seq(V) : Len(s) = n => s \in S}
<1>1. 0 \in N
  <2>1. \A s \in Seq(V) : Len(s) = 0 => s = <<>>
    OBVIOUS
  <2> QED BY <2>1
<1>2. ASSUME NEW n \in Nat, n \in N PROVE n + 1 \in N
  <2>1. ASSUME NEW s \in Seq(V), Len(s) = n + 1 PROVE s \in S
    <3> DEFINE r == [i \in 1..n |-> s[i]]
    <3>1. r \in Seq(V) /\ Len(r) = n /\ s[n + 1] \in V
      BY <2>1
    <3>2. s = Append(r, s[n + 1])
      <4>1. Append(r, s[n + 1]) \in Seq(V) /\ Len(Append(r, s[n + 1])) = n + 1
        BY <3>1
      <4>2. \A i \in 1..n + 1 : Append(r, s[n + 1])[i] = s[i]
        BY <3>1
      <4> HIDE DEF r
      <4> QED BY <2>1, <4>1, <4>2
    <3>3. r \in S
      BY <1>2, <3>1
    <3> HIDE DEF r
    <3> QED BY <3>1, <3>2, <3>3
  <2> QED BY <2>1
<1>3. \A n \in Nat : n \in N
  <2> HIDE DEF N
  <2> QED BY <1>1, <1>2, SetInduction
<1> QED BY <1>3
===============================================================================
