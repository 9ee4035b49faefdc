------------------------------ MODULE Folding ------------------------------
(***************************************************************************)
(* What FoldLeft does with one element more, for any operator: the step of *)
(* the inductions over messages and headers.  Instantiated with the        *)
(* operator that a fold of the model is about.                             *)
(***************************************************************************)
EXTENDS SequencesExt, Recursion

CONSTANTS Op(_, _), Base

Fold(w) == FoldLeft(Op, Base, w)

\* The greatest index, as the definition of FoldLeft takes it out.
LEMMA MaxOfInterval ==
    /\ \A k \in Nat : k # 0 => /\ 1..k # {} /\ Max(1..k) = k
                               /\ (1..k) \ {k} = 1..(k - 1)
    /\ \A m \in Nat : \A s \in SUBSET (1..(m + 1)) :
         s # {} => s \ {Max(s)} \in SUBSET (1..m)
<1>1. ASSUME NEW s, NEW k \in s, s \subseteq Int, \A x \in s : x <= k
      PROVE  Max(s) = k
  <2>1. Max(s) \in s /\ \A y \in s : Max(s) >= y
    BY <1>1 DEF Max
  <2>2. Max(s) \in Int /\ k \in Int /\ Max(s) <= k /\ Max(s) >= k
    BY <2>1, <1>1
  <2> HIDE DEF Max
  <2> QED BY <2>2
<1>2. ASSUME NEW k \in Nat, k # 0
      PROVE  1..k # {} /\ Max(1..k) = k /\ (1..k) \ {k} = 1..(k - 1)
  <2>1. k \in 1..k /\ 1..k \subseteq Int /\ \A x \in 1..k : x <= k
    BY <1>2
  <2>2. Max(1..k) = k
    BY <2>1, <1>1
  <2>3. (1..k) \ {k} = 1..(k - 1)
    BY <1>2
  <2> QED BY <2>1, <2>2, <2>3
<1>3. ASSUME NEW m \in Nat, NEW s \in SUBSET (1..(m + 1)), s # {}
      PROVE  s \ {Max(s)} \in SUBSET (1..m)
  <2>1. CASE m + 1 \in s
    <3>1. s \subseteq Int /\ \A x \in s : x <= m + 1
      BY <1>3
    <3>2. Max(s) = m + 1
      BY <1>1, <2>1, <3>1
    <3>3. ASSUME NEW x \in s, x # m + 1 PROVE x \in 1..m
      BY <3>3, <1>3
    <3> QED BY <3>2, <3>3
  <2>2. CASE m + 1 \notin s
    <3>1. ASSUME NEW x \in s PROVE x \in 1..m
      BY <2>2, <1>3
    <3> QED BY <3>1
  <2> QED BY <2>1, <2>2
<1> QED BY <1>2, <1>3

\* The iteration behind Fold over the indices 1..l of a sequence u.
FoldIterates(u, l, it) ==
    it = [s \in SUBSET (1..l) |->
            IF s = {} THEN Base
            ELSE Op(it[s \ {Max(s)}], u[Max(s)])]

\* The fold of a sequence with an element more is the operator applied to the
\* fold of the sequence and the element; that of an empty one is the base.
LEMMA FoldStep ==
    ASSUME NEW n \in Nat, NEW w, DOMAIN w = 1..n,
           NEW v, DOMAIN v = 1..(n + 1), \A i \in 1..n : v[i] = w[i]
    PROVE  /\ Fold(v) = Op(Fold(w), v[n + 1])
           /\ n = 0 => Fold(w) = Base
<1>1. ASSUME NEW u PROVE \A l \in Nat : \E it : FoldIterates(u, l, it)
  <2> DEFINE T == {l \in Nat : \E it : FoldIterates(u, l, it)}
  <2>1. 0 \in T
    <3> DEFINE it == [s \in SUBSET (1..0) |-> Base]
    <3>1. FoldIterates(u, 0, it)
      <4>1. \A s \in SUBSET (1..0) : s = {}
        OBVIOUS
      <4> QED BY <4>1 DEF FoldIterates
    <3> HIDE DEF it
    <3> QED BY <3>1
  <2>2. ASSUME NEW l \in Nat, l \in T PROVE l + 1 \in T
    <3>1. PICK it : FoldIterates(u, l, it)
      BY <2>2
    <3> DEFINE jt == [s \in SUBSET (1..(l + 1)) |->
                        IF s \in SUBSET (1..l) THEN it[s]
                        ELSE Op(it[s \ {Max(s)}], u[Max(s)])]
    <3>2. ASSUME NEW s \in SUBSET (1..(l + 1)), s # {}
          PROVE  jt[s] = Op(jt[s \ {Max(s)}], u[Max(s)])
      <4>1. s \ {Max(s)} \in SUBSET (1..l) /\ s \ {Max(s)} \in SUBSET (1..(l + 1))
        BY <3>2, MaxOfInterval
      <4>2. jt[s \ {Max(s)}] = it[s \ {Max(s)}]
        BY <4>1
      <4>3. CASE s \in SUBSET (1..l)
        <5>1. it[s] = Op(it[s \ {Max(s)}], u[Max(s)])
          BY <3>1, <3>2, <4>3 DEF FoldIterates
        <5>2. jt[s] = it[s]
          BY <4>3
        <5> HIDE DEF jt
        <5> QED BY <4>2, <5>1, <5>2
      <4>4. CASE s \notin SUBSET (1..l)
        <5>1. jt[s] = Op(it[s \ {Max(s)}], u[Max(s)])
          BY <4>4
        <5> HIDE DEF jt
        <5> QED BY <4>2, <5>1
      <4> QED BY <4>3, <4>4
    <3>3. jt[{}] = Base
      <4>1. {} \in SUBSET (1..l) /\ {} \in SUBSET (1..(l + 1))
        OBVIOUS
      <4>2. it[{}] = Base
        BY <3>1, <4>1 DEF FoldIterates
      <4> QED BY <4>1, <4>2
    <3>4. jt = [s \in SUBSET (1..(l + 1)) |-> jt[s]]
      OBVIOUS
    <3> HIDE DEF jt
    <3>5. FoldIterates(u, l + 1, jt)
      BY <3>2, <3>3, <3>4 DEF FoldIterates
    <3> QED BY <3>5
  <2> HIDE DEF T
  <2>3. \A l \in Nat : l \in T
    BY <2>1, <2>2, Induction
  <2> QED BY <2>3 DEF T
<1>2. ASSUME NEW u, NEW l \in Nat, DOMAIN u = 1..l
      PROVE  \E it : FoldIterates(u, l, it) /\ Fold(u) = it[1..l]
  <2> DEFINE L == CHOOSE it : FoldIterates(u, l, it)
  <2>1. FoldIterates(u, l, L)
    <3>1. \E it : FoldIterates(u, l, it)
      BY <1>1
    <3> QED BY <3>1
  <2>2. Fold(u) = L[1..l]
    BY <1>2 DEF Fold, FoldIterates, FoldLeft, MapThenFoldSet
  <2> HIDE DEF L
  <2> QED BY <2>1, <2>2
<1>3. ASSUME NEW u, NEW l \in Nat, NEW it, FoldIterates(u, l, it)
      PROVE  it[1..0] = Base
  <2>1. 1..0 = {} /\ 1..0 \in SUBSET (1..l)
    OBVIOUS
  <2> QED BY <2>1, <1>3 DEF FoldIterates
<1>4. ASSUME NEW u, NEW l \in Nat, NEW it, FoldIterates(u, l, it), NEW k \in 1..l
      PROVE  it[1..k] = Op(it[1..(k - 1)], u[k])
  <2>1. 1..k # {} /\ 1..k \in SUBSET (1..l)
    OBVIOUS
  <2>2. k \in Nat /\ k # 0
    OBVIOUS
  <2>3. Max(1..k) = k /\ (1..k) \ {k} = 1..(k - 1)
    BY <2>2, MaxOfInterval
  <2> QED BY <2>1, <2>3, <1>4 DEF FoldIterates
<1>5. PICK it : FoldIterates(w, n, it) /\ Fold(w) = it[1..n]
  BY <1>2
<1>6. PICK jt : FoldIterates(v, n + 1, jt) /\ Fold(v) = jt[1..(n + 1)]
  BY <1>2
<1>7. it[1..0] = Base
  BY <1>3, <1>5
<1>8. ASSUME NEW h \in 1..n PROVE it[1..h] = Op(it[1..(h - 1)], w[h])
  BY <1>4, <1>5
<1>9. n + 1 \in Nat
  OBVIOUS
<1>10. jt[1..0] = Base
  BY <1>3, <1>6, <1>9
<1>11. ASSUME NEW h \in 1..(n + 1) PROVE jt[1..h] = Op(jt[1..(h - 1)], v[h])
  BY <1>4, <1>6, <1>9
<1> DEFINE T == {k \in Nat : k <= n => jt[1..k] = it[1..k]}
<1>12. \A k \in Nat : k \in T
  <2>1. 0 \in T
    BY <1>7, <1>10
  <2>2. ASSUME NEW k \in Nat, k \in T PROVE k + 1 \in T
    <3> SUFFICES ASSUME k + 1 <= n PROVE jt[1..(k + 1)] = it[1..(k + 1)]
      OBVIOUS
    <3>1. k + 1 \in 1..n /\ k + 1 \in 1..(n + 1) /\ (k + 1) - 1 = k
      OBVIOUS
    <3>2. jt[1..k] = it[1..k] /\ v[k + 1] = w[k + 1]
      BY <2>2, <3>1
    <3>3. it[1..(k + 1)] = Op(it[1..k], w[k + 1])
      BY <3>1, <1>8
    <3>4. jt[1..(k + 1)] = Op(jt[1..k], v[k + 1])
      BY <3>1, <1>11
    <3> QED BY <3>2, <3>3, <3>4
  <2> HIDE DEF T
  <2> QED BY <2>1, <2>2, Induction
<1>13. jt[1..n] = it[1..n]
  BY <1>12
<1>14. jt[1..(n + 1)] = Op(jt[1..n], v[n + 1])
  <2>1. n + 1 \in 1..(n + 1) /\ (n + 1) - 1 = n
    OBVIOUS
  <2> QED BY <2>1, <1>11
<1>15. n = 0 => Fold(w) = Base
  BY <1>5, <1>7
<1> QED BY <1>5, <1>6, <1>13, <1>14, <1>15
=============================================================================
