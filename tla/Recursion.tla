----------------------------- MODULE Recursion -----------------------------
(***************************************************************************)
(* Induction and recursion for the proofs about data (ConnectProtocol,     *)
(* HeaderReader), in a form that speaks of sets and functions only, so     *)
(* that it can be cited: the induction rule comes from the least element   *)
(* of a set of naturals, and a recursive function exists because its       *)
(* finite approximations do.                                               *)
(***************************************************************************)
EXTENDS Integers, Sequences, WellFoundedInduction, TLAPS

\* A set of naturals that is not empty has a least element.
LEMMA Least ==
    ASSUME NEW U, U \subseteq Nat, U # {}
    PROVE  \E m \in U : \A y \in U : m <= y
<1>1. PICK m \in U : \A y \in U : ~(<<y, m>> \in OpToRel(<, Nat))
  BY WFMin, NatLessThanWellFounded
<1>2. ASSUME NEW y \in U PROVE m <= y
  <2>1. y \in Nat /\ m \in Nat
    OBVIOUS
  <2>2. y < m => <<y, m>> \in OpToRel(<, Nat)
    BY <2>1 DEF OpToRel
  <2>3. ~(y < m)
    BY <1>1, <2>2
  <2> QED BY <2>1, <2>3
<1> QED BY <1>2

\* A set with 0, and with n + 1 whenever it has n, has every natural.
LEMMA Induction ==
    ASSUME NEW T, 0 \in T, \A n \in Nat : n \in T => n + 1 \in T
    PROVE  \A n \in Nat : n \in T
<1> SUFFICES ASSUME NEW x \in Nat, x \notin T PROVE FALSE
  OBVIOUS
<1> DEFINE U == {n \in Nat : n \notin T}
<1>1. U \subseteq Nat /\ U # {}
  OBVIOUS
<1>2. PICK m \in U : \A y \in U : m <= y
  <2> HIDE DEF U
  <2> QED BY <1>1, Least
<1>3. m # 0 /\ m - 1 \in Nat
  OBVIOUS
<1>4. m - 1 \in U
  BY <1>3
<1> QED BY <1>2, <1>4

\* A set that has n whenever it has everything below n has every natural.
LEMMA StrongInduction ==
    ASSUME NEW T, \A n \in Nat : (\A m \in Nat : m < n => m \in T) => n \in T
    PROVE  \A n \in Nat : n \in T
<1> SUFFICES ASSUME NEW x \in Nat, x \notin T PROVE FALSE
  OBVIOUS
<1> DEFINE U == {n \in Nat : n \notin T}
<1>1. U \subseteq Nat /\ U # {}
  OBVIOUS
<1>2. PICK m \in U : \A y \in U : m <= y
  <2> HIDE DEF U
  <2> QED BY <1>1, Least
<1>3. \A k \in Nat : k < m => k \in T
  BY <1>2
<1> QED BY <1>3

\* The recursion asks for f at a smaller measure, from x \notin B at pred[x].
Decreases(D, V, mu, B, leaf, pred, node) ==
    /\ mu \in [D -> Nat] /\ leaf \in [D -> V]
    /\ pred \in [D -> D] /\ node \in [D \X V -> V]
    /\ \A x \in D : x \notin B => mu[pred[x]] < mu[x]

\* f follows the recursion up to measure n.
Approximates(f, n, D, V, mu, B, leaf, pred, node) ==
    /\ f \in [{x \in D : mu[x] < n} -> V]
    /\ \A x \in D : mu[x] < n =>
         f[x] = IF x \in B THEN leaf[x] ELSE node[<<x, f[pred[x]]>>]

\* Two functions that follow the same recursion agree where both are defined.
LEMMA ApproximationsAgree ==
    ASSUME NEW D, NEW V, NEW mu, NEW B, NEW leaf, NEW pred, NEW node,
           Decreases(D, V, mu, B, leaf, pred, node),
           NEW n \in Nat, NEW m \in Nat, NEW f, NEW g,
           Approximates(f, n, D, V, mu, B, leaf, pred, node),
           Approximates(g, m, D, V, mu, B, leaf, pred, node)
    PROVE  \A x \in D : mu[x] < n /\ mu[x] < m => f[x] = g[x]
<1> USE DEF Decreases
<1> DEFINE T == {k \in Nat : \A x \in D : mu[x] = k /\ k < n /\ k < m => f[x] = g[x]}
<1>1. ASSUME NEW k \in Nat, \A l \in Nat : l < k => l \in T
      PROVE  k \in T
  <2> SUFFICES ASSUME NEW x \in D, mu[x] = k, k < n, k < m
               PROVE  f[x] = g[x]
    OBVIOUS
  <2>1. CASE x \in B
    BY <2>1 DEF Approximates
  <2>2. CASE x \notin B
    <3>1. pred[x] \in D /\ mu[pred[x]] \in Nat /\ mu[pred[x]] < k
      BY <2>2
    <3>2. f[pred[x]] = g[pred[x]]
      BY <1>1, <3>1
    <3>3. f[x] = node[<<x, f[pred[x]]>>] /\ g[x] = node[<<x, g[pred[x]]>>]
      BY <2>2 DEF Approximates
    <3> QED BY <3>2, <3>3
  <2> QED BY <2>1, <2>2
<1>2. \A k \in Nat : k \in T
  <2> HIDE DEF T
  <2> QED BY <1>1, StrongInduction
<1> QED BY <1>2

\* One step of the recursion after another.
LEMMA ApproximationsExist ==
    ASSUME NEW D, NEW V, NEW mu, NEW B, NEW leaf, NEW pred, NEW node,
           Decreases(D, V, mu, B, leaf, pred, node)
    PROVE  \A n \in Nat : \E f : Approximates(f, n, D, V, mu, B, leaf, pred, node)
<1> USE DEF Decreases
<1> DEFINE T == {n \in Nat : \E f : Approximates(f, n, D, V, mu, B, leaf, pred, node)}
<1>1. 0 \in T
  <2>1. {x \in D : mu[x] < 0} = {}
    OBVIOUS
  <2>2. [x \in {} |-> x] \in [{x \in D : mu[x] < 0} -> V]
    BY <2>1
  <2>3. Approximates([x \in {} |-> x], 0, D, V, mu, B, leaf, pred, node)
    BY <2>2, <2>1 DEF Approximates
  <2> QED BY <2>3
<1>2. ASSUME NEW n \in Nat, n \in T
      PROVE  n + 1 \in T
  <2>1. PICK f : Approximates(f, n, D, V, mu, B, leaf, pred, node)
    BY <1>2
  <2> DEFINE E == {x \in D : mu[x] < n + 1}
             h == [x \in E |-> IF x \in B THEN leaf[x] ELSE node[<<x, f[pred[x]]>>]]
  <2>2. \A x \in E : x \notin B => pred[x] \in D /\ mu[pred[x]] < n /\ f[pred[x]] \in V
    <3> SUFFICES ASSUME NEW x \in E, x \notin B
                 PROVE  pred[x] \in D /\ mu[pred[x]] < n /\ f[pred[x]] \in V
      OBVIOUS
    <3>1. pred[x] \in D /\ mu[pred[x]] < n
      OBVIOUS
    <3> QED BY <3>1, <2>1 DEF Approximates
  <2>3. h \in [E -> V]
    <3> SUFFICES ASSUME NEW x \in E
                 PROVE  (IF x \in B THEN leaf[x] ELSE node[<<x, f[pred[x]]>>]) \in V
      OBVIOUS
    <3>1. CASE x \in B
      BY <3>1
    <3>2. CASE x \notin B
      <4>1. <<x, f[pred[x]]>> \in D \X V
        BY <3>2, <2>2
      <4> QED BY <4>1, <3>2
    <3> QED BY <3>1, <3>2
  <2>4. \A x \in D : mu[x] < n => h[x] = f[x]
    BY <2>1 DEF Approximates
  <2>5. \A x \in E : h[x] = IF x \in B THEN leaf[x] ELSE node[<<x, h[pred[x]]>>]
    <3> SUFFICES ASSUME NEW x \in E, x \notin B
                 PROVE  h[x] = node[<<x, h[pred[x]]>>]
      OBVIOUS
    <3>1. pred[x] \in D /\ h[pred[x]] = f[pred[x]]
      <4> HIDE DEF h
      <4> QED BY <2>2, <2>4
    <3> QED BY <3>1
  <2>6. Approximates(h, n + 1, D, V, mu, B, leaf, pred, node)
    <3> HIDE DEF h
    <3> QED BY <2>3, <2>5 DEF Approximates
  <2> HIDE DEF h, E
  <2> QED BY <2>6
<1> HIDE DEF T
<1>3. \A n \in Nat : n \in T
  BY <1>1, <1>2, Induction
<1> QED BY <1>3 DEF T

\* A recursion whose measure falls has a solution.
LEMMA RecursiveFunction ==
    ASSUME NEW D, NEW V, NEW mu, NEW B, NEW leaf, NEW pred, NEW node,
           Decreases(D, V, mu, B, leaf, pred, node)
    PROVE  \E f \in [D -> V] :
             \A x \in D : f[x] = IF x \in B THEN leaf[x] ELSE node[<<x, f[pred[x]]>>]
<1> DEFINE A(f, n) == Approximates(f, n, D, V, mu, B, leaf, pred, node)
           a == [n \in Nat |-> CHOOSE f : A(f, n)]
           h == [x \in D |-> a[mu[x] + 1][x]]
<1>1. \A n \in Nat : A(a[n], n)
  <2>1. \A n \in Nat : \E f : A(f, n)
    BY ApproximationsExist
  <2> HIDE DEF A
  <2> QED BY <2>1
<1> USE DEF Decreases
<1>2. ASSUME NEW x \in D PROVE a[mu[x] + 1][x] \in V
  <2> HIDE DEF a
  <2>1. mu[x] \in Nat /\ mu[x] + 1 \in Nat /\ mu[x] < mu[x] + 1
    OBVIOUS
  <2>2. A(a[mu[x] + 1], mu[x] + 1)
    BY <1>1, <2>1
  <2>3. a[mu[x] + 1] \in [{y \in D : mu[y] < mu[x] + 1} -> V]
    BY <2>2 DEF Approximates
  <2> QED BY <2>1, <2>3
<1>3. h \in [D -> V]
  <2> HIDE DEF a
  <2> QED BY <1>2
<1>4. ASSUME NEW x \in D
      PROVE  h[x] = IF x \in B THEN leaf[x] ELSE node[<<x, h[pred[x]]>>]
  <2> HIDE DEF a
  <2>1. A(a[mu[x] + 1], mu[x] + 1)
    BY <1>1
  <2>2. h[x] = IF x \in B THEN leaf[x] ELSE node[<<x, a[mu[x] + 1][pred[x]]>>]
    BY <2>1 DEF Approximates
  <2>3. CASE x \notin B
    <3>1. /\ pred[x] \in D /\ mu[pred[x]] \in Nat
          /\ mu[pred[x]] < mu[x] + 1 /\ mu[pred[x]] < mu[pred[x]] + 1
      BY <2>3
    <3>2. A(a[mu[pred[x]] + 1], mu[pred[x]] + 1)
      BY <1>1, <3>1
    <3>3. a[mu[pred[x]] + 1][pred[x]] = a[mu[x] + 1][pred[x]]
      <4>1. mu[x] + 1 \in Nat /\ mu[pred[x]] + 1 \in Nat
        BY <3>1
      <4> DEFINE n == mu[pred[x]] + 1
                 m == mu[x] + 1
      <4>2. \A y \in D : mu[y] < n /\ mu[y] < m => a[n][y] = a[m][y]
        <5>1. /\ n \in Nat /\ m \in Nat
              /\ Approximates(a[n], n, D, V, mu, B, leaf, pred, node)
              /\ Approximates(a[m], m, D, V, mu, B, leaf, pred, node)
          BY <2>1, <3>2, <4>1
        <5> HIDE DEF n, m, Decreases
        <5> QED BY <5>1, ApproximationsAgree
      <4> QED BY <3>1, <4>2
    <3>4. h[pred[x]] = a[mu[pred[x]] + 1][pred[x]]
      BY <3>1
    <3> QED BY <2>2, <3>3, <3>4
  <2>4. CASE x \in B
    BY <2>2, <2>4
  <2> QED BY <2>3, <2>4
<1> HIDE DEF h
<1> QED BY <1>3, <1>4

=============================================================================
