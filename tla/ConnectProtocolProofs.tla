----------------------- MODULE ConnectProtocolProofs -----------------------
(***************************************************************************)
(* Proofs about ConnectProtocol: the size that is announced is the number  *)
(* of bytes written, and a message arrives as it was serialised or is      *)
(* refused for its strings, for messages of any contents.                  *)
(***************************************************************************)
EXTENDS ConnectProtocol, Recursion, TLAPS

-----------------------------------------------------------------------------
(* Varints. *)

\* The recursion of Log2FloorNonZero, by halving, has a solution in Nat.
LEMMA Log2Equation ==
    \A n \in Nat : /\ Log2FloorNonZero[n] \in Nat
                   /\ Log2FloorNonZero[n] =
                        IF n < 2 THEN 0 ELSE 1 + Log2FloorNonZero[n \div 2]
<1> DEFINE L == Log2FloorNonZero
           mu == [n \in Nat |-> n]
           B == {0, 1}
           leaf == [n \in Nat |-> 0]
           pred == [n \in Nat |-> n \div 2]
           node == [p \in Nat \X Nat |-> 1 + p[2]]
<1>1. PICK f \in [Nat -> Nat] :
        \A n \in Nat : f[n] = IF n \in B THEN leaf[n] ELSE node[<<n, f[pred[n]]>>]
  <2>1. mu \in [Nat -> Nat] /\ leaf \in [Nat -> Nat] /\ pred \in [Nat -> Nat]
    OBVIOUS
  <2>2. node \in [Nat \X Nat -> Nat]
    OBVIOUS
  <2>3. \A n \in Nat : n \notin B => mu[pred[n]] < mu[n]
    OBVIOUS
  <2> HIDE DEF mu, B, leaf, pred, node
  <2>4. Decreases(Nat, Nat, mu, B, leaf, pred, node)
    BY <2>1, <2>2, <2>3 DEF Decreases
  <2> QED BY <2>4, RecursiveFunction
<1>2. ASSUME NEW n \in Nat
      PROVE  f[n] = IF n < 2 THEN 0 ELSE 1 + f[n \div 2]
  <2>1. n \div 2 \in Nat /\ <<n, f[n \div 2]>> \in Nat \X Nat
    OBVIOUS
  <2>2. n \in B <=> n < 2
    OBVIOUS
  <2> QED BY <2>1, <2>2, <1>1
<1>3. f = [n \in Nat |-> IF n < 2 THEN 0 ELSE 1 + f[n \div 2]]
  BY <1>2
<1>4. L = [n \in Nat |-> IF n < 2 THEN 0 ELSE 1 + L[n \div 2]]
  BY <1>3 DEF Log2FloorNonZero
<1> HIDE DEF L
<1>5. \A n \in Nat : L[n] = IF n < 2 THEN 0 ELSE 1 + L[n \div 2]
  BY <1>4
<1> DEFINE T == {n \in Nat : L[n] \in Nat}
<1>6. ASSUME NEW n \in Nat, \A m \in Nat : m < n => m \in T
      PROVE  n \in T
  <2>1. CASE n < 2
    BY <2>1, <1>5
  <2>2. CASE ~(n < 2)
    <3>1. n \div 2 \in Nat /\ n \div 2 < n
      BY <2>2
    <3> QED BY <3>1, <2>2, <1>5, <1>6
  <2> QED BY <2>1, <2>2
<1>7. \A n \in Nat : n \in T
  <2> HIDE DEF T
  <2> QED BY <1>6, StrongInduction
<1> QED BY <1>5, <1>7 DEF L

\* The recursion of Varint, seven bits a byte, has a solution.
LEMMA VarintEquation ==
    \A n \in Nat : /\ Varint[n] \in Seq(Nat)
                   /\ n < 128 => Varint[n] = <<n>>
                   /\ n >= 128 => Varint[n] = <<128 + (n % 128)>> \o Varint[n \div 128]
<1> DEFINE L == Varint
           V == Seq(Nat)
           mu == [n \in Nat |-> n]
           B == {n \in Nat : n < 128}
           leaf == [n \in Nat |-> <<n>>]
           pred == [n \in Nat |-> n \div 128]
           node == [p \in Nat \X Seq(Nat) |-> <<128 + (p[1] % 128)>> \o p[2]]
<1>1. PICK f \in [Nat -> V] :
        \A n \in Nat : f[n] = IF n \in B THEN leaf[n] ELSE node[<<n, f[pred[n]]>>]
  <2>1. mu \in [Nat -> Nat] /\ leaf \in [Nat -> V] /\ pred \in [Nat -> Nat]
    OBVIOUS
  <2>2. node \in [Nat \X V -> V]
    <3> SUFFICES ASSUME NEW n \in Nat, NEW b \in V
                 PROVE  <<128 + (n % 128)>> \o b \in V
      OBVIOUS
    <3>1. <<128 + (n % 128)>> \in Seq(Nat)
      OBVIOUS
    <3> QED BY <3>1
  <2>3. \A n \in Nat : n \notin B => mu[pred[n]] < mu[n]
    OBVIOUS
  <2> HIDE DEF mu, B, leaf, pred, node, V
  <2>4. Decreases(Nat, V, mu, B, leaf, pred, node)
    BY <2>1, <2>2, <2>3 DEF Decreases
  <2> QED BY <2>4, RecursiveFunction
<1>2. ASSUME NEW n \in Nat
      PROVE  f[n] = IF n >= 128 THEN <<128 + (n % 128)>> \o f[n \div 128] ELSE <<n>>
  <2>0. n \div 128 \in Nat
    OBVIOUS
  <2>1. <<n, f[n \div 128]>> \in Nat \X V
    <3> HIDE DEF V
    <3> QED BY <2>0
  <2>2. n \in B <=> ~(n >= 128)
    OBVIOUS
  <2> QED BY <2>0, <2>1, <2>2, <1>1
<1>3. f = [n \in Nat |-> IF n >= 128 THEN <<128 + (n % 128)>> \o f[n \div 128] ELSE <<n>>]
  BY <1>2
<1>4. L = [n \in Nat |-> IF n >= 128 THEN <<128 + (n % 128)>> \o L[n \div 128] ELSE <<n>>]
  BY <1>3 DEF Varint
<1> HIDE DEF L
<1>5. ASSUME NEW n \in Nat
      PROVE  /\ n < 128 => L[n] = <<n>>
             /\ n >= 128 => L[n] = <<128 + (n % 128)>> \o L[n \div 128]
  <2>1. L[n] = IF n >= 128 THEN <<128 + (n % 128)>> \o L[n \div 128] ELSE <<n>>
    BY <1>4
  <2>2. n < 128 => ~(n >= 128)
    OBVIOUS
  <2> QED BY <2>1, <2>2
<1> DEFINE T == {n \in Nat : L[n] \in Seq(Nat)}
<1>6. ASSUME NEW n \in Nat, \A m \in Nat : m < n => m \in T
      PROVE  n \in T
  <2>1. CASE n < 128
    <3>1. L[n] = <<n>>
      BY <2>1, <1>5
    <3>2. <<n>> \in Seq(Nat)
      OBVIOUS
    <3> QED BY <3>1, <3>2
  <2>2. CASE n >= 128
    <3>1. n \div 128 \in Nat /\ n \div 128 < n
      BY <2>2
    <3>2. L[n \div 128] \in Seq(Nat) /\ <<128 + (n % 128)>> \in Seq(Nat)
      BY <3>1, <1>6
    <3>3. L[n] = <<128 + (n % 128)>> \o L[n \div 128]
      BY <2>2, <1>5
    <3> DEFINE t == L[n \div 128]
    <3> HIDE DEF t
    <3>4. <<128 + (n % 128)>> \o t \in Seq(Nat)
      BY <3>2 DEF t
    <3> QED BY <3>3, <3>4 DEF t
  <2> QED BY <2>1, <2>2
<1>7. \A n \in Nat : n \in T
  <2> HIDE DEF T
  <2> QED BY <1>6, StrongInduction
<1> QED BY <1>5, <1>7 DEF L

\* The recursion of Value, byte by byte, has a solution.
LEMMA ValueEquation ==
    \A b \in Seq(Nat) : /\ Value[b] \in Nat
                        /\ b = <<>> => Value[b] = 0
                        /\ b # <<>> =>
                             Value[b] = (Head(b) % 128) + 128 * Value[Tail(b)]
<1> DEFINE D == Seq(Nat)
           L == Value
           mu == [b \in D |-> Len(b)]
           B == {<<>>}
           leaf == [b \in D |-> 0]
           pred == [b \in D |-> IF b = <<>> THEN <<>> ELSE Tail(b)]
           node == [p \in D \X Nat |->
                      IF p[1] = <<>> THEN 0 ELSE (Head(p[1]) % 128) + 128 * p[2]]
<1>0. \A b \in D : b # <<>> => Tail(b) \in D /\ Len(Tail(b)) < Len(b) /\ Head(b) \in Nat
  OBVIOUS
<1>1. PICK f \in [D -> Nat] :
        \A b \in D : f[b] = IF b \in B THEN leaf[b] ELSE node[<<b, f[pred[b]]>>]
  <2>1. mu \in [D -> Nat] /\ leaf \in [D -> Nat] /\ pred \in [D -> D]
    BY <1>0
  <2>2. node \in [D \X Nat -> Nat]
    <3> SUFFICES ASSUME NEW b \in D, NEW n \in Nat, b # <<>>
                 PROVE  (Head(b) % 128) + 128 * n \in Nat
      OBVIOUS
    <3> QED BY <1>0
  <2>3. \A b \in D : b \notin B => mu[pred[b]] < mu[b]
    BY <1>0
  <2> HIDE DEF mu, B, leaf, pred, node, D
  <2>4. Decreases(D, Nat, mu, B, leaf, pred, node)
    BY <2>1, <2>2, <2>3 DEF Decreases
  <2> QED BY <2>4, RecursiveFunction
<1>2. ASSUME NEW b \in D
      PROVE  f[b] = IF b = <<>> THEN 0 ELSE (Head(b) % 128) + 128 * f[Tail(b)]
  <2>1. CASE b = <<>>
    BY <2>1, <1>1
  <2>2. CASE b # <<>>
    <3>1. Tail(b) \in D /\ <<b, f[Tail(b)]>> \in D \X Nat
      BY <2>2, <1>0
    <3>2. f[b] = node[<<b, f[Tail(b)]>>]
      BY <2>2, <1>1
    <3> QED BY <2>2, <3>1, <3>2
  <2> QED BY <2>1, <2>2
<1>3. f = [b \in Seq(Nat) |-> IF b = <<>> THEN 0 ELSE (Head(b) % 128) + 128 * f[Tail(b)]]
  BY <1>2
<1>4. L = [b \in Seq(Nat) |-> IF b = <<>> THEN 0 ELSE (Head(b) % 128) + 128 * L[Tail(b)]]
  BY <1>3 DEF Value
<1> HIDE DEF L
<1>5. \A b \in D : L[b] = IF b = <<>> THEN 0 ELSE (Head(b) % 128) + 128 * L[Tail(b)]
  BY <1>4
<1> DEFINE T == {n \in Nat : \A b \in D : Len(b) = n => L[b] \in Nat}
<1>6. ASSUME NEW n \in Nat, \A m \in Nat : m < n => m \in T
      PROVE  n \in T
  <2> SUFFICES ASSUME NEW b \in D, Len(b) = n
               PROVE  L[b] \in Nat
    OBVIOUS
  <2>1. CASE b = <<>>
    BY <2>1, <1>5
  <2>2. CASE b # <<>>
    <3>1. Tail(b) \in D /\ Len(Tail(b)) \in Nat /\ Len(Tail(b)) < n /\ Head(b) \in Nat
      BY <2>2, <1>0
    <3>2. L[Tail(b)] \in Nat
      BY <3>1, <1>6
    <3>3. L[b] = (Head(b) % 128) + 128 * L[Tail(b)]
      BY <2>2, <1>5
    <3> HIDE DEF D
    <3> QED BY <3>1, <3>2, <3>3
  <2> QED BY <2>1, <2>2
<1>7. \A n \in Nat : n \in T
  <2> HIDE DEF T
  <2> QED BY <1>6, StrongInduction
<1> QED BY <1>5, <1>7 DEF L

\* A varint says what was put into it.
THEOREM VarintRoundTrip ==
    \A n \in Nat : Varint[n] # <<>> /\ Value[Varint[n]] = n
<1> DEFINE T == {n \in Nat : Varint[n] # <<>> /\ Value[Varint[n]] = n}
<1>1. ASSUME NEW n \in Nat, \A m \in Nat : m < n => m \in T
      PROVE  n \in T
  <2>1. CASE n < 128
    <3>1. Varint[n] = <<n>>
      BY <2>1, VarintEquation
    <3>2. <<n>> \in Seq(Nat) /\ <<n>> # <<>> /\ Head(<<n>>) = n /\ Tail(<<n>>) = <<>>
      OBVIOUS
    <3>3. <<>> \in Seq(Nat) /\ Value[<<>>] = 0
      <4>1. <<>> \in Seq(Nat)
        OBVIOUS
      <4> QED BY <4>1, ValueEquation
    <3>4. Value[<<n>>] = (n % 128) + 128 * 0
      <4> DEFINE b == <<n>>
      <4>1. b \in Seq(Nat) /\ b # <<>> /\ Head(b) = n /\ Tail(b) = <<>>
        BY <3>2
      <4> HIDE DEF b
      <4>2. Value[b] = (Head(b) % 128) + 128 * Value[Tail(b)]
        BY <4>1, ValueEquation
      <4> QED BY <3>3, <4>1, <4>2 DEF b
    <3>5. n % 128 = n
      BY <2>1
    <3> QED BY <3>1, <3>2, <3>4, <3>5
  <2>2. CASE n >= 128
    <3> DEFINE b == Varint[n]
               q == n \div 128
               t == Varint[q]
    <3>1. q \in Nat /\ q < n
      BY <2>2
    <3>2. t \in Seq(Nat) /\ Value[t] = q
      BY <3>1, <1>1, VarintEquation
    <3>3. b = <<128 + (n % 128)>> \o t
      BY <2>2, VarintEquation
    <3>4. 128 + (n % 128) \in Nat
      OBVIOUS
    <3>5. b \in Seq(Nat) /\ b # <<>> /\ Head(b) = 128 + (n % 128) /\ Tail(b) = t
      <4> HIDE DEF b, t
      <4> QED BY <3>2, <3>3, <3>4
    <3>6. Value[b] = ((128 + (n % 128)) % 128) + 128 * q
      <4> HIDE DEF b, t
      <4>1. Value[b] = (Head(b) % 128) + 128 * Value[Tail(b)]
        BY <3>5, ValueEquation
      <4> QED BY <3>2, <3>5, <4>1
    <3>7. ((128 + (n % 128)) % 128) + 128 * q = n
      OBVIOUS
    <3> QED BY <3>5, <3>6, <3>7
  <2> QED BY <2>1, <2>2
<1>2. \A n \in Nat : n \in T
  <2> HIDE DEF T
  <2> QED BY <1>1, StrongInduction
<1> QED BY <1>2

\* Seven halvings are one division by 128.
LEMMA Log2Below128 ==
    /\ \A n \in Nat : n < 128 => Log2FloorNonZero[n] \in 0..6
    /\ \A n \in Nat : n >= 128 =>
         Log2FloorNonZero[n] = 7 + Log2FloorNonZero[n \div 128]
<1> DEFINE L == Log2FloorNonZero
<1>1. \A n \in Nat : /\ L[n] \in Nat
                     /\ n < 2 => L[n] = 0
                     /\ n >= 2 => L[n] = 1 + L[n \div 2]
  BY Log2Equation
<1> HIDE DEF L
<1>2. \A n \in Nat : n < 4 => L[n] \in 0..1
  BY <1>1
<1>3. \A n \in Nat : n < 8 => L[n] \in 0..2
  BY <1>1, <1>2
<1>4. \A n \in Nat : n < 16 => L[n] \in 0..3
  BY <1>1, <1>3
<1>5. \A n \in Nat : n < 32 => L[n] \in 0..4
  BY <1>1, <1>4
<1>6. \A n \in Nat : n < 64 => L[n] \in 0..5
  BY <1>1, <1>5
<1>7. \A n \in Nat : n < 128 => L[n] \in 0..6
  BY <1>1, <1>6
<1>8. ASSUME NEW n \in Nat, n >= 128
      PROVE  L[n] = 7 + L[n \div 128]
  <2> DEFINE a == n \div 2
             b == n \div 4
             c == n \div 8
             d == n \div 16
             e == n \div 32
             f == n \div 64
             g == n \div 128
  <2>1. /\ a \in Nat /\ b \in Nat /\ c \in Nat /\ d \in Nat /\ e \in Nat /\ f \in Nat
        /\ a >= 2 /\ b >= 2 /\ c >= 2 /\ d >= 2 /\ e >= 2 /\ f >= 2
    BY <1>8
  <2>2. a \div 2 = b /\ b \div 2 = c /\ c \div 2 = d
    OBVIOUS
  <2>3. d \div 2 = e /\ e \div 2 = f /\ f \div 2 = g
    OBVIOUS
  <2>4. L[n] = 1 + L[a]
    BY <1>1, <1>8
  <2> HIDE DEF a, b, c, d, e, f, g
  <2>5. L[a] = 1 + L[b] /\ L[b] = 1 + L[c] /\ L[c] = 1 + L[d]
    BY <1>1, <2>1, <2>2
  <2>6. L[d] = 1 + L[e] /\ L[e] = 1 + L[f] /\ L[f] = 1 + L[g]
    BY <1>1, <2>1, <2>3
  <2>7. L[g] \in Nat
    BY <1>1 DEF g
  <2> QED BY <1>1, <2>1, <2>4, <2>5, <2>6, <2>7 DEF g
<1> QED BY <1>7, <1>8 DEF L

\* A varint has one byte and one more for every seven bits.
LEMMA VarintLength ==
    \A n \in Nat : Len(Varint[n]) = (Log2FloorNonZero[n] \div 7) + 1
<1> DEFINE T == {n \in Nat : Len(Varint[n]) = (Log2FloorNonZero[n] \div 7) + 1}
<1>1. ASSUME NEW n \in Nat, \A m \in Nat : m < n => m \in T
      PROVE  n \in T
  <2>1. CASE n < 128
    <3>1. Varint[n] = <<n>>
      BY <2>1, VarintEquation
    <3>2. Log2FloorNonZero[n] \in 0..6
      BY <2>1, Log2Below128
    <3>3. \A k \in 0..6 : (k \div 7) + 1 = 1
      OBVIOUS
    <3>4. (Log2FloorNonZero[n] \div 7) + 1 = 1
      BY <3>2, <3>3
    <3> QED BY <3>1, <3>4
  <2>2. CASE n >= 128
    <3> DEFINE q == n \div 128
               t == Varint[q]
               k == Log2FloorNonZero[q]
    <3>1. q \in Nat /\ q < n
      BY <2>2
    <3>2. Len(t) = (k \div 7) + 1 /\ t \in Seq(Nat) /\ k \in Nat
      BY <3>1, <1>1, VarintEquation, Log2Equation
    <3>3. Varint[n] = <<128 + (n % 128)>> \o t
      BY <2>2, VarintEquation
    <3>4. Log2FloorNonZero[n] = 7 + k
      BY <2>2, Log2Below128
    <3>5. Len(Varint[n]) = 1 + Len(t)
      <4>1. <<128 + (n % 128)>> \in Seq(Nat) /\ Len(<<128 + (n % 128)>>) = 1
        OBVIOUS
      <4> HIDE DEF t
      <4> QED BY <4>1, <3>2, <3>3
    <3> HIDE DEF k, t
    <3>6. (7 + k) \div 7 = 1 + (k \div 7)
      BY <3>2
    <3> QED BY <3>2, <3>4, <3>5, <3>6
  <2> QED BY <2>1, <2>2
<1>2. \A n \in Nat : n \in T
  <2> HIDE DEF T
  <2> QED BY <1>1, StrongInduction
<1> QED BY <1>2

\* The size computed without a division by 7 is the length of the varint, for
\* every uint32.
THEOREM VarintSizeIsLength ==
    ASSUME NEW n \in Nat, n \div 65536 < 65536
    PROVE  VarintSize32(n) = Len(Varint[n]) /\ VarintSize32(n) \in 1..5
<1> DEFINE L == Log2FloorNonZero
<1>1. L[n] \in 0..31
  <2>1. \A k \in Nat : /\ k < 128 => L[k] \in 0..6
                       /\ k >= 128 => L[k] = 7 + L[k \div 128]
    BY Log2Below128
  <2>2. \A k \in Nat : L[k] \in Nat /\ (k < 16 => L[k] <= 3)
    <3>1. \A k \in Nat : L[k] \in Nat /\ (k < 2 => L[k] = 0) /\ (k >= 2 => L[k] = 1 + L[k \div 2])
      BY Log2Equation
    <3> HIDE DEF L
    <3>2. \A k \in Nat : k < 4 => L[k] \in 0..1
      BY <3>1
    <3>3. \A k \in Nat : k < 8 => L[k] \in 0..2
      BY <3>1, <3>2
    <3> QED BY <3>1, <3>3
  <2> DEFINE a == n \div 128
             b == a \div 128
             c == b \div 128
             d == c \div 128
  <2>3. a \in Nat /\ b \in Nat /\ c \in Nat /\ d \in Nat /\ d < 16
    OBVIOUS
  <2> HIDE DEF L
  <2>4. L[d] \in 0..3
    <3> HIDE DEF d
    <3> QED BY <2>2, <2>3
  <2>5. L[c] \in 0..10
    <3> HIDE DEF c
    <3> QED BY <2>1, <2>3, <2>4 DEF d
  <2>6. L[b] \in 0..17
    <3> HIDE DEF b
    <3> QED BY <2>1, <2>3, <2>5 DEF c
  <2>7. L[a] \in 0..24
    <3> HIDE DEF a
    <3> QED BY <2>1, <2>3, <2>6 DEF b
  <2> QED BY <2>1, <2>3, <2>7 DEF a
<1>2. L[IF n = 0 THEN 1 ELSE n] = L[n]
  BY Log2Equation
<1>3. VarintSize32(n) = (L[n] * 9 + 73) \div 64
  BY <1>2 DEF VarintSize32
<1> HIDE DEF L
<1>4. \A k \in 0..31 : (k * 9 + 73) \div 64 = (k \div 7) + 1 /\ (k \div 7) + 1 \in 1..5
  OBVIOUS
<1>5. Len(Varint[n]) = (L[n] \div 7) + 1
  BY VarintLength DEF L
<1>6. (L[n] * 9 + 73) \div 64 = (L[n] \div 7) + 1 /\ (L[n] \div 7) + 1 \in 1..5
  BY <1>1, <1>4
<1> QED BY <1>3, <1>5, <1>6

-----------------------------------------------------------------------------
(* Folds: what one more element does. *)

Plus(m, n) == m + n
NothingMerged == [ok |-> TRUE, parameter |-> EmptyParameter]
NothingParsed == [ok |-> TRUE, msg |-> Clear([statecode |-> 0])]

Sums == INSTANCE Folding WITH Op <- Plus, Base <- 0
Parameters == INSTANCE Folding WITH Op <- ParameterMerged, Base <- NothingMerged
Messages == INSTANCE Folding WITH Op <- Merged, Base <- NothingParsed

\* v is the sequence w of length n with one element more.
Extends(v, w, n) ==
    DOMAIN w = 1..n /\ DOMAIN v = 1..(n + 1) /\ \A i \in 1..n : v[i] = w[i]

\* A number more is added to the total.
LEMMA TotalStep ==
    ASSUME NEW n \in Nat, NEW w, NEW v, Extends(v, w, n)
    PROVE  /\ Total(v) = Total(w) + v[n + 1]
           /\ n = 0 => Total(w) = 0
<1>1. \A s : Sums!Fold(s) = Total(s)
  BY DEF Sums!Fold, Sums!FoldLeft, Sums!MapThenFoldSet, Sums!Max,
         Total, FoldLeft, MapThenFoldSet, Max, Plus
<1>2. Sums!Fold(v) = Plus(Sums!Fold(w), v[n + 1]) /\ (n = 0 => Sums!Fold(w) = 0)
  BY Sums!FoldStep DEF Extends
<1> QED BY <1>1, <1>2 DEF Plus

\* A field more of a parameter is merged into what was parsed.
LEMMA ParameterStep ==
    ASSUME NEW n \in Nat, NEW w, NEW v, Extends(v, w, n)
    PROVE  /\ ParameterParsed(v) = ParameterMerged(ParameterParsed(w), v[n + 1])
           /\ n = 0 => ParameterParsed(w) = NothingMerged
<1>1. \A s : Parameters!Fold(s) = ParameterParsed(s)
  BY DEF Parameters!Fold, Parameters!FoldLeft, Parameters!MapThenFoldSet, Parameters!Max,
         ParameterParsed, FoldLeft, MapThenFoldSet, Max, NothingMerged
<1>2. /\ Parameters!Fold(v) = ParameterMerged(Parameters!Fold(w), v[n + 1])
      /\ n = 0 => Parameters!Fold(w) = NothingMerged
  BY Parameters!FoldStep DEF Extends
<1> QED BY <1>1, <1>2

\* A field more of a message is merged into what was parsed; what the object
\* held before is cleared.
LEMMA MessageStep ==
    ASSUME NEW m, NEW n \in Nat, NEW w, NEW v, Extends(v, w, n)
    PROVE  /\ ParseFromArray(m, v) = Merged(ParseFromArray(m, w), v[n + 1])
           /\ n = 0 => ParseFromArray(m, w) = NothingParsed
<1>1. \A s : Messages!Fold(s) = ParseFromArray(m, s)
  <2>1. NothingParsed = [ok |-> TRUE, msg |-> Clear(m)]
    BY DEF NothingParsed, Clear
  <2> QED BY <2>1
     DEF Messages!Fold, Messages!FoldLeft, Messages!MapThenFoldSet, Messages!Max,
         ParseFromArray, FoldLeft, MapThenFoldSet, Max
<1>2. /\ Messages!Fold(v) = Merged(Messages!Fold(w), v[n + 1])
      /\ n = 0 => Messages!Fold(w) = NothingParsed
  BY Messages!FoldStep DEF Extends
<1> QED BY <1>1, <1>2

-----------------------------------------------------------------------------
(* Sizes. *)

FieldBytes(f) == Len(f.tag) + Len(f.length) + f.bytes

\* A field more has its bytes.
LEMMA BytesStep ==
    ASSUME NEW n \in Nat, NEW w, NEW v, Extends(v, w, n)
    PROVE  /\ Bytes(v) = Bytes(w) + FieldBytes(v[n + 1])
           /\ n = 0 => Bytes(w) = 0
<1> DEFINE a == [i \in DOMAIN w |-> FieldBytes(w[i])]
           b == [i \in DOMAIN v |-> FieldBytes(v[i])]
<1>1. Bytes(w) = Total(a) /\ Bytes(v) = Total(b)
  BY DEF Bytes, FieldBytes
<1>2. Extends(b, a, n) /\ b[n + 1] = FieldBytes(v[n + 1])
  BY DEF Extends
<1> HIDE DEF a, b
<1> QED BY <1>1, <1>2, TotalStep

\* The bytes of two pieces are those of one and those of the other.
LEMMA BytesConcat ==
    ASSUME NEW X, \A f \in X : FieldBytes(f) \in Nat, NEW a \in Seq(X)
    PROVE  \A b \in Seq(X) : Bytes(b) \in Nat /\ Bytes(a \o b) = Bytes(a) + Bytes(b)
<1> DEFINE T == {n \in Nat : \A b \in Seq(X) : Len(b) = n =>
                               /\ Bytes(b) \in Nat
                               /\ Bytes(a) \in Nat => Bytes(a \o b) = Bytes(a) + Bytes(b)}
<1>1. \A v : Extends(v, <<>>, 0) => Bytes(<<>>) = 0
  BY BytesStep
<1>2. Bytes(<<>>) = 0
  <2>1. Extends([i \in 1..1 |-> 0], <<>>, 0)
    BY DEF Extends
  <2> QED BY <1>1, <2>1
<1>3. 0 \in T
  <2> SUFFICES ASSUME NEW b \in Seq(X), Len(b) = 0
               PROVE  /\ Bytes(b) \in Nat
                      /\ Bytes(a) \in Nat => Bytes(a \o b) = Bytes(a) + Bytes(b)
    OBVIOUS
  <2>1. b = <<>> /\ a \o b = a
    OBVIOUS
  <2>2. Bytes(b) = 0 /\ Bytes(a \o b) = Bytes(a)
    BY <1>2, <2>1
  <2> QED BY <2>2
<1>4. ASSUME NEW n \in Nat, n \in T PROVE n + 1 \in T
  <2> SUFFICES ASSUME NEW b \in Seq(X), Len(b) = n + 1
               PROVE  /\ Bytes(b) \in Nat
                      /\ Bytes(a) \in Nat => Bytes(a \o b) = Bytes(a) + Bytes(b)
    OBVIOUS
  <2> DEFINE c == [i \in 1..n |-> b[i]]
  <2>1. c \in Seq(X) /\ Len(c) = n /\ b[n + 1] \in X
    OBVIOUS
  <2>2. Extends(b, c, n)
    BY DEF Extends
  <2>3. Extends(a \o b, a \o c, Len(a) + n)
    BY <2>1 DEF Extends
  <2>4. (a \o b)[Len(a) + n + 1] = b[n + 1]
    OBVIOUS
  <2> HIDE DEF c
  <2>5. Bytes(b) = Bytes(c) + FieldBytes(b[n + 1])
    BY <2>2, BytesStep
  <2>6. Bytes(a \o b) = Bytes(a \o c) + FieldBytes(b[n + 1])
    <3> DEFINE k == Len(a) + n
               v == a \o b
               w == a \o c
    <3>1. k \in Nat /\ Extends(v, w, k) /\ v[k + 1] = b[n + 1]
      BY <2>3, <2>4
    <3> HIDE DEF k, v, w
    <3>2. Bytes(v) = Bytes(w) + FieldBytes(b[n + 1])
      BY <3>1, BytesStep
    <3> QED BY <3>2 DEF v, w
  <2>7. Bytes(c) \in Nat /\ (Bytes(a) \in Nat => Bytes(a \o c) = Bytes(a) + Bytes(c))
    BY <1>4, <2>1
  <2>8. FieldBytes(b[n + 1]) \in Nat
    BY <2>1
  <2> QED BY <2>5, <2>6, <2>7, <2>8
<1> HIDE DEF T
<1>5. \A n \in Nat : n \in T
  BY <1>3, <1>4, Induction
<1>6. \A b \in Seq(X) : Bytes(b) \in Nat
  BY <1>5 DEF T
<1> QED BY <1>5, <1>6 DEF T

Parameter == [key : Strings, value : Strings]

StringField(tag, s) ==
    [tag |-> Varint[tag], length |-> Varint[Size[s]], bytes |-> Size[s], body |-> s]
StatusField(c) ==
    [tag |-> Varint[8], length |-> <<>>, bytes |-> Len(Varint[c]), body |-> Varint[c]]

StringFields == {StringField(tag, s) : tag \in {10, 18, 170}, s \in Strings}
Field ==
    StringFields \cup {ParameterField(p) : p \in Parameter}
      \cup {StatusField(c) : c \in Codes}

\* The tags of the first fifteen field numbers take a byte, the others two.
LEMMA TagLengths ==
    /\ Len(Varint[8]) = 1 /\ Len(Varint[10]) = 1 /\ Len(Varint[18]) = 1
    /\ Len(Varint[162]) = 2 /\ Len(Varint[170]) = 2
<1>1. \A n \in Nat : /\ n < 128 => Log2FloorNonZero[n] \in 0..6
                     /\ n >= 128 => Log2FloorNonZero[n] = 7 + Log2FloorNonZero[n \div 128]
  BY Log2Below128
<1>2. \A n \in Nat : Len(Varint[n]) = (Log2FloorNonZero[n] \div 7) + 1
  BY VarintLength
<1>3. \A n \in Nat : n < 128 => Len(Varint[n]) = 1
  <2> SUFFICES ASSUME NEW n \in Nat, n < 128 PROVE Len(Varint[n]) = 1
    OBVIOUS
  <2>1. Varint[n] = <<n>>
    BY VarintEquation
  <2> QED BY <2>1
<1>4. \A n \in Nat : n >= 128 /\ n < 256 => Len(Varint[n]) = 2
  <2> SUFFICES ASSUME NEW n \in Nat, n >= 128, n < 256 PROVE Len(Varint[n]) = 2
    OBVIOUS
  <2>1. n \div 128 = 1
    OBVIOUS
  <2>2. Varint[n] = <<128 + (n % 128)>> \o Varint[1] /\ Varint[1] = <<1>>
    <3>1. Varint[n] = <<128 + (n % 128)>> \o Varint[n \div 128]
      BY VarintEquation
    <3>2. Varint[1] = <<1>>
      <4>1. 1 \in Nat /\ 1 < 128
        OBVIOUS
      <4> QED BY <4>1, VarintEquation
    <3> QED BY <2>1, <3>1, <3>2
  <2>3. 128 + (n % 128) \in Nat
    OBVIOUS
  <2> QED BY <2>2, <2>3
<1> QED BY <1>3, <1>4

\* The number of bytes a varint needs is a natural.
LEMMA VarintSizeNat == \A n \in Nat : VarintSize32(n) \in Nat
<1> SUFFICES ASSUME NEW n \in Nat PROVE VarintSize32(n) \in Nat
  OBVIOUS
<1> DEFINE k == Log2FloorNonZero[IF n = 0 THEN 1 ELSE n]
<1>1. k \in Nat
  <2>1. (IF n = 0 THEN 1 ELSE n) \in Nat
    OBVIOUS
  <2> QED BY <2>1, Log2Equation
<1>2. VarintSize32(n) = (k * 9 + 73) \div 64
  BY DEF VarintSize32
<1> HIDE DEF k
<1> QED BY <1>1, <1>2

\* What fits in a parameter fits in an int.
LEMMA StringFits ==
    ASSUME NEW s \in Strings
    PROVE  /\ Size[s] \in Nat /\ Size[s] \div 65536 < 65536
           /\ LengthDelimitedSize(Size[s]) = Size[s] + Len(Varint[Size[s]])
           /\ Len(Varint[Size[s]]) \in Nat
<1>1. Size[s] \in Nat /\ Empty \in Strings /\ Size[Empty] = 0
  BY StringsAssumption
<1>2. ParameterSize([key |-> s, value |-> Empty]) <= 2147483647
  BY <1>1, SizesAssumption
<1>3. ParameterSize([key |-> s, value |-> Empty]) = TextSize(1, s) + 0
  BY <1>1 DEF ParameterSize, TextSize
<1>4. Size[s] <= TextSize(1, s) /\ TextSize(1, s) \in Nat
  <2>1. VarintSize32(Size[s]) \in Nat
    BY <1>1, VarintSizeNat
  <2> QED BY <1>1, <2>1 DEF TextSize, LengthDelimitedSize
<1>5. Size[s] <= 2147483647
  BY <1>1, <1>2, <1>3, <1>4
<1>6. Size[s] \div 65536 < 65536
  BY <1>1, <1>5
<1>7. VarintSize32(Size[s]) = Len(Varint[Size[s]]) /\ VarintSize32(Size[s]) \in 1..5
  BY <1>1, <1>6, VarintSizeIsLength
<1> QED BY <1>1, <1>6, <1>7 DEF LengthDelimitedSize

\* A field of one string, if it is not left out.
LEMMA TextFields ==
    ASSUME NEW tag \in {10, 18, 170}, NEW s \in Strings
    PROVE  /\ Size[s] > 0 => Text(tag, s) = <<StringField(tag, s)>>
           /\ ~(Size[s] > 0) => Text(tag, s) = <<>>
           /\ StringField(tag, s) \in StringFields
           /\ Text(tag, s) \in Seq(StringFields)
<1>1. StringField(tag, s) \in StringFields
  BY DEF StringFields
<1>2. Size[s] > 0 => Text(tag, s) = <<StringField(tag, s)>>
  BY DEF Text, StringField
<1>3. ~(Size[s] > 0) => Text(tag, s) = <<>>
  BY DEF Text
<1>4. Text(tag, s) \in Seq(StringFields)
  <2> DEFINE f == StringField(tag, s)
  <2> HIDE DEF f
  <2>1. <<f>> \in Seq(StringFields) /\ <<>> \in Seq(StringFields)
    BY <1>1 DEF f
  <2> QED BY <1>2, <1>3, <2>1 DEF f
<1> QED BY <1>1, <1>2, <1>3, <1>4

\* The bytes of a string field.
LEMMA StringFieldBytes ==
    ASSUME NEW tag \in {10, 18, 170}, NEW s \in Strings
    PROVE  FieldBytes(StringField(tag, s)) = Len(Varint[tag]) + LengthDelimitedSize(Size[s])
           /\ FieldBytes(StringField(tag, s)) \in Nat
<1>1. /\ Size[s] \in Nat /\ Len(Varint[Size[s]]) \in Nat
      /\ LengthDelimitedSize(Size[s]) = Size[s] + Len(Varint[Size[s]])
  BY StringFits
<1>2. Len(Varint[tag]) \in {1, 2}
  BY TagLengths
<1>3. FieldBytes(StringField(tag, s)) = Len(Varint[tag]) + Len(Varint[Size[s]]) + Size[s]
  BY DEF FieldBytes, StringField
<1> DEFINE k == Len(Varint[Size[s]])
           t == Len(Varint[tag])
           n == Size[s]
<1> HIDE DEF k, t, n
<1>4. k \in Nat /\ t \in Nat /\ n \in Nat
  BY <1>1, <1>2 DEF k, t, n
<1>5. FieldBytes(StringField(tag, s)) = t + k + n
  BY <1>3 DEF k, t, n
<1>6. LengthDelimitedSize(Size[s]) = n + k
  BY <1>1 DEF k, n
<1>7. FieldBytes(StringField(tag, s)) = t + LengthDelimitedSize(Size[s])
  BY <1>4, <1>5, <1>6
<1>8. FieldBytes(StringField(tag, s)) \in Nat
  BY <1>4, <1>5
<1> QED BY <1>7, <1>8 DEF t

\* No field, no bytes.
LEMMA BytesOfNothing == Bytes(<<>>) = 0
<1>1. Extends([i \in 1..1 |-> 0], <<>>, 0)
  BY DEF Extends
<1> QED BY <1>1, BytesStep

\* One field, its bytes.
LEMMA BytesOfOne ==
    ASSUME NEW f, FieldBytes(f) \in Nat
    PROVE  Bytes(<<f>>) = FieldBytes(f)
<1>1. Extends(<<f>>, <<>>, 0) /\ <<f>>[0 + 1] = f
  BY DEF Extends
<1>2. Bytes(<<f>>) = Bytes(<<>>) + FieldBytes(f)
  BY <1>1, BytesStep
<1> QED BY <1>2, BytesOfNothing

\* The bytes of a string are those that TextSize counts.
LEMMA TextBytes ==
    ASSUME NEW tag \in {10, 18, 170}, NEW s \in Strings
    PROVE  Bytes(Text(tag, s)) = TextSize(Len(Varint[tag]), s)
           /\ Bytes(Text(tag, s)) \in Nat
<1>1. CASE Size[s] > 0
  <2>1. Text(tag, s) = <<StringField(tag, s)>>
    BY <1>1, TextFields
  <2>2. /\ FieldBytes(StringField(tag, s)) \in Nat
        /\ FieldBytes(StringField(tag, s)) = Len(Varint[tag]) + LengthDelimitedSize(Size[s])
    BY StringFieldBytes
  <2>3. TextSize(Len(Varint[tag]), s) = Len(Varint[tag]) + LengthDelimitedSize(Size[s])
    BY <1>1 DEF TextSize
  <2>4. Bytes(<<StringField(tag, s)>>) = FieldBytes(StringField(tag, s))
    BY <2>2, BytesOfOne
  <2> QED BY <2>1, <2>2, <2>3, <2>4
<1>2. CASE ~(Size[s] > 0)
  <2>1. Text(tag, s) = <<>> /\ TextSize(Len(Varint[tag]), s) = 0
    BY <1>2, TextFields DEF TextSize
  <2> QED BY <2>1, BytesOfNothing
<1> QED BY <1>1, <1>2

\* The size of a parameter that ByteSizeLong caches is the number of its bytes,
\* and the field around it has two bytes of tag and its own length besides.
LEMMA ParameterBytes ==
    ASSUME NEW p \in Parameter
    PROVE  /\ Text(10, p.key) \o Text(18, p.value) \in Seq(StringFields)
           /\ Bytes(Text(10, p.key) \o Text(18, p.value)) = ParameterSize(p)
           /\ ParameterSize(p) \in Nat
           /\ FieldBytes(ParameterField(p)) = 2 + LengthDelimitedSize(ParameterSize(p))
           /\ FieldBytes(ParameterField(p)) \in Nat
<1> DEFINE a == Text(10, p.key)
           b == Text(18, p.value)
<1>1. p.key \in Strings /\ p.value \in Strings /\ p = [key |-> p.key, value |-> p.value]
  BY DEF Parameter
<1>2. a \in Seq(StringFields) /\ b \in Seq(StringFields)
  BY <1>1, TextFields
<1>3. \A f \in StringFields : FieldBytes(f) \in Nat
  BY StringFieldBytes DEF StringFields
<1>4. /\ Bytes(a) = TextSize(1, p.key) /\ Bytes(a) \in Nat
      /\ Bytes(b) = TextSize(1, p.value) /\ Bytes(b) \in Nat
  <2>1. Len(Varint[10]) = 1 /\ Len(Varint[18]) = 1
    BY TagLengths
  <2>2. Bytes(a) = TextSize(Len(Varint[10]), p.key) /\ Bytes(a) \in Nat
    BY <1>1, TextBytes
  <2>3. Bytes(b) = TextSize(Len(Varint[18]), p.value) /\ Bytes(b) \in Nat
    BY <1>1, TextBytes
  <2> QED BY <2>1, <2>2, <2>3
<1> HIDE DEF a, b
<1>5. Bytes(a \o b) = Bytes(a) + Bytes(b)
  BY <1>2, <1>3, BytesConcat
<1>6. Bytes(a \o b) = ParameterSize(p) /\ ParameterSize(p) \in Nat
  BY <1>4, <1>5 DEF ParameterSize
<1>7. ParameterSize(p) <= 2147483647
  BY <1>1, SizesAssumption
<1> DEFINE n == ParameterSize(p)
<1>8. VarintSize32(n) = Len(Varint[n]) /\ VarintSize32(n) \in 1..5
  <2>1. n \in Nat /\ n \div 65536 < 65536
    BY <1>6, <1>7
  <2> HIDE DEF n
  <2> QED BY <2>1, VarintSizeIsLength
<1>9. FieldBytes(ParameterField(p)) = 2 + Len(Varint[n]) + n
  BY <1>6, TagLengths DEF FieldBytes, ParameterField, a, b
<1>10. /\ FieldBytes(ParameterField(p)) = 2 + LengthDelimitedSize(n)
       /\ FieldBytes(ParameterField(p)) \in Nat
  <2> HIDE DEF n
  <2>1. n \in Nat
    BY <1>6 DEF n
  <2> QED BY <1>8, <1>9, <2>1 DEF LengthDelimitedSize
<1> QED BY <1>2, <1>6, <1>10 DEF a, b

Message == [statecode : Codes \cup {0}, apiname : Strings,
            parametergroup : Seq(Parameter), bytedata : Strings]

Status(m) == IF m.statecode # 0 THEN <<StatusField(m.statecode)>> ELSE <<>>
ParameterFields(ps) == [i \in 1..Len(ps) |-> ParameterField(ps[i])]

\* Every field has a number of bytes.
LEMMA FieldBytesNat ==
    /\ \A f \in Field : FieldBytes(f) \in Nat
    /\ \A c \in Codes : FieldBytes(StatusField(c)) = 1 + VarintSize32(c)
<1>1. ASSUME NEW c \in Codes
      PROVE  /\ FieldBytes(StatusField(c)) = 1 + VarintSize32(c)
             /\ FieldBytes(StatusField(c)) \in Nat
  <2>1. c \in Nat /\ c \div 65536 < 65536
    BY CodesAssumption
  <2>2. VarintSize32(c) = Len(Varint[c]) /\ VarintSize32(c) \in 1..5
    BY <2>1, VarintSizeIsLength
  <2>3. FieldBytes(StatusField(c)) = 1 + 0 + Len(Varint[c])
    BY TagLengths DEF FieldBytes, StatusField
  <2> QED BY <2>2, <2>3
<1>2. ASSUME NEW f \in StringFields PROVE FieldBytes(f) \in Nat
  BY StringFieldBytes DEF StringFields
<1>3. ASSUME NEW p \in Parameter PROVE FieldBytes(ParameterField(p)) \in Nat
  BY ParameterBytes
<1> QED BY <1>1, <1>2, <1>3 DEF Field

\* The parameters of a message have the bytes that the loop of ByteSizeLong adds.
LEMMA ParametersBytes ==
    \A ps \in Seq(Parameter) :
      /\ ParameterFields(ps) \in Seq(Field)
      /\ Bytes(ParameterFields(ps)) \in Nat
      /\ Bytes(ParameterFields(ps)) =
           Total([i \in DOMAIN ps |-> 2 + LengthDelimitedSize(ParameterSize(ps[i]))])
<1> DEFINE Sizes(ps) == [i \in DOMAIN ps |-> 2 + LengthDelimitedSize(ParameterSize(ps[i]))]
           T == {n \in Nat : \A ps \in Seq(Parameter) : Len(ps) = n =>
                               /\ Bytes(ParameterFields(ps)) \in Nat
                               /\ Bytes(ParameterFields(ps)) = Total(Sizes(ps))}
<1>1. \A ps \in Seq(Parameter) : ParameterFields(ps) \in Seq(Field)
  <2> SUFFICES ASSUME NEW ps \in Seq(Parameter) PROVE ParameterFields(ps) \in Seq(Field)
    OBVIOUS
  <2>1. \A i \in 1..Len(ps) : ParameterField(ps[i]) \in Field
    BY DEF Field
  <2> QED BY <2>1 DEF ParameterFields
<1>2. ASSUME NEW n \in Nat, NEW ps \in Seq(Parameter), Len(ps) = n + 1
      PROVE  LET qs == [i \in 1..n |-> ps[i]]
             IN /\ qs \in Seq(Parameter) /\ Len(qs) = n
                /\ Bytes(ParameterFields(ps)) =
                     Bytes(ParameterFields(qs)) + FieldBytes(ParameterField(ps[n + 1]))
                /\ Total(Sizes(ps)) =
                     Total(Sizes(qs)) + FieldBytes(ParameterField(ps[n + 1]))
                /\ FieldBytes(ParameterField(ps[n + 1])) \in Nat
                /\ n = 0 => Bytes(ParameterFields(qs)) = 0 /\ Total(Sizes(qs)) = 0
  <2> DEFINE qs == [i \in 1..n |-> ps[i]]
             v == ParameterFields(ps)
             w == ParameterFields(qs)
             b == Sizes(ps)
             a == Sizes(qs)
  <2>1. qs \in Seq(Parameter) /\ Len(qs) = n /\ ps[n + 1] \in Parameter
    BY <1>2
  <2>2. Extends(v, w, n) /\ v[n + 1] = ParameterField(ps[n + 1])
    BY <1>2, <2>1 DEF Extends, ParameterFields
  <2>3. Extends(b, a, n) /\ b[n + 1] = 2 + LengthDelimitedSize(ParameterSize(ps[n + 1]))
    BY <1>2, <2>1 DEF Extends
  <2>4. /\ FieldBytes(ParameterField(ps[n + 1])) = 2 + LengthDelimitedSize(ParameterSize(ps[n + 1]))
        /\ FieldBytes(ParameterField(ps[n + 1])) \in Nat
    BY <2>1, ParameterBytes
  <2> HIDE DEF v, w, a, b
  <2>5. Bytes(v) = Bytes(w) + FieldBytes(ParameterField(ps[n + 1])) /\ (n = 0 => Bytes(w) = 0)
    BY <2>2, BytesStep
  <2>6. /\ Total(b) = Total(a) + FieldBytes(ParameterField(ps[n + 1]))
        /\ n = 0 => Total(a) = 0
    BY <2>3, <2>4, TotalStep
  <2> QED BY <2>1, <2>4, <2>5, <2>6 DEF v, w, a, b
<1>3. 0 \in T
  <2> SUFFICES ASSUME NEW ps \in Seq(Parameter), Len(ps) = 0
               PROVE  Bytes(ParameterFields(ps)) = 0 /\ Total(Sizes(ps)) = 0
    OBVIOUS
  <2>1. ps = <<>>
    OBVIOUS
  <2> DEFINE a == Sizes(ps)
             b == [i \in 1..1 |-> 0]
  <2>2. Extends(b, a, 0)
    BY <2>1 DEF Extends
  <2>3. ParameterFields(ps) = <<>>
    BY <2>1 DEF ParameterFields
  <2> HIDE DEF a, b
  <2>4. Total(a) = 0
    BY <2>2, TotalStep
  <2> QED BY <2>3, <2>4, BytesOfNothing DEF a
<1>4. ASSUME NEW n \in Nat, n \in T PROVE n + 1 \in T
  <2> SUFFICES ASSUME NEW ps \in Seq(Parameter), Len(ps) = n + 1
               PROVE  /\ Bytes(ParameterFields(ps)) \in Nat
                      /\ Bytes(ParameterFields(ps)) = Total(Sizes(ps))
    OBVIOUS
  <2> DEFINE qs == [i \in 1..n |-> ps[i]]
  <2>1. /\ qs \in Seq(Parameter) /\ Len(qs) = n
        /\ Bytes(ParameterFields(ps)) =
             Bytes(ParameterFields(qs)) + FieldBytes(ParameterField(ps[n + 1]))
        /\ Total(Sizes(ps)) =
             Total(Sizes(qs)) + FieldBytes(ParameterField(ps[n + 1]))
        /\ FieldBytes(ParameterField(ps[n + 1])) \in Nat
    <3> HIDE DEF Sizes
    <3> QED BY <1>2
  <2> HIDE DEF qs
  <2>2. Bytes(ParameterFields(qs)) \in Nat /\ Bytes(ParameterFields(qs)) = Total(Sizes(qs))
    BY <1>4, <2>1
  <2> HIDE DEF Sizes
  <2> QED BY <2>1, <2>2
<1>5. \A n \in Nat : n \in T
  <2> HIDE DEF T
  <2> QED BY <1>3, <1>4, Induction
<1> QED BY <1>1, <1>5

\* The parts of a serialised message.
LEMMA SerializedParts ==
    ASSUME NEW m \in Message
    PROVE  /\ SerializeToArray(m) =
                ((Status(m) \o Text(18, m.apiname)) \o ParameterFields(m.parametergroup))
                  \o Text(170, m.bytedata)
           /\ Status(m) \in Seq(Field) /\ Text(18, m.apiname) \in Seq(Field)
           /\ ParameterFields(m.parametergroup) \in Seq(Field)
           /\ Text(170, m.bytedata) \in Seq(Field)
<1>1. /\ m.statecode \in Codes \cup {0} /\ m.apiname \in Strings /\ m.bytedata \in Strings
      /\ m.parametergroup \in Seq(Parameter)
  BY DEF Message
<1>2. Status(m) \in Seq(Field)
  <2> DEFINE f == StatusField(m.statecode)
  <2>1. m.statecode # 0 => f \in Field
    BY <1>1 DEF Field
  <2> HIDE DEF f
  <2>2. <<>> \in Seq(Field) /\ (f \in Field => <<f>> \in Seq(Field))
    OBVIOUS
  <2> QED BY <2>1, <2>2 DEF Status, f
<1>3. \A x \in Seq(StringFields) : x \in Seq(Field)
  <2>1. StringFields \subseteq Field
    BY DEF Field
  <2> QED BY <2>1
<1>4. Text(18, m.apiname) \in Seq(StringFields) /\ Text(170, m.bytedata) \in Seq(StringFields)
  BY <1>1, TextFields
<1>5. ParameterFields(m.parametergroup) \in Seq(Field)
  BY <1>1, ParametersBytes
<1>6. SerializeToArray(m) =
        ((Status(m) \o Text(18, m.apiname)) \o ParameterFields(m.parametergroup))
          \o Text(170, m.bytedata)
  BY DEF SerializeToArray, Status, StatusField, ParameterFields
<1> QED BY <1>2, <1>3, <1>4, <1>5, <1>6

\* As many bytes are written as were announced.
THEOREM SerializedSize ==
    ASSUME NEW m \in Message
    PROVE  Bytes(SerializeToArray(m)) = ByteSizeLong(m)
<1> DEFINE a == Status(m)
           b == Text(18, m.apiname)
           c == ParameterFields(m.parametergroup)
           d == Text(170, m.bytedata)
           total == Total([i \in DOMAIN m.parametergroup |->
                             2 + LengthDelimitedSize(ParameterSize(m.parametergroup[i]))])
           status == IF m.statecode # 0 THEN 1 + VarintSize32(m.statecode) ELSE 0
<1>1. /\ m.statecode \in Codes \cup {0} /\ m.apiname \in Strings /\ m.bytedata \in Strings
      /\ m.parametergroup \in Seq(Parameter)
  BY DEF Message
<1>2. /\ SerializeToArray(m) = ((a \o b) \o c) \o d
      /\ a \in Seq(Field) /\ b \in Seq(Field) /\ c \in Seq(Field) /\ d \in Seq(Field)
  BY SerializedParts
<1>3. \A f \in Field : FieldBytes(f) \in Nat
  BY FieldBytesNat
<1>4. Bytes(a) = status
  <2>1. CASE m.statecode # 0
    <3>1. m.statecode \in Codes
      BY <1>1, <2>1
    <3>2. /\ FieldBytes(StatusField(m.statecode)) = 1 + VarintSize32(m.statecode)
          /\ StatusField(m.statecode) \in Field
      BY <3>1, FieldBytesNat DEF Field
    <3>3. Bytes(<<StatusField(m.statecode)>>) = FieldBytes(StatusField(m.statecode))
      BY <1>3, <3>2, BytesOfOne
    <3> QED BY <2>1, <3>2, <3>3 DEF Status
  <2>2. CASE m.statecode = 0
    BY <2>2, BytesOfNothing DEF Status
  <2> QED BY <2>1, <2>2
<1>5. Bytes(b) = TextSize(1, m.apiname)
  <2>1. Bytes(b) = TextSize(Len(Varint[18]), m.apiname)
    BY <1>1, TextBytes
  <2> QED BY <2>1, TagLengths
<1>6. Bytes(d) = TextSize(2, m.bytedata)
  <2>1. Bytes(d) = TextSize(Len(Varint[170]), m.bytedata)
    BY <1>1, TextBytes
  <2> QED BY <2>1, TagLengths
<1>7. Bytes(c) = total
  BY <1>1, ParametersBytes
<1>8. ByteSizeLong(m) = total + TextSize(1, m.apiname) + TextSize(2, m.bytedata) + status
  BY DEF ByteSizeLong
<1> HIDE DEF a, b, c, d, total, status
<1>9. /\ a \o b \in Seq(Field) /\ (a \o b) \o c \in Seq(Field)
  BY <1>2
<1>10. \A x, y \in Seq(Field) : /\ Bytes(x) \in Nat /\ Bytes(y) \in Nat
                                /\ Bytes(x \o y) = Bytes(x) + Bytes(y)
  BY <1>3, BytesConcat
<1>11. Bytes(((a \o b) \o c) \o d) = ((Bytes(a) + Bytes(b)) + Bytes(c)) + Bytes(d)
  <2>1. Bytes(a \o b) = Bytes(a) + Bytes(b)
    BY <1>2, <1>10
  <2>2. Bytes((a \o b) \o c) = Bytes(a \o b) + Bytes(c)
    BY <1>2, <1>9, <1>10
  <2>3. Bytes(((a \o b) \o c) \o d) = Bytes((a \o b) \o c) + Bytes(d)
    BY <1>2, <1>9, <1>10
  <2> QED BY <2>1, <2>2, <2>3
<1>12. Bytes(a) \in Nat /\ Bytes(b) \in Nat /\ Bytes(c) \in Nat /\ Bytes(d) \in Nat
  BY <1>2, <1>10
<1> QED BY <1>2, <1>4, <1>5, <1>6, <1>7, <1>8, <1>11, <1>12

-----------------------------------------------------------------------------
(* Parsing what was serialised. *)

Failed(r) == "ok" \in DOMAIN r /\ r.ok = FALSE

\* A tag is read as it was written.
LEMMA TagsRead ==
    /\ Value[Varint[8]] = 8 /\ Value[Varint[10]] = 10 /\ Value[Varint[18]] = 18
    /\ Value[Varint[162]] = 162 /\ Value[Varint[170]] = 170
  BY VarintRoundTrip

\* A string field has the length it announces.
LEMMA StringFieldWhole ==
    ASSUME NEW tag \in {10, 18, 170}, NEW s \in Strings
    PROVE  /\ Whole(StringField(tag, s)) /\ StringField(tag, s).body = s
           /\ Value[StringField(tag, s).tag] = tag
<1>1. Size[s] \in Nat
  BY StringFits
<1>2. Value[Varint[Size[s]]] = Size[s] /\ Value[Varint[tag]] = tag
  <2>1. tag \in Nat
    OBVIOUS
  <2> QED BY <1>1, <2>1, VarintRoundTrip
<1> QED BY <1>2 DEF Whole, StringField

\* Replacing the second part of a result.
LEMMA WithParameter ==
    ASSUME NEW o, NEW q, NEW x
    PROVE  [[ok |-> o, parameter |-> q] EXCEPT !.parameter = x] = [ok |-> o, parameter |-> x]
<1> DEFINE r == [ok |-> o, parameter |-> q]
           f == [i \in {"ok", "parameter"} |-> IF i = "parameter" THEN x ELSE r[i]]
<1>1. [r EXCEPT !.parameter = x] = f
  OBVIOUS
<1>2. [ok |-> o, parameter |-> x] = f
  OBVIOUS
<1> QED BY <1>1, <1>2

\* What a string of a parameter does to a parse that was well so far.
LEMMA ParameterMergedString ==
    ASSUME NEW tag \in {10, 18}, NEW s \in Strings, NEW k, NEW v
    PROVE  LET r == [ok |-> TRUE, parameter |-> [key |-> k, value |-> v]]
           IN /\ s \in Gbk => Failed(ParameterMerged(r, StringField(tag, s)))
              /\ s \notin Gbk => ParameterMerged(r, StringField(tag, s)) =
                   [ok |-> TRUE, parameter |-> [key |-> IF tag = 10 THEN s ELSE k,
                                                value |-> IF tag = 10 THEN v ELSE s]]
<1> DEFINE r == [ok |-> TRUE, parameter |-> [key |-> k, value |-> v]]
           f == StringField(tag, s)
<1>1. Whole(f) /\ f.body = s /\ Value[f.tag] = tag
  BY StringFieldWhole
<1> HIDE DEF f
<1>2. s \in Gbk => ParameterMerged(r, f) = [r EXCEPT !.ok = FALSE]
  BY <1>1 DEF ParameterMerged
<1>3. s \notin Gbk /\ tag = 10 => ParameterMerged(r, f) = [r EXCEPT !.parameter.key = s]
  BY <1>1 DEF ParameterMerged
<1>4. s \notin Gbk /\ tag # 10 => ParameterMerged(r, f) = [r EXCEPT !.parameter.value = s]
  BY <1>1 DEF ParameterMerged
<1>5. Failed([r EXCEPT !.ok = FALSE])
  BY DEF Failed
<1>6. /\ [r EXCEPT !.parameter.key = s] = [ok |-> TRUE, parameter |-> [key |-> s, value |-> v]]
      /\ [r EXCEPT !.parameter.value = s] = [ok |-> TRUE, parameter |-> [key |-> k, value |-> s]]
  <2> DEFINE q == [key |-> k, value |-> v]
  <2>1. /\ [q EXCEPT !.key = s] = [key |-> s, value |-> v]
        /\ [q EXCEPT !.value = s] = [key |-> k, value |-> s]
    OBVIOUS
  <2>2. /\ [r EXCEPT !.parameter.key = s] = [r EXCEPT !.parameter = [q EXCEPT !.key = s]]
        /\ [r EXCEPT !.parameter.value = s] = [r EXCEPT !.parameter = [q EXCEPT !.value = s]]
    OBVIOUS
  <2>3. \A x : [r EXCEPT !.parameter = x] = [ok |-> TRUE, parameter |-> x]
    <3>1. \A x : [[ok |-> TRUE, parameter |-> q] EXCEPT !.parameter = x] =
                 [ok |-> TRUE, parameter |-> x]
      <4> HIDE DEF q
      <4> QED BY WithParameter
    <3> QED BY <3>1
  <2> QED BY <2>1, <2>2, <2>3
<1> QED BY <1>2, <1>3, <1>4, <1>5, <1>6 DEF f

\* A parse that has failed stays so.
LEMMA ParameterMergedFailed ==
    ASSUME NEW r, Failed(r), NEW f
    PROVE  Failed(ParameterMerged(r, f))
<1>1. ParameterMerged(r, f) = [r EXCEPT !.ok = FALSE]
  BY DEF ParameterMerged, Failed
<1> QED BY <1>1 DEF Failed

\* One string more, unless it is empty and left out.
LEMMA ParameterParsedText ==
    ASSUME NEW w \in Seq(StringFields), NEW tag \in {10, 18}, NEW s \in Strings
    PROVE  /\ Size[s] > 0 => ParameterParsed(w \o Text(tag, s)) =
                               ParameterMerged(ParameterParsed(w), StringField(tag, s))
           /\ ~(Size[s] > 0) => ParameterParsed(w \o Text(tag, s)) = ParameterParsed(w)
<1> DEFINE f == StringField(tag, s)
           v == w \o Text(tag, s)
<1>1. /\ Size[s] > 0 => Text(tag, s) = <<f>>
      /\ ~(Size[s] > 0) => Text(tag, s) = <<>>
      /\ f \in StringFields
  BY TextFields
<1>2. CASE Size[s] > 0
  <2>1. v = w \o <<f>>
    BY <1>1, <1>2
  <2> HIDE DEF v, f
  <2>2. Extends(v, w, Len(w)) /\ v[Len(w) + 1] = f
    BY <1>1, <2>1 DEF Extends
  <2>3. ParameterParsed(v) = ParameterMerged(ParameterParsed(w), f)
    <3> DEFINE n == Len(w)
    <3>1. n \in Nat /\ Extends(v, w, n) /\ v[n + 1] = f
      BY <2>2
    <3> HIDE DEF n
    <3> QED BY <3>1, ParameterStep
  <2> QED BY <1>2, <2>3 DEF v, f
<1>3. CASE ~(Size[s] > 0)
  <2>1. v = w
    BY <1>1, <1>3
  <2> QED BY <1>3, <2>1
<1> QED BY <1>2, <1>3

\* A parameter arrives as it was, or is refused for its strings.
LEMMA ParameterArrives ==
    ASSUME NEW p \in Parameter
    PROVE  LET r == ParameterParsed(Text(10, p.key) \o Text(18, p.value))
           IN /\ p.key \notin Gbk /\ p.value \notin Gbk => r = [ok |-> TRUE, parameter |-> p]
              /\ p.key \in Gbk \/ p.value \in Gbk => Failed(r)
<1> DEFINE k == p.key
           v == p.value
           a == Text(10, k)
           r0 == ParameterParsed(<<>>)
           r1 == ParameterParsed(a)
           r2 == ParameterParsed(a \o Text(18, v))
<1>1. k \in Strings /\ v \in Strings /\ p = [key |-> k, value |-> v]
  BY DEF Parameter
<1>2. \A s \in Strings : /\ Size[s] \in Nat
                         /\ ~(Size[s] > 0) => s = Empty /\ s \notin Gbk
  BY StringsAssumption
<1>3. r0 = [ok |-> TRUE, parameter |-> [key |-> Empty, value |-> Empty]]
  <2>1. Extends([i \in 1..1 |-> 0], <<>>, 0)
    BY DEF Extends
  <2>2. r0 = NothingMerged
    BY <2>1, ParameterStep
  <2> QED BY <2>2 DEF NothingMerged, EmptyParameter
<1>4. /\ k \in Gbk => Failed(r1)
      /\ k \notin Gbk => r1 = [ok |-> TRUE, parameter |-> [key |-> k, value |-> Empty]]
  <2>1. <<>> \in Seq(StringFields) /\ <<>> \o a = a
    <3>1. a \in Seq(StringFields)
      BY <1>1, TextFields
    <3> HIDE DEF a
    <3> QED BY <3>1
  <2>2. /\ Size[k] > 0 => ParameterParsed(<<>> \o a) = ParameterMerged(r0, StringField(10, k))
        /\ ~(Size[k] > 0) => ParameterParsed(<<>> \o a) = r0
    BY <1>1, <2>1, ParameterParsedText
  <2>3. /\ Size[k] > 0 => r1 = ParameterMerged(r0, StringField(10, k))
        /\ ~(Size[k] > 0) => r1 = r0
    BY <2>1, <2>2
  <2>4. /\ k \in Gbk => Failed(ParameterMerged(r0, StringField(10, k)))
        /\ k \notin Gbk => ParameterMerged(r0, StringField(10, k)) =
             [ok |-> TRUE, parameter |-> [key |-> k, value |-> Empty]]
    <3> HIDE DEF r0
    <3> QED BY <1>1, <1>3, ParameterMergedString
  <2> HIDE DEF r0, r1, a
  <2> QED BY <1>1, <1>2, <1>3, <2>3, <2>4
<1>5. /\ Size[v] > 0 => r2 = ParameterMerged(r1, StringField(18, v))
      /\ ~(Size[v] > 0) => r2 = r1
  <2>1. a \in Seq(StringFields)
    BY <1>1, TextFields
  <2> HIDE DEF a
  <2> QED BY <1>1, <2>1, ParameterParsedText
<1>6. k \in Gbk => Failed(r2)
  <2>1. k \in Gbk => Failed(ParameterMerged(r1, StringField(18, v)))
    BY <1>4, ParameterMergedFailed
  <2> HIDE DEF r1, r2, a
  <2> QED BY <1>4, <1>5, <2>1
<1>7. ASSUME k \notin Gbk
      PROVE  /\ v \in Gbk => Failed(r2)
             /\ v \notin Gbk => r2 = [ok |-> TRUE, parameter |-> [key |-> k, value |-> v]]
  <2>1. r1 = [ok |-> TRUE, parameter |-> [key |-> k, value |-> Empty]]
    BY <1>4, <1>7
  <2>2. /\ v \in Gbk => Failed(ParameterMerged(r1, StringField(18, v)))
        /\ v \notin Gbk => ParameterMerged(r1, StringField(18, v)) =
             [ok |-> TRUE, parameter |-> [key |-> k, value |-> v]]
    <3> HIDE DEF r1
    <3> QED BY <1>1, <2>1, ParameterMergedString
  <2> HIDE DEF r1, r2, a
  <2> QED BY <1>1, <1>2, <1>5, <2>1, <2>2
<1> QED BY <1>1, <1>6, <1>7

Result(a, b, c, d) ==
    [ok |-> TRUE, msg |-> [statecode |-> a, apiname |-> b,
                           parametergroup |-> c, bytedata |-> d]]

\* Replacing both parts of a result.
LEMMA WithOkMsg ==
    ASSUME NEW o, NEW q, NEW y, NEW x
    PROVE  /\ [[ok |-> o, msg |-> q] EXCEPT !.ok = y, !.msg = x] = [ok |-> y, msg |-> x]
           /\ [[ok |-> o, msg |-> q] EXCEPT !.msg = x] = [ok |-> o, msg |-> x]
<1> DEFINE r == [ok |-> o, msg |-> q]
           f == [i \in {"ok", "msg"} |-> IF i = "msg" THEN x ELSE y]
           g == [i \in {"ok", "msg"} |-> IF i = "msg" THEN x ELSE r[i]]
<1>1. [r EXCEPT !.ok = y, !.msg = x] = f
  OBVIOUS
<1>2. [ok |-> y, msg |-> x] = f
  OBVIOUS
<1>3. [r EXCEPT !.msg = x] = g
  OBVIOUS
<1>4. [ok |-> o, msg |-> x] = g
  OBVIOUS
<1> QED BY <1>1, <1>2, <1>3, <1>4

\* Replacing one field of a message.
LEMMA WithField ==
    ASSUME NEW a, NEW b, NEW c, NEW d, NEW x
    PROVE  LET q == [statecode |-> a, apiname |-> b, parametergroup |-> c, bytedata |-> d]
           IN /\ [q EXCEPT !.statecode = x] = [statecode |-> x, apiname |-> b,
                                               parametergroup |-> c, bytedata |-> d]
              /\ [q EXCEPT !.apiname = x] = [statecode |-> a, apiname |-> x,
                                             parametergroup |-> c, bytedata |-> d]
              /\ [q EXCEPT !.parametergroup = x] = [statecode |-> a, apiname |-> b,
                                                    parametergroup |-> x, bytedata |-> d]
              /\ [q EXCEPT !.bytedata = x] = [statecode |-> a, apiname |-> b,
                                              parametergroup |-> c, bytedata |-> x]
<1> DEFINE q == [statecode |-> a, apiname |-> b, parametergroup |-> c, bytedata |-> d]
           D == {"statecode", "apiname", "parametergroup", "bytedata"}
           f(n) == [i \in D |-> IF i = n THEN x ELSE q[i]]
<1>1. [q EXCEPT !.statecode = x] = f("statecode")
  OBVIOUS
<1>2. [q EXCEPT !.apiname = x] = f("apiname")
  OBVIOUS
<1>3. [q EXCEPT !.parametergroup = x] = f("parametergroup")
  OBVIOUS
<1>4. [q EXCEPT !.bytedata = x] = f("bytedata")
  OBVIOUS
<1>5. f("statecode") = [statecode |-> x, apiname |-> b, parametergroup |-> c, bytedata |-> d]
  OBVIOUS
<1>6. f("apiname") = [statecode |-> a, apiname |-> x, parametergroup |-> c, bytedata |-> d]
  OBVIOUS
<1>7. f("parametergroup") = [statecode |-> a, apiname |-> b, parametergroup |-> x, bytedata |-> d]
  OBVIOUS
<1>8. f("bytedata") = [statecode |-> a, apiname |-> b, parametergroup |-> c, bytedata |-> x]
  OBVIOUS
<1> QED BY <1>1, <1>2, <1>3, <1>4, <1>5, <1>6, <1>7, <1>8

\* Setting the status of the message in a result.
LEMMA WithStatus ==
    ASSUME NEW a, NEW b, NEW c, NEW d, NEW x
    PROVE  [Result(a, b, c, d) EXCEPT !.msg.statecode = x] = Result(x, b, c, d)
<1> DEFINE q == [statecode |-> a, apiname |-> b, parametergroup |-> c, bytedata |-> d]
           r == [ok |-> TRUE, msg |-> q]
<1>1. [r EXCEPT !.msg.statecode = x] = [r EXCEPT !.msg = [q EXCEPT !.statecode = x]]
  OBVIOUS
<1> HIDE DEF q
<1>2. [r EXCEPT !.msg = [q EXCEPT !.statecode = x]] = [ok |-> TRUE, msg |-> [q EXCEPT !.statecode = x]]
  BY WithOkMsg
<1>3. [q EXCEPT !.statecode = x] = [statecode |-> x, apiname |-> b, parametergroup |-> c, bytedata |-> d]
  BY WithField DEF q
<1> QED BY <1>1, <1>2, <1>3 DEF Result, q

\* Setting its APIName, with the outcome of the verification.
LEMMA WithName ==
    ASSUME NEW a, NEW b, NEW c, NEW d, NEW x
    PROVE  /\ [Result(a, b, c, d) EXCEPT !.ok = TRUE, !.msg.apiname = x] = Result(a, x, c, d)
           /\ Failed([Result(a, b, c, d) EXCEPT !.ok = FALSE, !.msg.apiname = x])
<1> DEFINE q == [statecode |-> a, apiname |-> b, parametergroup |-> c, bytedata |-> d]
           r == [ok |-> TRUE, msg |-> q]
<1>1. [r EXCEPT !.ok = TRUE, !.msg.apiname = x] = [r EXCEPT !.ok = TRUE, !.msg = [q EXCEPT !.apiname = x]]
  OBVIOUS
<1>2. Failed([r EXCEPT !.ok = FALSE, !.msg.apiname = x])
  BY DEF Failed
<1> HIDE DEF q
<1>3. [r EXCEPT !.ok = TRUE, !.msg = [q EXCEPT !.apiname = x]] = [ok |-> TRUE, msg |-> [q EXCEPT !.apiname = x]]
  BY WithOkMsg
<1>4. [q EXCEPT !.apiname = x] = [statecode |-> a, apiname |-> x, parametergroup |-> c, bytedata |-> d]
  BY WithField DEF q
<1> QED BY <1>1, <1>2, <1>3, <1>4 DEF Result, q

\* Setting its ByteData.
LEMMA WithData ==
    ASSUME NEW a, NEW b, NEW c, NEW d, NEW x
    PROVE  [Result(a, b, c, d) EXCEPT !.msg.bytedata = x] = Result(a, b, c, x)
<1> DEFINE q == [statecode |-> a, apiname |-> b, parametergroup |-> c, bytedata |-> d]
           r == [ok |-> TRUE, msg |-> q]
<1>1. [r EXCEPT !.msg.bytedata = x] = [r EXCEPT !.msg = [q EXCEPT !.bytedata = x]]
  OBVIOUS
<1> HIDE DEF q
<1>2. [r EXCEPT !.msg = [q EXCEPT !.bytedata = x]] = [ok |-> TRUE, msg |-> [q EXCEPT !.bytedata = x]]
  BY WithOkMsg
<1>3. [q EXCEPT !.bytedata = x] = [statecode |-> a, apiname |-> b, parametergroup |-> c, bytedata |-> x]
  BY WithField DEF q
<1> QED BY <1>1, <1>2, <1>3 DEF Result, q

\* Adding a parameter to it.
LEMMA WithAdded ==
    ASSUME NEW a, NEW b, NEW c, NEW d, NEW x
    PROVE  /\ [Result(a, b, c, d) EXCEPT !.ok = TRUE, !.msg.parametergroup = Append(@, x)] =
                Result(a, b, Append(c, x), d)
           /\ Failed([Result(a, b, c, d) EXCEPT !.ok = FALSE, !.msg.parametergroup = Append(@, x)])
<1> DEFINE q == [statecode |-> a, apiname |-> b, parametergroup |-> c, bytedata |-> d]
           r == [ok |-> TRUE, msg |-> q]
           z == Append(c, x)
<1>1. r.msg.parametergroup = c
  OBVIOUS
<1>2. [r EXCEPT !.ok = TRUE, !.msg.parametergroup = Append(@, x)] = [r EXCEPT !.ok = TRUE, !.msg.parametergroup = z]
  BY <1>1
<1>3. Failed([r EXCEPT !.ok = FALSE, !.msg.parametergroup = Append(@, x)])
  BY DEF Failed
<1> HIDE DEF z
<1>4. [r EXCEPT !.ok = TRUE, !.msg.parametergroup = z] = [r EXCEPT !.ok = TRUE, !.msg = [q EXCEPT !.parametergroup = z]]
  OBVIOUS
<1> HIDE DEF q
<1>5. [r EXCEPT !.ok = TRUE, !.msg = [q EXCEPT !.parametergroup = z]] = [ok |-> TRUE, msg |-> [q EXCEPT !.parametergroup = z]]
  BY WithOkMsg
<1>6. [q EXCEPT !.parametergroup = z] = [statecode |-> a, apiname |-> b, parametergroup |-> z, bytedata |-> d]
  BY WithField DEF q
<1> QED BY <1>2, <1>3, <1>4, <1>5, <1>6 DEF Result, q, z

\* A status in a parse that was well so far.
LEMMA MergedStatus ==
    ASSUME NEW a, NEW b, NEW c, NEW d, NEW n \in Nat
    PROVE  Merged(Result(a, b, c, d), StatusField(n)) = Result(n, b, c, d)
<1> DEFINE r == Result(a, b, c, d)
           f == StatusField(n)
<1>1. r.ok = TRUE
  BY DEF Result
<1>2. [r EXCEPT !.msg.statecode = n] = Result(n, b, c, d)
  BY WithStatus
<1> HIDE DEF r
<1>3. Whole(f) /\ Value[f.tag] = 8 /\ f.body = Varint[n]
  BY TagsRead DEF StatusField, Whole
<1>4. Value[f.body] = n
  BY <1>3, VarintRoundTrip
<1> HIDE DEF f
<1>5. Merged(r, f) = [r EXCEPT !.msg.statecode = Value[f.body]]
  BY <1>1, <1>3 DEF Merged
<1> QED BY <1>2, <1>4, <1>5, Zenon DEF f, r

\* The two string fields of a message: APIName is verified, ByteData is not.
LEMMA MergedString ==
    ASSUME NEW a, NEW b, NEW c, NEW d, NEW s \in Strings
    PROVE  /\ s \notin Gbk =>
                Merged(Result(a, b, c, d), StringField(18, s)) = Result(a, s, c, d)
           /\ s \in Gbk => Failed(Merged(Result(a, b, c, d), StringField(18, s)))
           /\ Merged(Result(a, b, c, d), StringField(170, s)) = Result(a, b, c, s)
<1> DEFINE r == Result(a, b, c, d)
           f == StringField(18, s)
           g == StringField(170, s)
<1>1. r.ok = TRUE
  BY DEF Result
<1>2. /\ [r EXCEPT !.ok = TRUE, !.msg.apiname = s] = Result(a, s, c, d)
      /\ Failed([r EXCEPT !.ok = FALSE, !.msg.apiname = s])
      /\ [r EXCEPT !.msg.bytedata = s] = Result(a, b, c, s)
  <2>1. /\ [r EXCEPT !.ok = TRUE, !.msg.apiname = s] = Result(a, s, c, d)
        /\ Failed([r EXCEPT !.ok = FALSE, !.msg.apiname = s])
    BY WithName, Zenon
  <2>2. [r EXCEPT !.msg.bytedata = s] = Result(a, b, c, s)
    BY WithData
  <2> QED BY <2>1, <2>2, Zenon
<1> HIDE DEF r
<1>3. /\ Whole(f) /\ Value[f.tag] = 18 /\ f.body = s
      /\ Whole(g) /\ Value[g.tag] = 170 /\ g.body = s
  BY StringFieldWhole
<1> HIDE DEF f, g
<1>4. Merged(r, f) = [r EXCEPT !.ok = f.body \notin Gbk, !.msg.apiname = f.body]
  BY <1>1, <1>3 DEF Merged
<1>5. ASSUME s \notin Gbk PROVE Merged(r, f) = [r EXCEPT !.ok = TRUE, !.msg.apiname = s]
  BY <1>3, <1>4, <1>5
<1>6. ASSUME s \in Gbk PROVE Merged(r, f) = [r EXCEPT !.ok = FALSE, !.msg.apiname = s]
  BY <1>3, <1>4, <1>6
<1>7. Merged(r, g) = [r EXCEPT !.msg.bytedata = g.body]
  BY <1>1, <1>3 DEF Merged
<1> QED BY <1>2, <1>3, <1>5, <1>6, <1>7, Zenon DEF f, g, r

\* A parameter in a parse that was well so far.
LEMMA MergedParameter ==
    ASSUME NEW a, NEW b, NEW c, NEW d, NEW p \in Parameter
    PROVE  /\ p.key \notin Gbk /\ p.value \notin Gbk =>
                Merged(Result(a, b, c, d), ParameterField(p)) = Result(a, b, Append(c, p), d)
           /\ p.key \in Gbk \/ p.value \in Gbk =>
                Failed(Merged(Result(a, b, c, d), ParameterField(p)))
<1> DEFINE r == Result(a, b, c, d)
           f == ParameterField(p)
           w == Text(10, p.key) \o Text(18, p.value)
           q == ParameterParsed(w)
<1>1. r.ok = TRUE
  BY DEF Result
<1>2. ASSUME NEW x
      PROVE  /\ [r EXCEPT !.ok = TRUE, !.msg.parametergroup = Append(@, x)] =
                  Result(a, b, Append(c, x), d)
             /\ Failed([r EXCEPT !.ok = FALSE, !.msg.parametergroup = Append(@, x)])
  BY WithAdded, Zenon
<1> HIDE DEF r
<1>3. f = [tag |-> Varint[162], length |-> Varint[ParameterSize(p)],
           bytes |-> Bytes(w), body |-> w]
  BY DEF ParameterField
<1>4. Bytes(w) = ParameterSize(p) /\ ParameterSize(p) \in Nat
  BY ParameterBytes
<1>5. /\ p.key \notin Gbk /\ p.value \notin Gbk => q = [ok |-> TRUE, parameter |-> p]
      /\ p.key \in Gbk \/ p.value \in Gbk => Failed(q)
  BY ParameterArrives
<1> HIDE DEF f, w
<1>6. Whole(f) /\ Value[f.tag] = 162 /\ f.body = w
  <2>1. Value[Varint[ParameterSize(p)]] = ParameterSize(p)
    BY <1>4, VarintRoundTrip
  <2> QED BY <1>3, <1>4, <2>1, TagsRead DEF Whole
<1>7. Merged(r, f) = [r EXCEPT !.ok = q.ok, !.msg.parametergroup = Append(@, q.parameter)]
  BY <1>1, <1>6 DEF Merged
<1> HIDE DEF q
<1>8. CASE p.key \notin Gbk /\ p.value \notin Gbk
  <2>1. q.ok = TRUE /\ q.parameter = p
    BY <1>5, <1>8
  <2>2. Merged(r, f) = [r EXCEPT !.ok = TRUE, !.msg.parametergroup = Append(@, p)]
    BY <1>7, <2>1
  <2> QED BY <1>2, <1>8, <2>2, Zenon DEF f, r
<1>9. CASE p.key \in Gbk \/ p.value \in Gbk
  <2>1. q.ok = FALSE
    BY <1>5, <1>9 DEF Failed
  <2>2. Merged(r, f) = [r EXCEPT !.ok = FALSE, !.msg.parametergroup = Append(@, q.parameter)]
    BY <1>7, <2>1
  <2> QED BY <1>2, <1>9, <2>2, Zenon DEF f, r
<1> QED BY <1>8, <1>9

\* A parse that has failed stays so.
LEMMA MergedFailed ==
    ASSUME NEW r, Failed(r), NEW f
    PROVE  Failed(Merged(r, f))
<1>1. Merged(r, f) = [r EXCEPT !.ok = FALSE]
  BY DEF Merged, Failed
<1> QED BY <1>1 DEF Failed

\* Parsing one field more, and no field at all.
LEMMA ParsedOneMore ==
    ASSUME NEW x
    PROVE  /\ ParseFromArray(x, <<>>) = Result(0, Empty, <<>>, Empty)
           /\ \A w \in Seq(Field), f \in Field :
                ParseFromArray(x, w \o <<f>>) = Merged(ParseFromArray(x, w), f)
<1>1. ParseFromArray(x, <<>>) = Result(0, Empty, <<>>, Empty)
  <2>1. Extends([i \in 1..1 |-> 0], <<>>, 0)
    BY DEF Extends
  <2>2. \A v : Extends(v, <<>>, 0) => ParseFromArray(x, <<>>) = NothingParsed
    BY MessageStep
  <2>3. NothingParsed = Result(0, Empty, <<>>, Empty)
    BY DEF NothingParsed, Result, Clear
  <2> QED BY <2>1, <2>2, <2>3
<1>2. ASSUME NEW w \in Seq(Field), NEW f \in Field
      PROVE  ParseFromArray(x, w \o <<f>>) = Merged(ParseFromArray(x, w), f)
  <2> DEFINE n == Len(w)
             v == w \o <<f>>
  <2>1. n \in Nat /\ Extends(v, w, n) /\ v[n + 1] = f
    BY DEF Extends
  <2> HIDE DEF n, v
  <2>2. ParseFromArray(x, v) = Merged(ParseFromArray(x, w), f)
    BY <2>1, MessageStep
  <2> QED BY <2>2 DEF v
<1> QED BY <1>1, <1>2

\* The status comes first, unless it is 0 and left out.
LEMMA ParsedStatus ==
    ASSUME NEW x, NEW m \in Message
    PROVE  ParseFromArray(x, Status(m)) = Result(m.statecode, Empty, <<>>, Empty)
<1> DEFINE c == m.statecode
           f == StatusField(c)
           r == ParseFromArray(x, <<>>)
<1>1. c \in Codes \cup {0} /\ (c \in Codes => c \in Nat)
  BY CodesAssumption DEF Message
<1>2. r = Result(0, Empty, <<>>, Empty)
  BY ParsedOneMore
<1>3. CASE c # 0
  <2>1. f \in Field /\ Merged(Result(0, Empty, <<>>, Empty), f) = Result(c, Empty, <<>>, Empty)
    BY <1>1, <1>3, MergedStatus DEF Field
  <2>2. Status(m) = <<f>>
    BY <1>3 DEF Status
  <2> HIDE DEF f
  <2>3. <<>> \in Seq(Field) /\ <<f>> = <<>> \o <<f>>
    BY <2>1
  <2>4. ParseFromArray(x, <<>> \o <<f>>) = Merged(r, f)
    BY <2>1, <2>3, ParsedOneMore, Zenon
  <2> QED BY <1>2, <2>1, <2>2, <2>3, <2>4, Zenon
<1>4. CASE c = 0
  BY <1>2, <1>4 DEF Status
<1> QED BY <1>3, <1>4

\* A string more, unless it is empty and left out.
LEMMA ParsedText ==
    ASSUME NEW x, NEW w \in Seq(Field), NEW tag \in {18, 170}, NEW s \in Strings
    PROVE  /\ Size[s] > 0 => ParseFromArray(x, w \o Text(tag, s)) =
                               Merged(ParseFromArray(x, w), StringField(tag, s))
           /\ ~(Size[s] > 0) => ParseFromArray(x, w \o Text(tag, s)) = ParseFromArray(x, w)
<1> DEFINE f == StringField(tag, s)
<1>1. /\ Size[s] > 0 => Text(tag, s) = <<f>>
      /\ ~(Size[s] > 0) => Text(tag, s) = <<>>
      /\ f \in Field
  BY TextFields DEF Field
<1> HIDE DEF f
<1>2. ParseFromArray(x, w \o <<f>>) = Merged(ParseFromArray(x, w), f)
  BY <1>1, ParsedOneMore
<1>3. w \o <<>> = w
  OBVIOUS
<1> QED BY <1>1, <1>2, <1>3, Zenon DEF f

\* The strings of the parameters are UTF-8.
Readable(ps) == \A i \in 1..Len(ps) : ps[i].key \notin Gbk /\ ps[i].value \notin Gbk

\* The parameters arrive in their order, none is left out, and one that has a
\* string of the other encoding fails the whole.
LEMMA ParsedParameters ==
    ASSUME NEW x, NEW w \in Seq(Field), NEW ps \in Seq(Parameter), NEW a, NEW b, NEW d
    PROVE  LET r == ParseFromArray(x, w \o ParameterFields(ps))
           IN /\ Failed(ParseFromArray(x, w)) => Failed(r)
              /\ ParseFromArray(x, w) = Result(a, b, <<>>, d) =>
                   /\ Readable(ps) => r = Result(a, b, ps, d)
                   /\ ~Readable(ps) => Failed(r)
<1> DEFINE r0 == ParseFromArray(x, w)
           R(us) == ParseFromArray(x, w \o ParameterFields(us))
           T == {n \in Nat : \A us \in Seq(Parameter) : Len(us) = n =>
                   /\ Failed(r0) => Failed(R(us))
                   /\ r0 = Result(a, b, <<>>, d) =>
                        /\ Readable(us) => R(us) = Result(a, b, us, d)
                        /\ ~Readable(us) => Failed(R(us))}
<1>1. 0 \in T
  <2> SUFFICES ASSUME NEW us \in Seq(Parameter), Len(us) = 0
               PROVE  R(us) = r0 /\ Readable(us) /\ us = <<>>
    OBVIOUS
  <2>1. us = <<>> /\ ParameterFields(us) = <<>> /\ Readable(us)
    BY DEF ParameterFields, Readable
  <2>2. w \o <<>> = w
    OBVIOUS
  <2> QED BY <2>1, <2>2
<1>2. ASSUME NEW n \in Nat, n \in T PROVE n + 1 \in T
  <2> SUFFICES ASSUME NEW us \in Seq(Parameter), Len(us) = n + 1
               PROVE  /\ Failed(r0) => Failed(R(us))
                      /\ r0 = Result(a, b, <<>>, d) =>
                           /\ Readable(us) => R(us) = Result(a, b, us, d)
                           /\ ~Readable(us) => Failed(R(us))
    OBVIOUS
  <2> DEFINE qs == [i \in 1..n |-> us[i]]
             p == us[n + 1]
             f == ParameterField(p)
  <2>1. qs \in Seq(Parameter) /\ Len(qs) = n /\ p \in Parameter /\ us = Append(qs, p)
    OBVIOUS
  <2>2. Readable(us) <=> Readable(qs) /\ p.key \notin Gbk /\ p.value \notin Gbk
    BY <2>1 DEF Readable
  <2>3. w \o ParameterFields(us) = (w \o ParameterFields(qs)) \o <<f>>
    <3>1. ParameterFields(us) = ParameterFields(qs) \o <<f>>
      BY <2>1 DEF ParameterFields
    <3> HIDE DEF f, qs
    <3>2. ParameterFields(qs) \in Seq(Field) /\ f \in Field
      BY <2>1, ParametersBytes DEF f, Field
    <3> QED BY <3>1, <3>2
  <2>4. w \o ParameterFields(qs) \in Seq(Field) /\ f \in Field
    <3> HIDE DEF qs
    <3>1. ParameterFields(qs) \in Seq(Field) /\ f \in Field
      BY <2>1, ParametersBytes DEF Field
    <3> QED BY <3>1
  <2> HIDE DEF qs, p
  <2>5. R(us) = Merged(R(qs), f)
    BY <2>3, <2>4, ParsedOneMore, Zenon
  <2>6. /\ Failed(r0) => Failed(R(qs))
        /\ r0 = Result(a, b, <<>>, d) =>
             /\ Readable(qs) => R(qs) = Result(a, b, qs, d)
             /\ ~Readable(qs) => Failed(R(qs))
    BY <1>2, <2>1
  <2>7. Failed(R(qs)) => Failed(Merged(R(qs), f))
    BY MergedFailed
  <2>8. /\ p.key \notin Gbk /\ p.value \notin Gbk =>
             Merged(Result(a, b, qs, d), f) = Result(a, b, Append(qs, p), d)
        /\ p.key \in Gbk \/ p.value \in Gbk => Failed(Merged(Result(a, b, qs, d), f))
    BY <2>1, MergedParameter
  <2> HIDE DEF R, r0, f
  <2> QED BY <2>1, <2>2, <2>5, <2>6, <2>7, <2>8, Zenon
<1>3. \A n \in Nat : n \in T
  <2> HIDE DEF T
  <2> QED BY <1>1, <1>2, Induction
<1> QED BY <1>3

\* A message arrives as it was serialised, whatever the object held before, or
\* it is refused, and it is refused for its strings alone.
THEOREM ParsedAsSerialized ==
    ASSUME NEW x, NEW m \in Message
    PROVE  LET r == ParseFromArray(x, SerializeToArray(m))
           IN /\ Texts(m) \cap Gbk = {} => r = [ok |-> TRUE, msg |-> m]
              /\ Texts(m) \cap Gbk # {} => Failed(r)
<1> DEFINE c == m.statecode
           s == m.apiname
           ps == m.parametergroup
           t == m.bytedata
           w0 == Status(m)
           w1 == w0 \o Text(18, s)
           w2 == w1 \o ParameterFields(ps)
           w3 == w2 \o Text(170, t)
           R(w) == ParseFromArray(x, w)
<1>1. /\ s \in Strings /\ t \in Strings /\ ps \in Seq(Parameter)
      /\ m = [statecode |-> c, apiname |-> s, parametergroup |-> ps, bytedata |-> t]
  BY DEF Message
<1>2. /\ SerializeToArray(m) = w3
      /\ w0 \in Seq(Field) /\ w1 \in Seq(Field) /\ w2 \in Seq(Field)
  <2>1. /\ w0 \in Seq(Field) /\ Text(18, s) \in Seq(Field)
        /\ ParameterFields(ps) \in Seq(Field)
    BY SerializedParts
  <2>2. \A u, v \in Seq(Field) : u \o v \in Seq(Field)
    OBVIOUS
  <2>3. SerializeToArray(m) = w3
    BY SerializedParts
  <2> QED BY <2>1, <2>2, <2>3, Zenon
<1>3. R(w0) = Result(c, Empty, <<>>, Empty)
  BY ParsedStatus
<1> HIDE DEF w0
<1>4. /\ s \notin Gbk => R(w1) = Result(c, s, <<>>, Empty)
      /\ s \in Gbk => Failed(R(w1))
  <2>1. CASE Size[s] > 0
    <3>1. R(w1) = Merged(Result(c, Empty, <<>>, Empty), StringField(18, s))
      BY <1>1, <1>2, <1>3, <2>1, ParsedText
    <3>2. /\ s \notin Gbk => Merged(Result(c, Empty, <<>>, Empty), StringField(18, s)) =
                              Result(c, s, <<>>, Empty)
          /\ s \in Gbk => Failed(Merged(Result(c, Empty, <<>>, Empty), StringField(18, s)))
      <4> HIDE DEF c, s
      <4> QED BY <1>1, MergedString
    <3> QED BY <3>1, <3>2
  <2>2. CASE ~(Size[s] > 0)
    <3>1. s = Empty /\ s \notin Gbk
      BY <1>1, <2>2, StringsAssumption
    <3>2. R(w1) = R(w0)
      BY <1>1, <1>2, <2>2, ParsedText
    <3> QED BY <1>3, <3>1, <3>2
  <2> QED BY <2>1, <2>2
<1> HIDE DEF w1
<1>5. /\ s \notin Gbk /\ Readable(ps) => R(w2) = Result(c, s, ps, Empty)
      /\ s \in Gbk \/ ~Readable(ps) => Failed(R(w2))
  <2> DEFINE r == ParseFromArray(x, w1 \o ParameterFields(ps))
  <2>1. /\ Failed(ParseFromArray(x, w1)) => Failed(r)
        /\ ParseFromArray(x, w1) = Result(c, s, <<>>, Empty) =>
             /\ Readable(ps) => r = Result(c, s, ps, Empty)
             /\ ~Readable(ps) => Failed(r)
    <3>1. w1 \in Seq(Field) /\ ps \in Seq(Parameter)
      BY <1>1, <1>2
    <3> HIDE DEF c, s, ps
    <3>2. Failed(ParseFromArray(x, w1)) => Failed(r)
      BY <3>1, ParsedParameters
    <3>3. ASSUME ParseFromArray(x, w1) = Result(c, s, <<>>, Empty), Readable(ps)
          PROVE  r = Result(c, s, ps, Empty)
      BY <3>1, <3>3, ParsedParameters
    <3>4. ASSUME ParseFromArray(x, w1) = Result(c, s, <<>>, Empty), ~Readable(ps)
          PROVE  Failed(r)
      BY <3>1, <3>4, ParsedParameters
    <3> QED BY <3>2, <3>3, <3>4
  <2> QED BY <1>4, <2>1
<1> HIDE DEF w2
<1>6. /\ s \notin Gbk /\ Readable(ps) => R(w3) = Result(c, s, ps, t)
      /\ s \in Gbk \/ ~Readable(ps) => Failed(R(w3))
  <2>1. CASE Size[t] > 0
    <3>1. R(w3) = Merged(R(w2), StringField(170, t))
      BY <1>1, <1>2, <2>1, ParsedText
    <3>2. Merged(Result(c, s, ps, Empty), StringField(170, t)) = Result(c, s, ps, t)
      <4> HIDE DEF c, s, t, ps
      <4> QED BY <1>1, MergedString
    <3>3. Failed(R(w2)) => Failed(Merged(R(w2), StringField(170, t)))
      BY MergedFailed, Zenon
    <3> QED BY <1>5, <3>1, <3>2, <3>3, Zenon
  <2>2. CASE ~(Size[t] > 0)
    <3>1. t = Empty
      BY <1>1, <2>2, StringsAssumption
    <3>2. R(w3) = R(w2)
      BY <1>1, <1>2, <2>2, ParsedText
    <3> QED BY <1>5, <3>1, <3>2
  <2> QED BY <2>1, <2>2
<1>7. Texts(m) \cap Gbk = {} <=> s \notin Gbk /\ Readable(ps)
  <2>1. ToSet(ps) = {ps[i] : i \in 1..Len(ps)}
    BY <1>1 DEF ToSet
  <2>2. \A z : z \in Texts(m) <=>
                z = s \/ \E i \in 1..Len(ps) : z = ps[i].key \/ z = ps[i].value
    BY <2>1 DEF Texts
  <2> HIDE DEF s, ps
  <2> QED BY <2>2 DEF Readable
<1>8. Result(c, s, ps, t) = [ok |-> TRUE, msg |-> m]
  BY <1>1 DEF Result
<1> HIDE DEF w3
<1> QED BY <1>2, <1>6, <1>7, <1>8, Zenon

-----------------------------------------------------------------------------
(* The invariant. *)

Modes == {"editing", "received", "sending", "waiting", "refused"}
Idle(e) == mode[e] \in {"sending", "waiting"}

\* A message that was refused is whatever had been parsed of it.
TypeInv ==
    /\ DOMAIN msg = End /\ mode \in [End -> Modes]
    /\ \A e \in End : mode[e] # "refused" => msg[e] \in Message
    /\ sent \in Message
    /\ group \in Groups \cup {NoGroup}

\* The frame on its way carries the message last serialised.
FrameInv ==
    \/ frame = <<>>
    \/ \E to \in End : frame = <<[to |-> to, length |-> ByteSizeLong(sent),
                                  body |-> SerializeToArray(sent)]>>

\* Only one end at a time has the message, and none while it is on its way.
TurnInv == \A e \in End : ~Idle(e) => frame = <<>> /\ Idle(Peer(e))

\* What became of the message that arrived.
ArrivalInv ==
    \A e \in End :
      /\ mode[e] = "received" => msg[e] = sent /\ Texts(sent) \cap Gbk = {}
      /\ mode[e] = "refused" => Texts(sent) \cap Gbk # {}

\* ps is the group g behind an empty parameter, and what was added.
Begins(ps, g) ==
    LET all == <<EmptyParameter>> \o g
    IN /\ Len(all) <= Len(ps)
       /\ \A i \in 1..Len(all) : ps[i] = all[i]
       /\ \A i \in (Len(all) + 1)..Len(ps) : ps[i] \in Added

\* The last group begins the message wherever it is: at the end that writes it
\* or on its way.
GroupInv ==
    group # NoGroup =>
      /\ frame # <<>> => Begins(sent.parametergroup, group)
      /\ \A e \in End : Writing(e) => Begins(msg[e].parametergroup, group)

IInv == TypeInv /\ FrameInv /\ TurnInv /\ ArrivalInv /\ GroupInv

\* There are two ends.
LEMMA Peers ==
    \A e \in End : /\ Peer(e) \in End /\ Peer(e) # e /\ Peer(Peer(e)) = e
                   /\ \A o \in End : o # e => o = Peer(e)
  BY EndsAssumption DEF End, Peer

\* Clear, and what the generated interface sets, leave a message.
LEMMA MessageKept ==
    ASSUME NEW m \in Message
    PROVE  /\ \A c \in Codes : LET x == [m EXCEPT !.statecode = c]
                               IN x \in Message /\ x.parametergroup = m.parametergroup
           /\ \A s \in Strings :
                /\ LET x == [m EXCEPT !.apiname = s]
                   IN x \in Message /\ x.parametergroup = m.parametergroup
                /\ LET x == [m EXCEPT !.bytedata = s]
                   IN x \in Message /\ x.parametergroup = m.parametergroup
           /\ \A ps \in Seq(Parameter) :
                LET x == [m EXCEPT !.parametergroup = ps]
                IN x \in Message /\ x.parametergroup = ps
<1>1. \A c \in Codes : LET x == [m EXCEPT !.statecode = c]
                       IN x \in Message /\ x.parametergroup = m.parametergroup
  BY DEF Message
<1>2. \A s \in Strings : LET x == [m EXCEPT !.apiname = s]
                         IN x \in Message /\ x.parametergroup = m.parametergroup
  BY DEF Message
<1>3. \A s \in Strings : LET x == [m EXCEPT !.bytedata = s]
                         IN x \in Message /\ x.parametergroup = m.parametergroup
  BY DEF Message
<1>4. \A ps \in Seq(Parameter) : LET x == [m EXCEPT !.parametergroup = ps]
                                 IN x \in Message /\ x.parametergroup = ps
  BY DEF Message
<1> QED BY <1>1, <1>2, <1>3, <1>4

\* A cleared message is the message an object starts with.
LEMMA Cleared ==
    \A x : Clear(x) \in Message
<1>1. <<>> \in Seq(Parameter) /\ Empty \in Strings
  BY StringsAssumption
<1> QED BY <1>1 DEF Clear, Message

\* Whatever an end that may write makes of its message.
LEMMA EditKeeps ==
    ASSUME IInv, NEW e \in End, Writing(e), NEW x \in Message,
           NEW g \in Groups \cup {NoGroup}, g # NoGroup => Begins(x.parametergroup, g),
           msg' = [msg EXCEPT ![e] = x], mode' = [mode EXCEPT ![e] = "editing"],
           group' = g, sent' = Clear(sent), frame' = frame
    PROVE  IInv'
<1> DEFINE o == Peer(e)
<1>1. /\ frame = <<>> /\ o \in End /\ o # e /\ mode[o] \in {"sending", "waiting"}
      /\ \A p \in End : p = e \/ p = o
      /\ Peer(o) = e /\ Peer(e) = o
  BY Peers DEF IInv, TurnInv, Idle, Writing
<1> HIDE DEF o
<1>2. /\ mode'[e] = "editing" /\ mode'[o] = mode[o] /\ msg'[e] = x /\ msg'[o] = msg[o]
  BY <1>1 DEF IInv, TypeInv
<1>3. TypeInv'
  <2>1. DOMAIN msg' = End /\ mode' \in [End -> Modes]
    BY DEF IInv, TypeInv, Modes
  <2>2. \A p \in End : mode'[p] # "refused" => msg'[p] \in Message
    BY <1>1, <1>2 DEF IInv, TypeInv
  <2> QED BY <2>1, <2>2, Cleared DEF TypeInv
<1>4. FrameInv' /\ TurnInv'
  BY <1>1, <1>2 DEF FrameInv, TurnInv, Idle
<1>5. ArrivalInv'
  BY <1>1, <1>2 DEF ArrivalInv
<1>6. GroupInv'
  BY <1>1, <1>2 DEF GroupInv, Writing
<1> QED BY <1>3, <1>4, <1>5, <1>6 DEF IInv

\* The group that is set, in whatever message it is set.
LEMMA SetKeeps ==
    ASSUME IInv, NEW g \in Groups, SetParameterGroup(g)
    PROVE  IInv'
<1> DEFINE ps == <<EmptyParameter>> \o g
           x == [msg[Client] EXCEPT !.parametergroup = ps]
<1>1. Client \in End /\ Writing(Client) /\ msg[Client] \in Message /\ DOMAIN msg = End
  BY DEF SetParameterGroup, End, Writing, IInv, TypeInv
<1>2. ps \in Seq(Parameter) /\ g \in Seq(Parameter)
  <2>1. EmptyParameter \in Parameter /\ g \in Seq(Parameter)
    BY StringsAssumption, GroupsAssumption DEF EmptyParameter, Parameter
  <2> QED BY <2>1
<1>3. msg' = [msg EXCEPT ![Client] = x]
  BY <1>1 DEF SetParameterGroup
<1> HIDE DEF ps
<1>4. x \in Message /\ x.parametergroup = ps
  BY <1>1, <1>2, MessageKept
<1>5. Begins(ps, g)
  BY <1>2 DEF Begins, ps
<1> HIDE DEF x
<1> QED BY <1>1, <1>3, <1>4, <1>5, EditKeeps DEF SetParameterGroup

\* One more of what may be added.
LEMMA AppendKeeps ==
    ASSUME NEW ps \in Seq(Parameter), NEW p \in Added, NEW g \in Seq(Parameter), Begins(ps, g)
    PROVE  Begins(Append(ps, p), g)
<1> DEFINE all == <<EmptyParameter>> \o g
           qs == Append(ps, p)
<1>1. Len(all) \in Nat
  BY StringsAssumption DEF EmptyParameter, Parameter
<1> HIDE DEF all
<1>2. /\ Len(qs) = Len(ps) + 1 /\ qs[Len(ps) + 1] = p
      /\ \A i \in 1..Len(ps) : qs[i] = ps[i]
  OBVIOUS
<1>3. /\ Len(all) <= Len(ps) /\ \A i \in 1..Len(all) : ps[i] = all[i]
      /\ \A i \in (Len(all) + 1)..Len(ps) : ps[i] \in Added
  BY DEF Begins, all
<1> HIDE DEF qs
<1>4. /\ Len(all) <= Len(qs) /\ \A i \in 1..Len(all) : qs[i] = all[i]
      /\ \A i \in (Len(all) + 1)..Len(qs) : qs[i] \in Added
  <2>1. Len(ps) \in Nat
    OBVIOUS
  <2> QED BY <1>1, <1>2, <1>3, <2>1
<1> QED BY <1>4 DEF Begins, all, qs

\* The application or the business function changes a field.
LEMMA EditKeepsAll ==
    ASSUME IInv, NEW e \in End, Edit(e)
    PROVE  IInv'
<1> DEFINE m == msg[e]
<1>1. /\ Writing(e) /\ m \in Message /\ m.parametergroup \in Seq(Parameter)
      /\ DOMAIN msg = End
      /\ group \in Groups \cup {NoGroup}
      /\ group # NoGroup => Begins(m.parametergroup, group)
      /\ mode' = [mode EXCEPT ![e] = "editing"] /\ sent' = Clear(sent) /\ frame' = frame
  BY DEF Edit, Writing, IInv, TypeInv, GroupInv, Message
<1> HIDE DEF m
<1>2. ASSUME NEW x \in Message, msg' = [msg EXCEPT ![e] = x], group' = group,
             x.parametergroup = m.parametergroup
      PROVE  IInv'
  BY <1>1, <1>2, EditKeeps
<1>3. CASE group' = group /\ \E c \in Codes : msg' = [msg EXCEPT ![e].statecode = c]
  <2>1. PICK c \in Codes : msg' = [msg EXCEPT ![e] = [m EXCEPT !.statecode = c]]
    BY <1>1, <1>3 DEF m
  <2> QED BY <1>1, <1>2, <1>3, <2>1, MessageKept
<1>4. CASE group' = group /\ \E s \in Strings : msg' = [msg EXCEPT ![e].apiname = s]
  <2>1. PICK s \in Strings : msg' = [msg EXCEPT ![e] = [m EXCEPT !.apiname = s]]
    BY <1>1, <1>4 DEF m
  <2> QED BY <1>1, <1>2, <1>4, <2>1, MessageKept
<1>5. CASE group' = group /\ \E s \in Strings : msg' = [msg EXCEPT ![e].bytedata = s]
  <2>1. PICK s \in Strings : msg' = [msg EXCEPT ![e] = [m EXCEPT !.bytedata = s]]
    BY <1>1, <1>5 DEF m
  <2> QED BY <1>1, <1>2, <1>5, <2>1, MessageKept
<1>6. CASE /\ group' = group
           /\ \E p \in Added : msg' = [msg EXCEPT ![e].parametergroup = Append(@, p)]
  <2>1. PICK p \in Added : msg' = [msg EXCEPT ![e].parametergroup = Append(@, p)]
    BY <1>6
  <2> DEFINE qs == Append(m.parametergroup, p)
             x == [m EXCEPT !.parametergroup = qs]
  <2>2. msg' = [msg EXCEPT ![e] = x]
    BY <1>1, <2>1 DEF m
  <2>3. p \in Parameter /\ qs \in Seq(Parameter)
    BY <1>1, GroupsAssumption DEF Parameter
  <2>4. group # NoGroup => Begins(qs, group)
    <3> SUFFICES ASSUME group # NoGroup PROVE Begins(qs, group)
      OBVIOUS
    <3>1. group \in Seq(Parameter)
      BY <1>1, GroupsAssumption DEF Parameter
    <3> QED BY <1>1, <3>1, AppendKeeps
  <2> HIDE DEF qs
  <2>5. x \in Message /\ x.parametergroup = qs
    BY <1>1, <2>3, MessageKept
  <2> HIDE DEF x
  <2> QED BY <1>1, <1>6, <2>2, <2>4, <2>5, EditKeeps
<1>7. CASE group' = NoGroup /\ msg' = [msg EXCEPT ![e].parametergroup = <<>>]
  <2> DEFINE x == [m EXCEPT !.parametergroup = <<>>]
  <2>1. msg' = [msg EXCEPT ![e] = x]
    BY <1>1, <1>7 DEF m
  <2>2. <<>> \in Seq(Parameter)
    OBVIOUS
  <2>3. x \in Message
    BY <1>1, <2>2, MessageKept
  <2> HIDE DEF x
  <2> QED BY <1>1, <1>7, <2>1, <2>3, EditKeeps
<1> QED BY <1>3, <1>4, <1>5, <1>6, <1>7 DEF Edit

\* A serialised message is on its way as it is at its end.
LEMMA ReadySendKeeps ==
    ASSUME IInv, NEW e \in End, ReadySend(e)
    PROVE  IInv'
<1> DEFINE o == Peer(e)
<1>1. /\ Writing(e) /\ msg[e] \in Message
      /\ frame = <<>> /\ o \in End /\ o # e /\ mode[o] \in {"sending", "waiting"}
      /\ \A p \in End : p = e \/ p = o
  BY Peers DEF ReadySend, IInv, TypeInv, TurnInv, Idle, Writing
<1>2. /\ msg' = msg /\ group' = group /\ sent' = msg[e]
      /\ frame' = <<[to |-> o, length |-> ByteSizeLong(sent'), body |-> SerializeToArray(sent')]>>
  BY DEF ReadySend
<1> HIDE DEF o
<1>3. mode'[e] = "sending" /\ mode'[o] = mode[o]
  BY <1>1 DEF ReadySend, IInv, TypeInv
<1>4. TypeInv'
  <2>1. mode' \in [End -> Modes]
    BY DEF ReadySend, IInv, TypeInv, Modes
  <2>2. \A p \in End : mode'[p] # "refused" => msg'[p] \in Message
    BY <1>1, <1>2, <1>3 DEF IInv, TypeInv
  <2> QED BY <1>1, <1>2, <2>1, <2>2 DEF IInv, TypeInv
<1>5. FrameInv'
  BY <1>1, <1>2 DEF FrameInv
<1>6. TurnInv' /\ ArrivalInv'
  BY <1>1, <1>3 DEF TurnInv, ArrivalInv, Idle
<1>7. GroupInv'
  <2>1. group # NoGroup => Begins(msg[e].parametergroup, group)
    BY <1>1 DEF IInv, GroupInv
  <2>2. \A p \in End : ~Writing(p)'
    BY <1>1, <1>3 DEF Writing
  <2> QED BY <1>2, <2>1, <2>2 DEF GroupInv
<1> QED BY <1>4, <1>5, <1>6, <1>7 DEF IInv

\* The end that has sent clears its object for the answer.
LEMMA EndSendKeeps ==
    ASSUME IInv, NEW e \in End, EndSend(e)
    PROVE  IInv'
<1> DEFINE o == Peer(e)
<1>1. /\ mode[e] = "sending" /\ o \in End /\ o # e
      /\ \A p \in End : p = e \/ p = o
      /\ Peer(e) = o /\ Peer(o) = e
      /\ frame' = frame /\ sent' = sent /\ group' = group
  BY Peers DEF EndSend
<1> HIDE DEF o
<1>2. /\ mode'[e] = "waiting" /\ mode'[o] = mode[o]
      /\ msg'[e] = Clear(msg[e]) /\ msg'[o] = msg[o]
  BY <1>1 DEF EndSend, IInv, TypeInv
<1>3. TypeInv'
  <2>1. DOMAIN msg' = End /\ mode' \in [End -> Modes]
    BY DEF EndSend, IInv, TypeInv, Modes
  <2>2. \A p \in End : mode'[p] # "refused" => msg'[p] \in Message
    BY <1>1, <1>2, Cleared DEF IInv, TypeInv
  <2> QED BY <1>1, <2>1, <2>2 DEF IInv, TypeInv
<1>4. FrameInv'
  BY <1>1 DEF IInv, FrameInv
<1>5. TurnInv' /\ ArrivalInv'
  BY <1>1, <1>2 DEF IInv, TurnInv, ArrivalInv, Idle
<1>6. GroupInv'
  BY <1>1, <1>2 DEF IInv, GroupInv, Writing
<1> QED BY <1>3, <1>4, <1>5, <1>6 DEF IInv

\* The end that receives has the message that was sent, or refuses it.
LEMMA ReceiveKeeps ==
    ASSUME IInv, NEW e \in End, Receive(e)
    PROVE  IInv'
<1> DEFINE o == Peer(e)
           r == ParseFromArray(Clear(msg[e]), Head(frame).body)
<1>1. /\ o \in End /\ o # e /\ \A p \in End : p = e \/ p = o
      /\ Peer(e) = o /\ Peer(o) = e
      /\ frame # <<>> /\ frame' = <<>> /\ sent' = sent /\ group' = group
      /\ sent \in Message
  BY Peers DEF Receive, IInv, TypeInv
<1>2. Idle(o) /\ mode[o] \in {"sending", "waiting"}
  BY <1>1 DEF IInv, TurnInv, Idle
<1> HIDE DEF o
<1>3. Head(frame).body = SerializeToArray(sent)
  BY <1>1 DEF IInv, FrameInv
<1>4. /\ Texts(sent) \cap Gbk = {} => r = [ok |-> TRUE, msg |-> sent]
      /\ Texts(sent) \cap Gbk # {} => Failed(r)
  BY <1>1, <1>3, ParsedAsSerialized
<1>5. /\ msg' = [msg EXCEPT ![e] = r.msg]
      /\ mode' = [mode EXCEPT ![e] = IF r.ok THEN "received" ELSE "refused"]
  BY DEF Receive
<1> HIDE DEF r
<1>6. /\ mode'[e] = (IF r.ok THEN "received" ELSE "refused") /\ mode'[o] = mode[o]
      /\ msg'[e] = r.msg /\ msg'[o] = msg[o]
      /\ DOMAIN msg' = End /\ mode' \in [End -> Modes]
  BY <1>1, <1>5 DEF IInv, TypeInv, Modes
<1>7. /\ Texts(sent) \cap Gbk = {} => mode'[e] = "received" /\ msg'[e] = sent
      /\ Texts(sent) \cap Gbk # {} => mode'[e] = "refused"
  BY <1>4, <1>6 DEF Failed
<1>8. TypeInv'
  <2>1. \A p \in End : mode'[p] # "refused" => msg'[p] \in Message
    BY <1>1, <1>2, <1>6, <1>7 DEF IInv, TypeInv
  <2> QED BY <1>1, <1>6, <2>1 DEF IInv, TypeInv
<1>9. FrameInv' /\ TurnInv'
  BY <1>1, <1>2, <1>6 DEF FrameInv, TurnInv, Idle
<1>10. ArrivalInv'
  BY <1>1, <1>2, <1>6, <1>7 DEF ArrivalInv
<1>11. GroupInv'
  <2>1. group # NoGroup => Begins(sent.parametergroup, group)
    BY <1>1 DEF IInv, GroupInv
  <2>2. \A p \in End : Writing(p)' => p = e /\ msg'[p] = sent
    BY <1>1, <1>2, <1>6, <1>7 DEF Writing
  <2> QED BY <1>1, <2>1, <2>2 DEF GroupInv
<1> QED BY <1>8, <1>9, <1>10, <1>11 DEF IInv

-----------------------------------------------------------------------------
(* The theorems. *)

\* A client's task before AddTask and a server's task at accept.
THEOREM InitInv == Init => IInv
<1> SUFFICES ASSUME Init PROVE IInv
  OBVIOUS
<1> DEFINE nothing == [statecode |-> 0, apiname |-> Empty,
                       parametergroup |-> <<>>, bytedata |-> Empty]
<1>1. nothing \in Message
  BY Cleared DEF Clear
<1> HIDE DEF nothing
<1>2. /\ msg = [e \in End |-> nothing] /\ frame = <<>> /\ group = NoGroup
      /\ mode = [e \in End |-> IF e = Client THEN "editing" ELSE "waiting"]
      /\ sent = msg[Client]
  BY DEF Init, nothing
<1>3. Client \in End /\ \A e \in End : e # Client => e = Peer(Client) /\ Peer(Client) # Client
  BY Peers DEF End
<1>4. TypeInv
  <2>1. sent = nothing
    BY <1>2, <1>3
  <2> QED BY <1>1, <1>2, <2>1 DEF TypeInv, Modes
<1>5. \A e \in End : mode[e] = IF e = Client THEN "editing" ELSE "waiting"
  BY <1>2
<1>6. FrameInv /\ ArrivalInv /\ GroupInv
  BY <1>2, <1>5 DEF FrameInv, ArrivalInv, GroupInv
<1>7. TurnInv
  BY <1>2, <1>3, <1>5, Peers DEF TurnInv, Idle
<1> QED BY <1>4, <1>6, <1>7 DEF IInv

\* Every step keeps the invariant.
THEOREM NextInv == IInv /\ [Next]_vars => IInv'
<1> SUFFICES ASSUME IInv, [Next]_vars PROVE IInv'
  OBVIOUS
<1>1. ASSUME NEW g \in Groups, SetParameterGroup(g) PROVE IInv'
  BY <1>1, SetKeeps
<1>2. ASSUME NEW e \in End, Edit(e) PROVE IInv'
  BY <1>2, EditKeepsAll
<1>3. ASSUME NEW e \in End, ReadySend(e) PROVE IInv'
  BY <1>3, ReadySendKeeps
<1>4. ASSUME NEW e \in End, EndSend(e) PROVE IInv'
  BY <1>4, EndSendKeeps
<1>5. ASSUME NEW e \in End, Receive(e) PROVE IInv'
  BY <1>5, ReceiveKeeps
<1>6. CASE UNCHANGED vars
  BY <1>6 DEF vars, IInv, TypeInv, FrameInv, TurnInv, ArrivalInv, GroupInv, Idle, Writing
<1> QED BY <1>1, <1>2, <1>3, <1>4, <1>5, <1>6 DEF Next

\* Messages take turns: one end has the message, or it is on its way as it was
\* serialised, or it was refused.
THEOREM Invariance == Spec => []IInv
  BY InitInv, NextInv, PTL DEF Spec

\* The number of bytes that DataOperationReady announces is the number that
\* SerializeToArray writes, for messages with strings of any length and any
\* number of parameters.
THEOREM Filled == Spec => []BufferFilled
<1>1. IInv => BufferFilled
  <2> SUFFICES ASSUME IInv, frame # <<>>
               PROVE  Bytes(Head(frame).body) = Head(frame).length
    BY DEF BufferFilled
  <2>1. Head(frame).length = ByteSizeLong(sent) /\ Head(frame).body = SerializeToArray(sent)
    BY DEF IInv, FrameInv
  <2>2. sent \in Message
    BY DEF IInv, TypeInv
  <2> QED BY <2>1, <2>2, SerializedSize
<1> QED BY <1>1, Invariance, PTL

\* A business function gets the message the other end serialised, whatever the
\* object it is parsed into has held before.
THEOREM Arrival == Spec => []ArrivesAsSent
<1>1. IInv => ArrivesAsSent
  BY DEF IInv, ArrivalInv, ArrivesAsSent
<1> QED BY <1>1, Invariance, PTL

\* A message is refused for a string that is not UTF-8, and for nothing else.
THEOREM Refusal == Spec => []RefusedForItsStrings
<1>1. IInv => RefusedForItsStrings
  BY DEF IInv, ArrivalInv, RefusedForItsStrings
<1> QED BY <1>1, Invariance, PTL

\* At either end the message begins with the map last given to
\* SetParameterGroup, however often it was called.
THEOREM LastGroup == Spec => []LastGroupOnly
<1>1. ASSUME NEW g \in Groups, NEW ps \in Seq(Parameter), Begins(ps, g)
      PROVE  LET all == <<EmptyParameter>> \o g
                 n == Len(all)
             IN /\ SubSeq(ps, 1, n) = all
                /\ \A i \in (n + 1)..Len(ps) : ps[i] \in Added
  <2> DEFINE all == <<EmptyParameter>> \o g
             n == Len(all)
  <2>1. all \in Seq(Parameter)
    <3>1. EmptyParameter \in Parameter /\ g \in Seq(Parameter)
      BY StringsAssumption, GroupsAssumption DEF EmptyParameter, Parameter
    <3> QED BY <3>1
  <2>2. /\ n <= Len(ps) /\ \A i \in 1..n : ps[i] = all[i]
        /\ \A i \in (n + 1)..Len(ps) : ps[i] \in Added
    BY <1>1 DEF Begins
  <2> HIDE DEF all
  <2>3. SubSeq(ps, 1, n) = all
    <3>1. /\ n \in Nat /\ Len(SubSeq(ps, 1, n)) = n
          /\ \A i \in 1..n : SubSeq(ps, 1, n)[i] = ps[i]
      BY <2>1, <2>2
    <3>2. SubSeq(ps, 1, n) \in Seq(Parameter)
      BY <2>1, <2>2
    <3> QED BY <2>1, <2>2, <3>1, <3>2
  <2> QED BY <2>2, <2>3 DEF all
<1>2. IInv => LastGroupOnly
  <2> SUFFICES ASSUME IInv, group # NoGroup, NEW e \in End, Writing(e)
               PROVE  LET all == <<EmptyParameter>> \o group
                          n == Len(all)
                      IN /\ SubSeq(msg[e].parametergroup, 1, n) = all
                         /\ \A i \in (n + 1)..Len(msg[e].parametergroup) :
                              msg[e].parametergroup[i] \in Added
    BY DEF LastGroupOnly
  <2>1. /\ group \in Groups /\ msg[e].parametergroup \in Seq(Parameter)
        /\ Begins(msg[e].parametergroup, group)
    BY DEF IInv, TypeInv, GroupInv, Writing, Message
  <2> QED BY <2>1, <1>1
<1> QED BY <1>2, Invariance, PTL

=============================================================================
