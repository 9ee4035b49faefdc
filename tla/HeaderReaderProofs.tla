------------------------- MODULE HeaderReaderProofs -------------------------
(***************************************************************************)
(* Proofs about HeaderReader: a number survives its bytes; a reader that   *)
(* never meets a cut field is right, for integers of every width; and with *)
(* the integers of the build, a first header of a message of up to         *)
(* 16841983 bytes is never taken for another, wherever it was cut.         *)
(***************************************************************************)
EXTENDS HeaderReader, Recursion, SequenceTheorems

-----------------------------------------------------------------------------
(* Division. *)

\* Quotient and remainder.
LEMMA DivMod ==
    ASSUME NEW n \in Nat, NEW b \in Nat, b > 0
    PROVE  n \div b \in Nat /\ n % b \in 0..(b - 1) /\ n = b * (n \div b) + (n % b)
  OBVIOUS

\* There is one way to divide.
LEMMA DivUnique ==
    ASSUME NEW b \in Nat, b > 0, NEW q \in Nat, NEW r \in Nat, r < b,
           NEW n \in Nat, n = b * q + r
    PROVE  n \div b = q /\ n % b = r
<1> DEFINE p == n \div b
           s == n % b
<1>1. p \in Nat /\ s \in Nat /\ s < b /\ n = b * p + s
  BY DivMod
<1> HIDE DEF p, s
<1>2. CASE p < q
  <2>1. b * (p + 1) <= b * q
    BY <1>1, <1>2
  <2>2. b * (p + 1) = b * p + b
    BY <1>1
  <2> QED BY <1>1, <2>1, <2>2
<1>3. CASE q < p
  <2>1. b * (q + 1) <= b * p
    BY <1>1, <1>3
  <2>2. b * (q + 1) = b * q + b
    BY <1>1
  <2> QED BY <1>1, <2>1, <2>2
<1>4. CASE p = q
  BY <1>1, <1>4 DEF p, s
<1> QED BY <1>1, <1>2, <1>3, <1>4

\* Dividing twice is dividing by the product.
LEMMA DivTwice ==
    ASSUME NEW n \in Nat, NEW b \in Nat, b > 0, NEW c \in Nat, c > 0
    PROVE  (n \div b) \div c = n \div (b * c)
<1> DEFINE q == n \div b
           r == n % b
           q2 == q \div c
           r2 == q % c
           d == b * c
           s == b * r2 + r
<1>1. q \in Nat /\ r \in Nat /\ r < b /\ n = b * q + r
  BY DivMod
<1> HIDE DEF q, r
<1>2. q2 \in Nat /\ r2 \in Nat /\ r2 < c /\ q = c * q2 + r2
  BY <1>1, DivMod
<1> HIDE DEF q2, r2
<1>3. d \in Nat /\ d > 0
  OBVIOUS
<1>4. s \in Nat /\ s < d
  <2>1. r2 + 1 <= c
    BY <1>2
  <2>2. b * (r2 + 1) <= b * c
    BY <1>2, <2>1
  <2>3. b * (r2 + 1) = b * r2 + b
    BY <1>2
  <2>4. b * r2 \in Nat
    BY <1>2
  <2> QED BY <1>1, <2>2, <2>3, <2>4
<1>5. n = d * q2 + s
  <2>1. b * (c * q2 + r2) = (b * c) * q2 + b * r2
    BY <1>2
  <2> QED BY <1>1, <1>2, <2>1
<1> HIDE DEF d, s
<1>6. n \div d = q2
  BY <1>2, <1>3, <1>4, <1>5, DivUnique
<1> QED BY <1>6 DEF q2, q, d

-----------------------------------------------------------------------------
(* The recursive functions of the model. *)

\* The powers of a byte.
LEMMA PowerEquation ==
    /\ Power[0] = 1
    /\ \A i \in Nat : /\ Power[i] \in Nat /\ Power[i] > 0
                      /\ Power[i + 1] = Base * Power[i]
<1> DEFINE L == Power
           mu == [n \in Nat |-> n]
           B == {0}
           leaf == [n \in Nat |-> 1]
           pred == [n \in Nat |-> IF n = 0 THEN 0 ELSE n - 1]
           node == [p \in Nat \X Nat |-> Base * p[2]]
<1>1. PICK f \in [Nat -> Nat] :
        \A n \in Nat : f[n] = IF n \in B THEN leaf[n] ELSE node[<<n, f[pred[n]]>>]
  <2>1. mu \in [Nat -> Nat] /\ leaf \in [Nat -> Nat] /\ pred \in [Nat -> Nat]
    OBVIOUS
  <2>2. node \in [Nat \X Nat -> Nat]
    BY SizesAssumption
  <2>3. \A n \in Nat : n \notin B => mu[pred[n]] < mu[n]
    OBVIOUS
  <2> HIDE DEF mu, B, leaf, pred, node
  <2>4. Decreases(Nat, Nat, mu, B, leaf, pred, node)
    BY <2>1, <2>2, <2>3 DEF Decreases
  <2> QED BY <2>4, RecursiveFunction
<1>2. ASSUME NEW n \in Nat PROVE f[n] = IF n = 0 THEN 1 ELSE Base * f[n - 1]
  <2>1. CASE n = 0
    BY <2>1, <1>1
  <2>2. CASE n # 0
    <3>1. n - 1 \in Nat /\ <<n, f[n - 1]>> \in Nat \X Nat
      BY <2>2
    <3> QED BY <2>2, <3>1, <1>1
  <2> QED BY <2>1, <2>2
<1>3. f = [n \in Nat |-> IF n = 0 THEN 1 ELSE Base * f[n - 1]]
  BY <1>2
<1>4. L = [n \in Nat |-> IF n = 0 THEN 1 ELSE Base * L[n - 1]]
  BY <1>3 DEF Power
<1> HIDE DEF L
<1>5. \A n \in Nat : L[n] = IF n = 0 THEN 1 ELSE Base * L[n - 1]
  BY <1>4
<1>6. L[0] = 1 /\ \A n \in Nat : L[n + 1] = Base * L[n]
  BY <1>5
<1> DEFINE T == {n \in Nat : L[n] \in Nat /\ L[n] > 0}
<1>7. \A n \in Nat : n \in T
  <2>1. 0 \in T
    BY <1>6
  <2>2. ASSUME NEW n \in Nat, n \in T PROVE n + 1 \in T
    <3> DEFINE x == L[n]
    <3>1. x \in Nat /\ x > 0 /\ L[n + 1] = Base * x
      BY <1>6, <2>2
    <3> HIDE DEF x
    <3>2. Base * x \in Nat /\ Base * x > 0
      BY <3>1, SizesAssumption
    <3> QED BY <3>1, <3>2
  <2> HIDE DEF T
  <2> QED BY <2>1, <2>2, Induction
<1> QED BY <1>6, <1>7 DEF L

\* The value of bytes, one after the other.
LEMMA ValueEquation ==
    \A b \in Seq(Nat) : /\ Value[b] \in Nat
                        /\ b = <<>> => Value[b] = 0
                        /\ b # <<>> => Value[b] = Head(b) + Base * Value[Tail(b)]
<1> DEFINE D == Seq(Nat)
           L == Value
           mu == [b \in D |-> Len(b)]
           B == {<<>>}
           leaf == [b \in D |-> 0]
           pred == [b \in D |-> IF b = <<>> THEN <<>> ELSE Tail(b)]
           node == [p \in D \X Nat |->
                      IF p[1] = <<>> THEN 0 ELSE Head(p[1]) + Base * p[2]]
<1>0. \A b \in D : b # <<>> => Tail(b) \in D /\ Len(Tail(b)) < Len(b) /\ Head(b) \in Nat
  OBVIOUS
<1>1. PICK f \in [D -> Nat] :
        \A b \in D : f[b] = IF b \in B THEN leaf[b] ELSE node[<<b, f[pred[b]]>>]
  <2>1. mu \in [D -> Nat] /\ leaf \in [D -> Nat] /\ pred \in [D -> D]
    BY <1>0
  <2>2. node \in [D \X Nat -> Nat]
    <3> SUFFICES ASSUME NEW b \in D, NEW n \in Nat, b # <<>>
                 PROVE  Head(b) + Base * n \in Nat
      OBVIOUS
    <3>1. Base * n \in Nat
      BY SizesAssumption
    <3> QED BY <1>0, <3>1
  <2>3. \A b \in D : b \notin B => mu[pred[b]] < mu[b]
    BY <1>0
  <2> HIDE DEF mu, B, leaf, pred, node, D
  <2>4. Decreases(D, Nat, mu, B, leaf, pred, node)
    BY <2>1, <2>2, <2>3 DEF Decreases
  <2> QED BY <2>4, RecursiveFunction
<1>2. ASSUME NEW b \in D
      PROVE  f[b] = IF b = <<>> THEN 0 ELSE Head(b) + Base * f[Tail(b)]
  <2>1. CASE b = <<>>
    BY <2>1, <1>1
  <2>2. CASE b # <<>>
    <3>1. Tail(b) \in D /\ <<b, f[Tail(b)]>> \in D \X Nat
      BY <2>2, <1>0
    <3>2. f[b] = node[<<b, f[Tail(b)]>>]
      BY <2>2, <1>1
    <3> QED BY <2>2, <3>1, <3>2
  <2> QED BY <2>1, <2>2
<1>3. f = [b \in Seq(Nat) |-> IF b = <<>> THEN 0 ELSE Head(b) + Base * f[Tail(b)]]
  BY <1>2
<1>4. L = [b \in Seq(Nat) |-> IF b = <<>> THEN 0 ELSE Head(b) + Base * L[Tail(b)]]
  BY <1>3 DEF Value
<1> HIDE DEF L
<1>5. \A b \in D : L[b] = IF b = <<>> THEN 0 ELSE Head(b) + Base * L[Tail(b)]
  BY <1>4
<1> DEFINE T == {n \in Nat : \A b \in D : Len(b) = n => L[b] \in Nat}
<1>6. ASSUME NEW n \in Nat, \A m \in Nat : m < n => m \in T
      PROVE  n \in T
  <2> SUFFICES ASSUME NEW b \in D, Len(b) = n
               PROVE  L[b] \in Nat
    OBVIOUS
  <2>1. CASE b = <<>>
    BY <2>1, <1>5
  <2>2. CASE b # <<>>
    <3> DEFINE x == L[Tail(b)]
    <3>1. Tail(b) \in D /\ Len(Tail(b)) \in Nat /\ Len(Tail(b)) < n /\ Head(b) \in Nat
      BY <2>2, <1>0
    <3>2. x \in Nat
      BY <3>1, <1>6
    <3>3. L[b] = Head(b) + Base * x
      BY <2>2, <1>5
    <3> HIDE DEF x, D
    <3>4. Base * x \in Nat
      BY <3>2, SizesAssumption
    <3> QED BY <3>1, <3>3, <3>4
  <2> QED BY <2>1, <2>2
<1>7. \A n \in Nat : n \in T
  <2> HIDE DEF T
  <2> QED BY <1>6, StrongInduction
<1> QED BY <1>5, <1>7 DEF L

-----------------------------------------------------------------------------
(* Fields. *)

Byte == 0..(Base - 1)
Word == {b \in Seq(Byte) : Len(b) = Width}

\* Bytes are naturals.
LEMMA BytesAreNat ==
    ASSUME NEW b \in Seq(Byte)
    PROVE  b \in Seq(Nat)
<1>1. ASSUME NEW i \in 1..Len(b) PROVE b[i] \in Nat
  <2>1. b[i] \in Byte
    OBVIOUS
  <2> QED BY <2>1, SizesAssumption DEF Byte
<1>2. b = [i \in 1..Len(b) |-> b[i]] /\ Len(b) \in Nat
  OBVIOUS
<1> QED BY <1>1, <1>2

\* The w lowest bytes of a number.
Low(w, n) == [i \in 1..w |-> (n \div Power[i - 1]) % Base]

\* They are bytes.
LEMMA LowBytes ==
    ASSUME NEW w \in Nat, NEW n \in Nat
    PROVE  Low(w, n) \in Seq(Byte) /\ Len(Low(w, n)) = w
<1>1. ASSUME NEW i \in 1..w PROVE (n \div Power[i - 1]) % Base \in Byte
  <2> DEFINE p == Power[i - 1]
  <2>1. i - 1 \in Nat
    OBVIOUS
  <2>2. p \in Nat /\ p > 0
    BY <2>1, PowerEquation
  <2> HIDE DEF p
  <2>3. n \div p \in Nat
    BY <2>2, DivMod
  <2> DEFINE q == n \div p
  <2>4. q \in Nat
    BY <2>3
  <2> HIDE DEF q
  <2>5. q % Base \in Byte
    BY <2>4, DivMod, SizesAssumption DEF Byte
  <2> QED BY <2>5 DEF q, p
<1> QED BY <1>1 DEF Low

\* A number that fits is the value of its bytes.
LEMMA LowRoundTrip ==
    \A w, n \in Nat : n < Power[w] => Value[Low(w, n)] = n
<1> DEFINE T == {w \in Nat : \A n \in Nat : n < Power[w] => Value[Low(w, n)] = n}
<1>1. 0 \in T
  <2> SUFFICES ASSUME NEW n \in Nat, n < Power[0] PROVE Value[Low(0, n)] = n
    OBVIOUS
  <2>1. n = 0
    BY PowerEquation
  <2>2. Low(0, n) = <<>>
    BY DEF Low
  <2>3. Value[<<>>] = 0
    <3>1. <<>> \in Seq(Nat)
      OBVIOUS
    <3> QED BY <3>1, ValueEquation
  <2> QED BY <2>1, <2>2, <2>3
<1>2. ASSUME NEW w \in Nat, w \in T PROVE w + 1 \in T
  <2> SUFFICES ASSUME NEW n \in Nat, n < Power[w + 1] PROVE Value[Low(w + 1, n)] = n
    OBVIOUS
  <2> DEFINE q == n \div Base
             r == n % Base
             b == Low(w + 1, n)
             x == Power[w]
  <2>1. q \in Nat /\ r \in Nat /\ r < Base /\ n = Base * q + r /\ Base \in Nat /\ Base > 0
    BY SizesAssumption, DivMod
  <2>2. x \in Nat /\ n < Base * x
    BY PowerEquation
  <2>3. q < x
    <3> HIDE DEF q, r, x
    <3>1. CASE x <= q
      <4>1. Base * x <= Base * q
        BY <2>1, <2>2, <3>1
      <4> QED BY <2>1, <2>2, <4>1
    <3> QED BY <2>1, <2>2, <3>1
  <2>4. b \in Seq(Byte) /\ Len(b) = w + 1
    <3> DEFINE v == w + 1
    <3>1. v \in Nat
      OBVIOUS
    <3> HIDE DEF v
    <3>2. Low(v, n) \in Seq(Byte) /\ Len(Low(v, n)) = v
      BY <3>1, LowBytes
    <3> QED BY <3>2 DEF v
  <2>5. b \in Seq(Nat) /\ b # <<>>
    <3> HIDE DEF b
    <3> QED BY <2>4, BytesAreNat
  <2>6. Head(b) = r
    <3>1. Head(b) = b[1]
      BY <2>5
    <3>2. b[1] = (n \div Power[0]) % Base
      BY DEF Low
    <3>3. n \div 1 = n
      OBVIOUS
    <3> QED BY <3>1, <3>2, <3>3, PowerEquation
  <2>7. Tail(b) = Low(w, q)
    <3>1. ASSUME NEW i \in 1..w PROVE Tail(b)[i] = Low(w, q)[i]
      <4> DEFINE c == Power[i - 1]
      <4>1. i - 1 \in Nat /\ (i - 1) + 1 = i /\ (i + 1) - 1 = i
        OBVIOUS
      <4>2. c \in Nat /\ c > 0 /\ Power[i] = Base * c
        BY <4>1, PowerEquation
      <4>3. Low(w, q)[i] = (q \div c) % Base
        BY DEF Low
      <4>4. b[i + 1] = (n \div Power[i]) % Base
        BY <4>1 DEF Low
      <4>5. Tail(b)[i] = b[i + 1]
        <5> HIDE DEF b
        <5> QED BY <2>4, <2>5
      <4> HIDE DEF c
      <4>6. q \div c = n \div (Base * c)
        BY <2>1, <4>2, DivTwice
      <4> QED BY <4>2, <4>3, <4>4, <4>5, <4>6
    <3>2. Tail(b) \in Seq(Nat) /\ Len(Tail(b)) = w
      <4> HIDE DEF b
      <4> QED BY <2>4, <2>5
    <3>3. Low(w, q) \in Seq(Byte) /\ Len(Low(w, q)) = w
      <4> HIDE DEF q
      <4> QED BY <2>1, LowBytes
    <3> HIDE DEF b, q
    <3> QED BY <3>1, <3>2, <3>3
  <2>8. Value[Low(w, q)] = q
    <3> HIDE DEF q
    <3> QED BY <1>2, <2>1, <2>3
  <2>9. Value[b] = Head(b) + Base * Value[Tail(b)]
    <3> HIDE DEF b
    <3> QED BY <2>5, ValueEquation
  <2> HIDE DEF b, q, r
  <2>10. r + Base * q = Base * q + r
    <3>1. Base * q \in Nat
      BY <2>1
    <3> QED BY <2>1, <3>1
  <2> QED BY <2>1, <2>6, <2>7, <2>8, <2>9, <2>10 DEF b
<1>3. \A w \in Nat : w \in T
  <2> HIDE DEF T
  <2> QED BY <1>1, <1>2, Induction
<1> QED BY <1>3

\* An unsigned int is the value of its bytes.
THEOREM BytesRoundTrip ==
    ASSUME NEW n \in Nat
    PROVE  /\ Bytes(n) \in Word
           /\ n < Power[Width] => Value[Bytes(n)] = n
<1>1. Bytes(n) = Low(Width, n)
  BY DEF Bytes, Low
<1>2. Width \in Nat
  BY SizesAssumption
<1> QED BY <1>1, <1>2, LowBytes, LowRoundTrip DEF Word

-----------------------------------------------------------------------------
(* The callback, read by read. *)

Task == [DataLenth_All : Word, DataLenth_All_Done : BOOLEAN,
         Encrypt : {b \in Seq(Byte) : Len(b) = 1}, EncryptDone : BOOLEAN,
         Verification : Word, Verification_Done : BOOLEAN]

State == [t : Task, buf : Seq(Byte), cut : BOOLEAN]

\* A field of which the first bytes were replaced, and what is left to read.
Over(old, buf) == [i \in 1..Len(old) |-> IF i <= Len(buf) THEN buf[i] ELSE old[i]]
Rest(buf, n) == IF Len(buf) < n THEN <<>> ELSE SubSeq(buf, n + 1, Len(buf))

LEMMA OverIsField ==
    ASSUME NEW old \in Seq(Byte), NEW buf \in Seq(Byte)
    PROVE  Over(old, buf) \in Seq(Byte) /\ Len(Over(old, buf)) = Len(old)
<1>1. ASSUME NEW i \in 1..Len(old)
      PROVE  (IF i <= Len(buf) THEN buf[i] ELSE old[i]) \in Byte
  <2>1. CASE i <= Len(buf)
    BY <2>1
  <2>2. CASE ~(i <= Len(buf))
    BY <2>2
  <2> QED BY <2>1, <2>2
<1>2. Len(old) \in Nat
  OBVIOUS
<1> QED BY <1>1, <1>2 DEF Over

LEMMA RestIsBytes ==
    ASSUME NEW buf \in Seq(Byte), NEW n \in Nat
    PROVE  Rest(buf, n) \in Seq(Byte)
<1>1. CASE Len(buf) < n
  BY <1>1 DEF Rest
<1>2. CASE ~(Len(buf) < n)
  BY <1>2 DEF Rest
<1> QED BY <1>1, <1>2

\* What bufferevent_read does to a field.
LEMMA ReadFieldEffect ==
    ASSUME NEW s, s.buf \in Seq(Byte), NEW f, NEW done,
           s.t[f] \in Seq(Byte), Len(s.t[f]) > 0
    PROVE  ReadField(s, f, done) =
             IF s.buf = <<>> THEN s
             ELSE [t |-> [s.t EXCEPT ![f] = Over(s.t[f], s.buf), ![done] = TRUE],
                   buf |-> Rest(s.buf, Len(s.t[f])),
                   cut |-> s.cut \/ Len(s.buf) < Len(s.t[f])]
<1> DEFINE buf == s.buf
           old == s.t[f]
           n == Len(old)
           k == IF Len(buf) < n THEN Len(buf) ELSE n
<1>1. n \in Nat /\ n > 0 /\ Len(buf) \in Nat /\ (Len(buf) = 0 <=> buf = <<>>)
  OBVIOUS
<1>2. k = 0 <=> buf = <<>>
  BY <1>1
<1>3. [i \in 1..n |-> IF i <= k THEN buf[i] ELSE old[i]] = Over(old, buf)
  BY <1>1 DEF Over
<1>4. buf # <<>> => SubSeq(buf, k + 1, Len(buf)) = Rest(buf, n)
  <2>1. SubSeq(buf, Len(buf) + 1, Len(buf)) = <<>>
    OBVIOUS
  <2> QED BY <1>1, <2>1 DEF Rest
<1>5. k < n <=> Len(buf) < n
  BY <1>1
<1>6. CASE buf = <<>>
  BY <1>2, <1>6 DEF ReadField
<1>7. CASE buf # <<>>
  BY <1>2, <1>3, <1>4, <1>5, <1>7 DEF ReadField
<1> QED BY <1>6, <1>7

\* The three reads, each of its own field.
LEMMA ReadLengthEffect ==
    ASSUME NEW s \in State, ~s.t.DataLenth_All_Done
    PROVE  ReadLength(s) =
             IF s.buf = <<>> THEN s
             ELSE [t |-> [s.t EXCEPT !.DataLenth_All = Over(s.t.DataLenth_All, s.buf),
                                     !.DataLenth_All_Done = TRUE],
                   buf |-> Rest(s.buf, Width),
                   cut |-> s.cut \/ Len(s.buf) < Width]
<1>1. s.buf \in Seq(Byte) /\ s.t \in Task
  BY DEF State
<1>2. s.t.DataLenth_All \in Seq(Byte) /\ Len(s.t.DataLenth_All) = Width /\ Width > 0
  BY <1>1, SizesAssumption DEF Task, Word
<1>3. ReadLength(s) = ReadField(s, "DataLenth_All", "DataLenth_All_Done")
  BY DEF ReadLength
<1>4. ReadField(s, "DataLenth_All", "DataLenth_All_Done") =
        IF s.buf = <<>> THEN s
        ELSE [t |-> [s.t EXCEPT !.DataLenth_All = Over(s.t.DataLenth_All, s.buf),
                                !.DataLenth_All_Done = TRUE],
              buf |-> Rest(s.buf, Len(s.t.DataLenth_All)),
              cut |-> s.cut \/ Len(s.buf) < Len(s.t.DataLenth_All)]
  BY <1>1, <1>2, ReadFieldEffect
<1> QED BY <1>2, <1>3, <1>4

LEMMA ReadEncryptEffect ==
    ASSUME NEW s \in State, ~s.t.EncryptDone, s.t.DataLenth_All_Done
    PROVE  ReadEncrypt(s) =
             IF s.buf = <<>> THEN s
             ELSE [t |-> [s.t EXCEPT !.Encrypt = Over(s.t.Encrypt, s.buf),
                                     !.EncryptDone = TRUE],
                   buf |-> Rest(s.buf, 1),
                   cut |-> s.cut \/ Len(s.buf) < 1]
<1>1. s.buf \in Seq(Byte) /\ s.t \in Task
  BY DEF State
<1>2. s.t.Encrypt \in Seq(Byte) /\ Len(s.t.Encrypt) = 1
  BY <1>1 DEF Task
<1>3. ReadEncrypt(s) = ReadField(s, "Encrypt", "EncryptDone")
  BY DEF ReadEncrypt
<1>4. ReadField(s, "Encrypt", "EncryptDone") =
        IF s.buf = <<>> THEN s
        ELSE [t |-> [s.t EXCEPT !.Encrypt = Over(s.t.Encrypt, s.buf),
                                !.EncryptDone = TRUE],
              buf |-> Rest(s.buf, Len(s.t.Encrypt)),
              cut |-> s.cut \/ Len(s.buf) < Len(s.t.Encrypt)]
  <2>1. Len(s.t.Encrypt) > 0
    BY <1>2
  <2> QED BY <1>1, <1>2, <2>1, ReadFieldEffect
<1> QED BY <1>2, <1>3, <1>4

LEMMA ReadVerificationEffect ==
    ASSUME NEW s \in State, ~s.t.Verification_Done, s.t.EncryptDone
    PROVE  ReadVerification(s) =
             IF s.buf = <<>> THEN s
             ELSE [t |-> [s.t EXCEPT !.Verification = Over(s.t.Verification, s.buf),
                                     !.Verification_Done = TRUE],
                   buf |-> Rest(s.buf, Width),
                   cut |-> s.cut \/ Len(s.buf) < Width]
<1>1. s.buf \in Seq(Byte) /\ s.t \in Task
  BY DEF State
<1>2. s.t.Verification \in Seq(Byte) /\ Len(s.t.Verification) = Width /\ Width > 0
  BY <1>1, SizesAssumption DEF Task, Word
<1>3. ReadVerification(s) = ReadField(s, "Verification", "Verification_Done")
  BY DEF ReadVerification
<1>4. ReadField(s, "Verification", "Verification_Done") =
        IF s.buf = <<>> THEN s
        ELSE [t |-> [s.t EXCEPT !.Verification = Over(s.t.Verification, s.buf),
                                !.Verification_Done = TRUE],
              buf |-> Rest(s.buf, Len(s.t.Verification)),
              cut |-> s.cut \/ Len(s.buf) < Len(s.t.Verification)]
  <2>1. Len(s.t.Verification) > 0
    BY <1>2
  <2> QED BY <1>1, <1>2, <2>1, ReadFieldEffect
<1> QED BY <1>2, <1>3, <1>4

-----------------------------------------------------------------------------
(* A header of which no field was cut. *)

\* What is still to be read of the header on its way, field by field.
UnreadLength(t) == IF t.DataLenth_All_Done THEN <<>> ELSE Bytes(frame.len)
UnreadFlag(t) == IF t.EncryptDone THEN <<>> ELSE Flag(frame.enc)
UnreadCheck(t) ==
    IF t.Verification_Done THEN <<>> ELSE Bytes(Check(frame.len, frame.enc))
Unread(t) == UnreadLength(t) \o (UnreadFlag(t) \o UnreadCheck(t))

\* What was read is what was sent.
ReadRight(t) ==
    /\ t.DataLenth_All_Done => t.DataLenth_All = Bytes(frame.len)
    /\ t.EncryptDone => (t.Encrypt[1] # 0) = frame.enc
    /\ t.Verification_Done => t.Verification = Bytes(Check(frame.len, frame.enc))

\* Before r arrives, what was taken of the stream was taken in whole fields.
Whole(s, r) == ~s.cut => s.buf \o r = Unread(s.t) /\ ReadRight(s.t)

TypeInv ==
    /\ task \in Task
    /\ stream \in Seq(Byte)
    /\ frame \in [len : Sizes, enc : BOOLEAN]
    /\ frames \in Nat \ {0}
    /\ cut \in BOOLEAN
    /\ verdict \in {"reading", "accepted", "rejected"}

\* A verdict is passed on a header of which every field was read.
VerdictInv ==
    /\ verdict = "reading" <=> ~task.Verification_Done
    /\ task.Verification_Done => task.DataLenth_All_Done /\ task.EncryptDone

WholeInv ==
    ~cut => stream = Unread(task) /\ ReadRight(task) /\ verdict # "rejected"

IInv == TypeInv /\ VerdictInv /\ WholeInv

\* The fields of a header are bytes, and a length survives them.
LEMMA HeaderFields ==
    ASSUME NEW len \in Sizes, NEW enc \in BOOLEAN
    PROVE  /\ Bytes(len) \in Word /\ Value[Bytes(len)] = len
           /\ Flag(enc) \in Seq(Byte) /\ Len(Flag(enc)) = 1 /\ (Flag(enc)[1] # 0) = enc
           /\ Check(len, enc) \in Nat /\ Check(len, enc) < Power[Width]
           /\ Bytes(Check(len, enc)) \in Word
           /\ Value[Bytes(Check(len, enc))] = Check(len, enc)
<1> DEFINE x == Power[Width]
           f == IF enc THEN 1 ELSE 2
           m == len * f + f + 1024
<1>1. len \in Nat /\ 2 * len < x /\ Width \in Nat
  BY SizesAssumption
<1>2. x \in Nat /\ x > 0
  BY <1>1, PowerEquation
<1>3. f \in {1, 2} /\ m \in Nat
  BY <1>1
<1>4. Check(len, enc) = m % x
  BY DEF Check
<1> HIDE DEF x, f, m
<1>5. m % x \in Nat /\ m % x < x
  BY <1>2, <1>3, DivMod
<1>6. Check(len, enc) \in Nat /\ Check(len, enc) < x
  BY <1>4, <1>5
<1>7. Flag(enc) \in Seq(Byte) /\ Len(Flag(enc)) = 1 /\ (Flag(enc)[1] # 0) = enc
  <2>1. 0 \in Byte /\ 1 \in Byte
    BY SizesAssumption DEF Byte
  <2>2. CASE enc
    <3>1. Flag(enc) = <<1>> /\ enc = TRUE
      BY <2>2 DEF Flag
    <3>2. <<1>> \in Seq(Byte) /\ Len(<<1>>) = 1 /\ <<1>>[1] # 0
      BY <2>1
    <3> QED BY <3>1, <3>2
  <2>3. CASE ~enc
    <3>1. Flag(enc) = <<0>> /\ enc = FALSE
      BY <2>3 DEF Flag
    <3>2. <<0>> \in Seq(Byte) /\ Len(<<0>>) = 1 /\ ~(<<0>>[1] # 0)
      BY <2>1
    <3> QED BY <3>1, <3>2
  <2> QED BY <2>2, <2>3
<1>8. Bytes(len) \in Word /\ Value[Bytes(len)] = len
  <2>1. len < x
    BY <1>1, <1>2
  <2> QED BY <1>1, <2>1, BytesRoundTrip DEF x
<1>9. Bytes(Check(len, enc)) \in Word /\ Value[Bytes(Check(len, enc))] = Check(len, enc)
  <2> DEFINE c == Check(len, enc)
  <2>1. c \in Nat /\ c < Power[Width]
    BY <1>6 DEF x
  <2> HIDE DEF c
  <2>2. Bytes(c) \in Word /\ Value[Bytes(c)] = c
    BY <2>1, BytesRoundTrip
  <2> QED BY <2>2 DEF c
<1> QED BY <1>6, <1>7, <1>8, <1>9 DEF x

\* A field that is there from the first byte to the last is read as it is.
LEMMA WholeField ==
    ASSUME NEW buf \in Seq(Byte), NEW r \in Seq(Byte), NEW F \in Seq(Byte),
           NEW G \in Seq(Byte), NEW old \in Seq(Byte), Len(old) = Len(F),
           buf \o r = F \o G, ~(Len(buf) < Len(F))
    PROVE  Over(old, buf) = F /\ Rest(buf, Len(F)) \o r = G
<1> DEFINE n == Len(F)
           tl == SubSeq(buf, n + 1, Len(buf))
<1>1. n \in Nat /\ Len(buf) \in Nat /\ n <= Len(buf)
  OBVIOUS
<1>2. Len(buf) + Len(r) = n + Len(G)
  <2>1. Len(buf \o r) = Len(F \o G)
    OBVIOUS
  <2> QED BY <2>1
<1>3. ASSUME NEW i \in 1..n PROVE buf[i] = F[i]
  <2>1. (buf \o r)[i] = buf[i] /\ (F \o G)[i] = F[i]
    BY <1>1
  <2> QED BY <2>1
<1>4. Over(old, buf) = F
  <2>1. Over(old, buf) = [i \in 1..n |-> F[i]]
    BY <1>1, <1>3 DEF Over
  <2> QED BY <2>1
<1>5. tl \in Seq(Byte) /\ Len(tl) = Len(buf) - n
  BY <1>1
<1>6. ASSUME NEW i \in 1..Len(G) PROVE (tl \o r)[i] = G[i]
  <2>1. G[i] = (F \o G)[n + i]
    OBVIOUS
  <2>2. CASE i <= Len(buf) - n
    <3>1. tl[i] = buf[n + i]
      BY <1>1, <2>2
    <3>2. (buf \o r)[n + i] = buf[n + i]
      BY <1>1, <2>2
    <3>3. (tl \o r)[i] = tl[i]
      BY <1>5, <2>2
    <3> QED BY <2>1, <3>1, <3>2, <3>3
  <2>3. CASE i > Len(buf) - n
    <3>1. (buf \o r)[n + i] = r[n + i - Len(buf)]
      BY <1>1, <1>2, <2>3
    <3>2. (tl \o r)[i] = r[i - Len(tl)]
      <4> HIDE DEF tl
      <4> QED BY <1>1, <1>2, <1>5, <2>3
    <3>3. i - Len(tl) = n + i - Len(buf)
      <4> HIDE DEF tl
      <4> QED BY <1>1, <1>5
    <3> QED BY <2>1, <3>1, <3>2, <3>3
  <2> QED BY <1>1, <2>2, <2>3
<1>7. tl \o r = G
  <2>1. tl \o r \in Seq(Byte) /\ Len(tl \o r) = Len(G)
    <3> HIDE DEF tl
    <3> QED BY <1>1, <1>2, <1>5
  <2> DEFINE z == tl \o r
  <2>2. \A i \in 1..Len(G) : z[i] = G[i]
    BY <1>6
  <2>3. z \in Seq(Byte) /\ Len(z) = Len(G)
    BY <2>1
  <2> HIDE DEF z
  <2>4. z = [i \in 1..Len(z) |-> z[i]] /\ G = [i \in 1..Len(G) |-> G[i]]
    BY <2>3
  <2>5. z = G
    BY <2>2, <2>3, <2>4
  <2> QED BY <2>5 DEF z
<1>8. Rest(buf, n) = tl
  BY <1>1 DEF Rest
<1> QED BY <1>4, <1>7, <1>8

\* A task of which one field was read.
LEMMA TaskWithLength ==
    ASSUME NEW t \in Task, NEW v \in Word
    PROVE  LET u == [t EXCEPT !.DataLenth_All = v, !.DataLenth_All_Done = TRUE]
           IN /\ u \in Task
              /\ u.DataLenth_All = v /\ u.DataLenth_All_Done
              /\ u.Encrypt = t.Encrypt /\ u.EncryptDone = t.EncryptDone
              /\ u.Verification = t.Verification
              /\ u.Verification_Done = t.Verification_Done
  BY DEF Task

LEMMA TaskWithEncrypt ==
    ASSUME NEW t \in Task, NEW v \in Seq(Byte), Len(v) = 1
    PROVE  LET u == [t EXCEPT !.Encrypt = v, !.EncryptDone = TRUE]
           IN /\ u \in Task
              /\ u.Encrypt = v /\ u.EncryptDone
              /\ u.DataLenth_All = t.DataLenth_All
              /\ u.DataLenth_All_Done = t.DataLenth_All_Done
              /\ u.Verification = t.Verification
              /\ u.Verification_Done = t.Verification_Done
  BY DEF Task

LEMMA TaskWithVerification ==
    ASSUME NEW t \in Task, NEW v \in Word
    PROVE  LET u == [t EXCEPT !.Verification = v, !.Verification_Done = TRUE]
           IN /\ u \in Task
              /\ u.Verification = v /\ u.Verification_Done
              /\ u.DataLenth_All = t.DataLenth_All
              /\ u.DataLenth_All_Done = t.DataLenth_All_Done
              /\ u.Encrypt = t.Encrypt /\ u.EncryptDone = t.EncryptDone
  BY DEF Task

\* Each read keeps Whole; the first leaves a length read, if there is a byte.
LEMMA ReadLengthWhole ==
    ASSUME NEW s \in State, NEW r \in Seq(Byte), Whole(s, r),
           frame \in [len : Sizes, enc : BOOLEAN]
    PROVE  /\ ReadLength(s) \in State /\ Whole(ReadLength(s), r)
           /\ s.buf # <<>> => ReadLength(s).t.DataLenth_All_Done
           /\ ReadLength(s).t.Verification_Done = s.t.Verification_Done
<1> DEFINE R == ReadLength(s)
           old == s.t.DataLenth_All
           F == Bytes(frame.len)
           G == UnreadFlag(s.t) \o UnreadCheck(s.t)
<1>1. s.t \in Task /\ s.buf \in Seq(Byte) /\ s.cut \in BOOLEAN
  BY DEF State
<1>2. old \in Seq(Byte) /\ Len(old) = Width /\ Width \in Nat
  BY <1>1, SizesAssumption DEF Task, Word
<1>3. CASE s.t.DataLenth_All_Done \/ s.buf = <<>>
  <2>1. R = s
    <3>1. CASE s.t.DataLenth_All_Done
      BY <3>1 DEF ReadLength
    <3>2. CASE ~s.t.DataLenth_All_Done
      BY <1>3, <3>2, ReadLengthEffect
    <3> QED BY <3>1, <3>2
  <2> QED BY <1>3, <2>1
<1>4. CASE ~s.t.DataLenth_All_Done /\ s.buf # <<>>
  <2> DEFINE v == Over(old, s.buf)
             w == Rest(s.buf, Width)
  <2>1. R = [t |-> [s.t EXCEPT !.DataLenth_All = v, !.DataLenth_All_Done = TRUE],
             buf |-> w, cut |-> s.cut \/ Len(s.buf) < Width]
    BY <1>4, ReadLengthEffect
  <2>2. v \in Word /\ w \in Seq(Byte)
    BY <1>1, <1>2, OverIsField, RestIsBytes DEF Word
  <2>3. ~s.cut /\ ~(Len(s.buf) < Width) => v = F /\ w \o r = G /\ ReadRight(s.t)
    <3> SUFFICES ASSUME ~s.cut, ~(Len(s.buf) < Width)
                 PROVE  v = F /\ w \o r = G /\ ReadRight(s.t)
      OBVIOUS
    <3>1. s.buf \o r = F \o G /\ ReadRight(s.t)
      BY <1>4 DEF Whole, Unread, UnreadLength
    <3>2. F \in Seq(Byte) /\ Len(F) = Width
      BY HeaderFields DEF Word
    <3>3. G \in Seq(Byte)
      <4>1. Flag(frame.enc) \in Seq(Byte) /\ Bytes(Check(frame.len, frame.enc)) \in Seq(Byte)
        BY HeaderFields DEF Word
      <4>2. UnreadFlag(s.t) \in Seq(Byte) /\ UnreadCheck(s.t) \in Seq(Byte)
        BY <4>1 DEF UnreadFlag, UnreadCheck
      <4> QED BY <4>2
    <3> HIDE DEF F, G
    <3>4. Over(old, s.buf) = F /\ Rest(s.buf, Len(F)) \o r = G
      <4> DEFINE buf == s.buf
      <4>1. buf \in Seq(Byte) /\ buf \o r = F \o G /\ ~(Len(buf) < Len(F))
        BY <1>1, <3>1, <3>2
      <4>2. old \in Seq(Byte) /\ Len(old) = Len(F)
        BY <1>2, <3>2
      <4> HIDE DEF old, buf
      <4>3. Over(old, buf) = F /\ Rest(buf, Len(F)) \o r = G
        BY <3>2, <3>3, <4>1, <4>2, WholeField
      <4> QED BY <4>3 DEF buf
    <3> QED BY <3>1, <3>2, <3>4
  <2> HIDE DEF v, w, F
  <2> DEFINE u == [s.t EXCEPT !.DataLenth_All = v, !.DataLenth_All_Done = TRUE]
             c == s.cut \/ Len(s.buf) < Width
  <2>4. R = [t |-> u, buf |-> w, cut |-> c] /\ R.t = u /\ R.buf = w /\ R.cut = c
    BY <2>1
  <2>5. /\ u \in Task
        /\ u.DataLenth_All = v /\ u.DataLenth_All_Done
        /\ u.Encrypt = s.t.Encrypt /\ u.EncryptDone = s.t.EncryptDone
        /\ u.Verification = s.t.Verification
        /\ u.Verification_Done = s.t.Verification_Done
    BY <1>1, <2>2, TaskWithLength
  <2> HIDE DEF u, c
  <2>6. R \in State
    <3>1. c \in BOOLEAN
      BY <1>1 DEF c
    <3> QED BY <2>2, <2>4, <2>5, <3>1 DEF State
  <2>7. Whole(R, r)
    <3> SUFFICES ASSUME ~R.cut PROVE R.buf \o r = Unread(R.t) /\ ReadRight(R.t)
      BY DEF Whole
    <3>1. v = F /\ w \o r = G /\ ReadRight(s.t)
      BY <2>3, <2>4 DEF c
    <3>2. ReadRight(R.t)
      BY <2>4, <2>5, <3>1 DEF ReadRight, F
    <3>3. Unread(R.t) = <<>> \o G
      BY <2>4, <2>5 DEF Unread, UnreadLength, UnreadFlag, UnreadCheck
    <3>4. <<>> \o G = G
      <4>1. G \in Seq(Byte)
        <5> HIDE DEF G
        <5>1. w \o r \in Seq(Byte)
          BY <2>2
        <5> QED BY <3>1, <5>1
      <4> HIDE DEF G
      <4> QED BY <4>1
    <3> QED BY <2>4, <3>1, <3>2, <3>3, <3>4
  <2> QED BY <2>4, <2>5, <2>6, <2>7
<1> QED BY <1>3, <1>4

LEMMA ReadEncryptWhole ==
    ASSUME NEW s \in State, NEW r \in Seq(Byte), Whole(s, r),
           frame \in [len : Sizes, enc : BOOLEAN], s.t.DataLenth_All_Done
    PROVE  /\ ReadEncrypt(s) \in State /\ Whole(ReadEncrypt(s), r)
           /\ ReadEncrypt(s).t.DataLenth_All_Done
           /\ ReadEncrypt(s).t.Verification_Done = s.t.Verification_Done
<1> DEFINE R == ReadEncrypt(s)
           old == s.t.Encrypt
           F == Flag(frame.enc)
           G == UnreadCheck(s.t)
<1>1. s.t \in Task /\ s.buf \in Seq(Byte) /\ s.cut \in BOOLEAN
  BY DEF State
<1>2. old \in Seq(Byte) /\ Len(old) = 1
  BY <1>1 DEF Task
<1>3. CASE s.t.EncryptDone \/ s.buf = <<>>
  <2>1. R = s
    <3>1. CASE s.t.EncryptDone
      BY <3>1 DEF ReadEncrypt
    <3>2. CASE ~s.t.EncryptDone
      BY <1>3, <3>2, ReadEncryptEffect
    <3> QED BY <3>1, <3>2
  <2> QED BY <2>1
<1>4. CASE ~s.t.EncryptDone /\ s.buf # <<>>
  <2> DEFINE v == Over(old, s.buf)
             w == Rest(s.buf, 1)
             u == [s.t EXCEPT !.Encrypt = v, !.EncryptDone = TRUE]
             c == s.cut \/ Len(s.buf) < 1
  <2>1. R = [t |-> u, buf |-> w, cut |-> c] /\ R.t = u /\ R.buf = w /\ R.cut = c
    <3>1. R = [t |-> u, buf |-> w, cut |-> c]
      BY <1>4, ReadEncryptEffect
    <3> HIDE DEF R, u, w, c
    <3> QED BY <3>1
  <2>2. v \in Seq(Byte) /\ Len(v) = 1 /\ w \in Seq(Byte)
    BY <1>1, <1>2, OverIsField, RestIsBytes
  <2>3. G \in Seq(Byte) /\ <<>> \o G = G /\ <<>> \o (F \o G) = F \o G /\ F \in Seq(Byte) /\ Len(F) = 1
    <3>1. F \in Seq(Byte) /\ Len(F) = 1 /\ Bytes(Check(frame.len, frame.enc)) \in Seq(Byte)
      BY HeaderFields DEF Word
    <3>2. G \in Seq(Byte)
      BY <3>1 DEF UnreadCheck
    <3> HIDE DEF F, G
    <3> QED BY <3>1, <3>2
  <2>4. ~c => v = F /\ w \o r = G /\ ReadRight(s.t)
    <3> SUFFICES ASSUME ~s.cut, ~(Len(s.buf) < 1)
                 PROVE  v = F /\ w \o r = G /\ ReadRight(s.t)
      OBVIOUS
    <3>1. s.buf \o r = F \o G /\ ReadRight(s.t)
      <4>1. s.buf \o r = <<>> \o (F \o G) /\ ReadRight(s.t)
        BY <1>4 DEF Whole, Unread, UnreadLength, UnreadFlag
      <4> QED BY <2>3, <4>1
    <3> DEFINE buf == s.buf
    <3>2. buf \in Seq(Byte) /\ buf \o r = F \o G /\ ~(Len(buf) < Len(F))
      BY <1>1, <2>3, <3>1
    <3>3. old \in Seq(Byte) /\ Len(old) = Len(F)
      BY <1>2, <2>3
    <3>4. F \in Seq(Byte) /\ G \in Seq(Byte)
      BY <2>3
    <3> HIDE DEF old, buf, F, G
    <3>5. Over(old, buf) = F /\ Rest(buf, Len(F)) \o r = G
      BY <3>2, <3>3, <3>4, WholeField
    <3> QED BY <2>3, <3>1, <3>5 DEF buf
  <2>5. /\ u \in Task
        /\ u.Encrypt = v /\ u.EncryptDone
        /\ u.DataLenth_All = s.t.DataLenth_All
        /\ u.DataLenth_All_Done = s.t.DataLenth_All_Done
        /\ u.Verification = s.t.Verification
        /\ u.Verification_Done = s.t.Verification_Done
    <3> HIDE DEF v
    <3> QED BY <1>1, <2>2, TaskWithEncrypt
  <2> HIDE DEF v, w, u, F
  <2>6. R \in State
    <3>1. c \in BOOLEAN
      BY <1>1
    <3> HIDE DEF c
    <3> QED BY <2>1, <2>2, <2>5, <3>1 DEF State
  <2>7. Whole(R, r)
    <3> HIDE DEF c
    <3> SUFFICES ASSUME ~R.cut PROVE R.buf \o r = Unread(R.t) /\ ReadRight(R.t)
      BY DEF Whole
    <3>1. v = F /\ w \o r = G /\ ReadRight(s.t)
      BY <2>1, <2>4
    <3>2. ReadRight(R.t)
      <4>1. (F[1] # 0) = frame.enc
        BY HeaderFields DEF F
      <4> QED BY <2>1, <2>5, <3>1, <4>1 DEF ReadRight
    <3>3. Unread(R.t) = <<>> \o (<<>> \o G)
      BY <2>1, <2>5 DEF Unread, UnreadLength, UnreadFlag, UnreadCheck
    <3> QED BY <2>1, <2>3, <3>1, <3>2, <3>3
  <2> QED BY <2>1, <2>5, <2>6, <2>7
<1> QED BY <1>3, <1>4

LEMMA ReadVerificationWhole ==
    ASSUME NEW s \in State, NEW r \in Seq(Byte), Whole(s, r),
           frame \in [len : Sizes, enc : BOOLEAN], s.t.DataLenth_All_Done,
           ~s.t.Verification_Done
    PROVE  /\ ReadVerification(s) \in State /\ Whole(ReadVerification(s), r)
           /\ ReadVerification(s).t.Verification_Done =>
                /\ ReadVerification(s).t.DataLenth_All_Done
                /\ ReadVerification(s).t.EncryptDone
<1> DEFINE R == ReadVerification(s)
           old == s.t.Verification
           F == Bytes(Check(frame.len, frame.enc))
<1>1. s.t \in Task /\ s.buf \in Seq(Byte) /\ s.cut \in BOOLEAN
  BY DEF State
<1>2. old \in Seq(Byte) /\ Len(old) = Width /\ Width \in Nat
  BY <1>1, SizesAssumption DEF Task, Word
<1>3. CASE ~s.t.EncryptDone \/ s.buf = <<>>
  <2>1. R = s
    <3>1. CASE ~s.t.EncryptDone
      BY <3>1 DEF ReadVerification
    <3>2. CASE s.t.EncryptDone
      BY <1>3, <3>2, ReadVerificationEffect
    <3> QED BY <3>1, <3>2
  <2> QED BY <2>1
<1>4. CASE s.t.EncryptDone /\ s.buf # <<>>
  <2> DEFINE v == Over(old, s.buf)
             w == Rest(s.buf, Width)
             u == [s.t EXCEPT !.Verification = v, !.Verification_Done = TRUE]
             c == s.cut \/ Len(s.buf) < Width
  <2>1. R = [t |-> u, buf |-> w, cut |-> c] /\ R.t = u /\ R.buf = w /\ R.cut = c
    <3>1. R = [t |-> u, buf |-> w, cut |-> c]
      BY <1>4, ReadVerificationEffect
    <3> HIDE DEF R, u, w, c
    <3> QED BY <3>1
  <2>2. v \in Word /\ w \in Seq(Byte)
    BY <1>1, <1>2, OverIsField, RestIsBytes DEF Word
  <2>3. F \in Seq(Byte) /\ Len(F) = Width /\ <<>> \o (<<>> \o F) = F \o <<>>
    <3>1. F \in Seq(Byte) /\ Len(F) = Width
      BY HeaderFields DEF Word
    <3> HIDE DEF F
    <3> QED BY <3>1
  <2>4. ~c => v = F /\ w \o r = <<>> /\ ReadRight(s.t)
    <3> SUFFICES ASSUME ~s.cut, ~(Len(s.buf) < Width)
                 PROVE  v = F /\ w \o r = <<>> /\ ReadRight(s.t)
      OBVIOUS
    <3>1. s.buf \o r = F \o <<>> /\ ReadRight(s.t)
      <4>1. s.buf \o r = <<>> \o (<<>> \o F) /\ ReadRight(s.t)
        BY <1>4 DEF Whole, Unread, UnreadLength, UnreadFlag, UnreadCheck
      <4> QED BY <2>3, <4>1
    <3> DEFINE buf == s.buf
               G == <<>>
    <3>2. buf \in Seq(Byte) /\ buf \o r = F \o G /\ ~(Len(buf) < Len(F))
      BY <1>1, <2>3, <3>1
    <3>3. old \in Seq(Byte) /\ Len(old) = Len(F) /\ G \in Seq(Byte)
      BY <1>2, <2>3
    <3>4. F \in Seq(Byte) /\ G \in Seq(Byte)
      BY <2>3
    <3> HIDE DEF old, buf, F, G
    <3>5. Over(old, buf) = F /\ Rest(buf, Len(F)) \o r = G
      BY <3>2, <3>3, <3>4, WholeField
    <3> QED BY <2>3, <3>1, <3>5 DEF buf, G
  <2>5. /\ u \in Task
        /\ u.Verification = v /\ u.Verification_Done
        /\ u.DataLenth_All = s.t.DataLenth_All
        /\ u.DataLenth_All_Done = s.t.DataLenth_All_Done
        /\ u.Encrypt = s.t.Encrypt /\ u.EncryptDone = s.t.EncryptDone
    <3> HIDE DEF v
    <3> QED BY <1>1, <2>2, TaskWithVerification
  <2> HIDE DEF v, w, u, F
  <2>6. R \in State
    <3>1. c \in BOOLEAN
      BY <1>1
    <3> HIDE DEF c
    <3> QED BY <2>1, <2>2, <2>5, <3>1 DEF State
  <2>7. Whole(R, r)
    <3> HIDE DEF c
    <3> SUFFICES ASSUME ~R.cut PROVE R.buf \o r = Unread(R.t) /\ ReadRight(R.t)
      BY DEF Whole
    <3>1. v = F /\ w \o r = <<>> /\ ReadRight(s.t)
      BY <2>1, <2>4
    <3>2. ReadRight(R.t)
      BY <2>1, <2>5, <3>1 DEF ReadRight, F
    <3>3. Unread(R.t) = <<>> \o (<<>> \o <<>>)
      BY <1>4, <2>1, <2>5 DEF Unread, UnreadLength, UnreadFlag, UnreadCheck
    <3>4. <<>> \o (<<>> \o <<>>) = <<>>
      OBVIOUS
    <3> QED BY <2>1, <3>1, <3>2, <3>3, <3>4
  <2> QED BY <1>4, <2>1, <2>5, <2>6, <2>7
<1> QED BY <1>3, <1>4

\* Init establishes the invariant.
LEMMA InitInvariant == Init => IInv
<1> SUFFICES ASSUME Init PROVE IInv
  OBVIOUS
<1> DEFINE A == Bytes(frame.len)
           F == Flag(frame.enc)
           C == Bytes(Check(frame.len, frame.enc))
<1>1. frame \in [len : Sizes, enc : BOOLEAN]
  BY DEF Init
<1>2. A \in Word /\ F \in Seq(Byte) /\ C \in Word
  BY <1>1, HeaderFields
<1>3. Bytes(0) \in Word /\ 0 \in Byte
  BY BytesRoundTrip, SizesAssumption DEF Byte
<1>4. task \in Task /\ ~task.DataLenth_All_Done /\ ~task.EncryptDone /\ ~task.Verification_Done
  <2> DEFINE z == Bytes(0)
  <2>1. z \in Word /\ <<0>> \in {b \in Seq(Byte) : Len(b) = 1}
    BY <1>3
  <2>2. task = [DataLenth_All |-> z, DataLenth_All_Done |-> FALSE,
                Encrypt |-> <<0>>, EncryptDone |-> FALSE,
                Verification |-> z, Verification_Done |-> FALSE]
    BY DEF Init
  <2> HIDE DEF z
  <2> QED BY <2>1, <2>2 DEF Task
<1>5. stream = (A \o F) \o C
  BY DEF Init, Header
<1>6. Unread(task) = A \o (F \o C)
  BY <1>4 DEF Unread, UnreadLength, UnreadFlag, UnreadCheck
<1>7. (A \o F) \o C = A \o (F \o C) /\ (A \o F) \o C \in Seq(Byte)
  <2> HIDE DEF A, F, C
  <2> QED BY <1>2 DEF Word
<1>8. TypeInv
  <2>1. stream \in Seq(Byte)
    BY <1>5, <1>7
  <2>2. frames = 1 /\ cut = FALSE /\ verdict = "reading"
    BY DEF Init
  <2>3. frames \in Nat \ {0}
    BY <2>2
  <2>4. cut \in BOOLEAN
    BY <2>2
  <2>5. verdict \in {"reading", "accepted", "rejected"}
    BY <2>2
  <2>6. task \in Task
    BY <1>4
  <2> QED BY <1>1, <2>1, <2>3, <2>4, <2>5, <2>6 DEF TypeInv
<1>9. VerdictInv
  BY <1>4 DEF Init, VerdictInv
<1>10. WholeInv
  BY <1>4, <1>5, <1>6, <1>7 DEF Init, WholeInv, ReadRight
<1> QED BY <1>8, <1>9, <1>10 DEF IInv

\* The callback keeps it, wherever the bytes that have arrived end.
LEMMA CallbackInvariant ==
    ASSUME IInv, NEW k \in 1..Len(stream), On_Read_CallBack(k)
    PROVE  IInv'
<1> DEFINE r == SubSeq(stream, k + 1, Len(stream))
           s0 == [t |-> task, buf |-> SubSeq(stream, 1, k), cut |-> cut]
           s1 == ReadLength(s0)
           s2 == ReadEncrypt(s1)
           s3 == ReadVerification(s2)
<1>1. TypeInv /\ VerdictInv /\ WholeInv
  BY DEF IInv
<1>2. stream \in Seq(Byte) /\ Len(stream) \in Nat /\ k \in 1..Len(stream) /\ task \in Task /\ cut \in BOOLEAN
  BY <1>1 DEF TypeInv
<1>3. /\ SubSeq(stream, 1, k) \in Seq(Byte) /\ SubSeq(stream, 1, k) # <<>>
      /\ r \in Seq(Byte) /\ SubSeq(stream, 1, k) \o r = stream
  BY <1>2
<1>4. verdict = "reading" /\ ~task.Verification_Done
  BY <1>1 DEF On_Read_CallBack, VerdictInv
<1>5. s0 \in State /\ s0.buf # <<>> /\ s0.t = task
  BY <1>2, <1>3 DEF State
<1>6. Whole(s0, r)
  BY <1>1, <1>3 DEF Whole, WholeInv
<1>7. frame \in [len : Sizes, enc : BOOLEAN]
  BY <1>1 DEF TypeInv
<1>8. /\ task' = s3.t /\ cut' = s3.cut /\ stream' = s3.buf \o r
      /\ verdict' = (IF ~s3.t.Verification_Done THEN "reading"
                     ELSE IF HeaderAgrees(s3.t) THEN "accepted" ELSE "rejected")
      /\ frame' = frame /\ frames' = frames
  BY DEF On_Read_CallBack
<1> HIDE DEF s0, r
<1>9. s1 \in State /\ Whole(s1, r) /\ s1.t.DataLenth_All_Done /\ ~s1.t.Verification_Done
  BY <1>3, <1>4, <1>5, <1>6, <1>7, ReadLengthWhole
<1> HIDE DEF s1
<1>10. s2 \in State /\ Whole(s2, r) /\ s2.t.DataLenth_All_Done /\ ~s2.t.Verification_Done
  BY <1>3, <1>7, <1>9, ReadEncryptWhole
<1> HIDE DEF s2
<1>11. /\ s3 \in State /\ Whole(s3, r)
       /\ s3.t.Verification_Done => s3.t.DataLenth_All_Done /\ s3.t.EncryptDone
  BY <1>3, <1>7, <1>10, ReadVerificationWhole
<1> HIDE DEF s3
<1>12. s3.t \in Task /\ s3.buf \in Seq(Byte) /\ s3.cut \in BOOLEAN /\ s3.buf \o r \in Seq(Byte)
  <2>1. s3.t \in Task /\ s3.buf \in Seq(Byte) /\ s3.cut \in BOOLEAN
    BY <1>11 DEF State
  <2> QED BY <1>3, <2>1
<1>13. TypeInv'
  <2>1. verdict' \in {"reading", "accepted", "rejected"}
    BY <1>8
  <2> QED BY <1>1, <1>8, <1>12, <2>1 DEF TypeInv
<1>14. VerdictInv'
  BY <1>8, <1>11 DEF VerdictInv
<1>15. WholeInv'
  <2> SUFFICES ASSUME ~s3.cut
               PROVE  stream' = Unread(task)' /\ ReadRight(task)' /\ verdict' # "rejected"
    BY <1>8 DEF WholeInv
  <2>1. stream' = Unread(s3.t) /\ ReadRight(s3.t)
    BY <1>8, <1>11 DEF Whole
  <2>2. Unread(task)' = Unread(s3.t)
    BY <1>8 DEF Unread, UnreadLength, UnreadFlag, UnreadCheck
  <2>3. ReadRight(task)'
    BY <1>8, <2>1 DEF ReadRight
  <2>4. ASSUME s3.t.Verification_Done PROVE HeaderAgrees(s3.t)
    <3>1. /\ s3.t.DataLenth_All = Bytes(frame.len) /\ (s3.t.Encrypt[1] # 0) = frame.enc
          /\ s3.t.Verification = Bytes(Check(frame.len, frame.enc))
      BY <1>11, <2>1, <2>4 DEF ReadRight
    <3> QED BY <1>7, <3>1, HeaderFields DEF HeaderAgrees
  <2> QED BY <1>8, <2>1, <2>2, <2>3, <2>4
<1> QED BY <1>13, <1>14, <1>15 DEF IInv

\* The header of the next message finds the fields of the answer.
LEMMA AnswerInvariant ==
    ASSUME IInv, NEW o \in Sizes, NEW n \in Sizes, Answer(o, n)
    PROVE  IInv'
<1> DEFINE A == Bytes(n)
           C == Bytes(Check(n, frame.enc))
           u == [task EXCEPT !.DataLenth_All = Bytes(o),
                             !.Verification = Bytes(Check(o, frame.enc)),
                             !.DataLenth_All_Done = FALSE,
                             !.Verification_Done = FALSE]
<1>1. TypeInv /\ VerdictInv /\ WholeInv
  BY DEF IInv
<1>2. task \in Task /\ frame \in [len : Sizes, enc : BOOLEAN] /\ frame.enc \in BOOLEAN
  BY <1>1 DEF TypeInv
<1>3. A \in Word /\ C \in Word /\ Bytes(o) \in Word /\ Bytes(Check(o, frame.enc)) \in Word
  BY <1>2, HeaderFields
<1>4. /\ verdict = "accepted" /\ (task.Encrypt[1] # 0) = frame.enc
      /\ frames' = frames + 1 /\ frame' = [frame EXCEPT !.len = n] /\ task' = u
      /\ stream' = Header(frame', FALSE) /\ cut' = FALSE /\ verdict' = "reading"
  BY DEF Answer, Right
<1>5. frame' \in [len : Sizes, enc : BOOLEAN] /\ frame'.len = n /\ frame'.enc = frame.enc
  BY <1>2, <1>4
<1>6. /\ u \in Task /\ ~u.DataLenth_All_Done /\ ~u.Verification_Done
      /\ u.EncryptDone = task.EncryptDone /\ u.Encrypt = task.Encrypt
  <2> DEFINE x == Bytes(o)
             y == Bytes(Check(o, frame.enc))
  <2>1. x \in Word /\ y \in Word
    BY <1>3
  <2>2. u = [task EXCEPT !.DataLenth_All = x, !.Verification = y,
                         !.DataLenth_All_Done = FALSE, !.Verification_Done = FALSE]
    OBVIOUS
  <2> HIDE DEF x, y, u
  <2>3. u \in Task
    BY <1>2, <2>1, <2>2 DEF Task
  <2>4. ~u.DataLenth_All_Done /\ ~u.Verification_Done
    BY <1>2, <2>1, <2>2 DEF Task
  <2>5. u.EncryptDone = task.EncryptDone
    BY <1>2, <2>2 DEF Task
  <2>6. u.Encrypt = task.Encrypt
    BY <1>2, <2>2 DEF Task
  <2> QED BY <2>3, <2>4, <2>5, <2>6
<1> HIDE DEF u
<1>7. stream' = (A \o <<>>) \o C
  BY <1>4, <1>5 DEF Header
<1>8. (A \o <<>>) \o C = A \o (<<>> \o C) /\ (A \o <<>>) \o C \in Seq(Byte)
  <2> HIDE DEF A, C
  <2> QED BY <1>3 DEF Word
<1>9. u.EncryptDone
  BY <1>1, <1>4, <1>6 DEF VerdictInv
<1>10. Unread(task)' = A \o (<<>> \o C)
  BY <1>4, <1>5, <1>6, <1>9 DEF Unread, UnreadLength, UnreadFlag, UnreadCheck
<1>11. (u.Encrypt[1] # 0) = frame.enc
  BY <1>4, <1>6
<1>12. TypeInv'
  <2>1. stream' \in Seq(Byte)
    BY <1>7, <1>8
  <2>2. frames' \in Nat \ {0}
    BY <1>1, <1>4 DEF TypeInv
  <2> QED BY <1>4, <1>5, <1>6, <2>1, <2>2 DEF TypeInv
<1>13. VerdictInv'
  BY <1>4, <1>6 DEF VerdictInv
<1>14. WholeInv'
  BY <1>4, <1>5, <1>6, <1>7, <1>8, <1>9, <1>10, <1>11 DEF WholeInv, ReadRight
<1> QED BY <1>12, <1>13, <1>14 DEF IInv

\* IInv is inductive.
LEMMA StepInvariant == IInv /\ [Next]_vars => IInv'
<1> SUFFICES ASSUME IInv, [Next]_vars PROVE IInv'
  OBVIOUS
<1>1. CASE \E k \in 1..Len(stream) : On_Read_CallBack(k)
  BY <1>1, CallbackInvariant
<1>2. CASE \E o \in Sizes, n \in Sizes : Answer(o, n)
  BY <1>2, AnswerInvariant
<1>3. CASE UNCHANGED vars
  BY <1>3 DEF vars, IInv, TypeInv, VerdictInv, WholeInv, Unread, UnreadLength,
              UnreadFlag, UnreadCheck, ReadRight
<1> QED BY <1>1, <1>2, <1>3 DEF Next

THEOREM Invariance == Spec => []IInv
<1>1. Init => IInv
  BY InitInvariant
<1>2. IInv /\ [Next]_vars => IInv'
  BY StepInvariant
<1> QED BY <1>1, <1>2, PTL DEF Spec

\* A header of which no field was cut is accepted as it was sent, in the first
\* frame of a connection and in later ones, whatever the fields held before,
\* for messages of every length and integers of every width.
THEOREM WholeFields == Spec => []WholeFieldsSuffice
<1>1. IInv => WholeFieldsSuffice
  <2> SUFFICES ASSUME IInv, ~cut, verdict = "accepted"
               PROVE  Right(task) /\ stream = <<>>
    BY DEF IInv, WholeInv, WholeFieldsSuffice
  <2>1. task.DataLenth_All_Done /\ task.EncryptDone /\ task.Verification_Done
    BY DEF IInv, VerdictInv
  <2>2. stream = Unread(task) /\ ReadRight(task)
    BY DEF IInv, WholeInv
  <2>3. Unread(task) = <<>> \o (<<>> \o <<>>)
    BY <2>1 DEF Unread, UnreadLength, UnreadFlag, UnreadCheck
  <2>4. <<>> \o (<<>> \o <<>>) = <<>>
    OBVIOUS
  <2>5. frame \in [len : Sizes, enc : BOOLEAN]
    BY DEF IInv, TypeInv
  <2>6. Value[task.DataLenth_All] = frame.len
    BY <2>1, <2>2, <2>5, HeaderFields DEF ReadRight
  <2> QED BY <2>1, <2>2, <2>3, <2>4, <2>6 DEF ReadRight, Right
<1> QED BY <1>1, Invariance, PTL

-----------------------------------------------------------------------------
(* The first header of a connection, cut anywhere. *)

Sent == Header(frame, TRUE)

\* A field of which k bytes were read, those after the first j of the header;
\* the others are still 0.
Part(j, k) == [i \in 1..Width |-> IF i <= k THEN Sent[j + i] ELSE 0]

\* k1, k2 and k3 bytes were read into the three fields, the rest is to come.
Read(t, rest, k1, k2, k3) ==
    /\ k1 \in 0..Width /\ k2 \in 0..1 /\ k3 \in 0..Width
    /\ k2 > 0 => k1 > 0
    /\ k3 > 0 => k2 > 0
    /\ t.DataLenth_All_Done <=> k1 > 0
    /\ t.EncryptDone <=> k2 > 0
    /\ t.Verification_Done <=> k3 > 0
    /\ t.DataLenth_All = Part(0, k1)
    /\ t.Encrypt = <<IF k2 > 0 THEN Sent[k1 + 1] ELSE 0>>
    /\ t.Verification = Part(k1 + k2, k3)
    /\ rest = SubSeq(Sent, (k1 + k2 + k3) + 1, Len(Sent))

FirstInv ==
    frames = 1 =>
      /\ \E k1, k2, k3 \in Nat : Read(task, stream, k1, k2, k3)
      /\ verdict = "accepted" => HeaderAgrees(task)

\* The header is bytes.
LEMMA SentIsBytes ==
    ASSUME frame \in [len : Sizes, enc : BOOLEAN]
    PROVE  /\ Sent \in Seq(Byte) /\ Len(Sent) = 2 * Width + 1
           /\ \A i \in 1..Width : Sent[i] = Bytes(frame.len)[i]
           /\ Sent[Width + 1] = Flag(frame.enc)[1]
           /\ \A i \in 1..Width : Sent[(Width + 1) + i] = Bytes(Check(frame.len, frame.enc))[i]
<1> DEFINE A == Bytes(frame.len)
           F == Flag(frame.enc)
           C == Bytes(Check(frame.len, frame.enc))
<1>1. A \in Seq(Byte) /\ Len(A) = Width /\ F \in Seq(Byte) /\ Len(F) = 1
      /\ C \in Seq(Byte) /\ Len(C) = Width /\ Width \in Nat
  BY HeaderFields, SizesAssumption DEF Word
<1>2. Sent = (A \o F) \o C
  BY DEF Sent, Header
<1> HIDE DEF A, F, C
<1> DEFINE B == A \o F
<1>3. /\ B \in Seq(Byte) /\ Len(B) = Width + 1
      /\ \A i \in 1..(Width + 1) : B[i] = IF i <= Width THEN A[i] ELSE F[i - Width]
  <2>1. /\ B \in Seq(Byte) /\ Len(B) = Len(A) + Len(F)
        /\ \A i \in 1..(Len(A) + Len(F)) :
             B[i] = IF i <= Len(A) THEN A[i] ELSE F[i - Len(A)]
    BY <1>1, ConcatProperties
  <2> HIDE DEF B
  <2> QED BY <1>1, <2>1
<1> HIDE DEF B
<1>4. (\A i \in 1..Width : B[i] = A[i]) /\ B[Width + 1] = F[1]
  <2>1. Width + 1 \in 1..(Width + 1) /\ ~(Width + 1 <= Width) /\ (Width + 1) - Width = 1
    BY <1>1
  <2>2. B[Width + 1] = F[1]
    BY <1>3, <2>1
  <2>3. ASSUME NEW i \in 1..Width PROVE B[i] = A[i]
    <3>1. i \in 1..(Width + 1) /\ i <= Width
      BY <1>1
    <3> QED BY <1>3, <3>1
  <2> QED BY <2>2, <2>3
<1>5. /\ B \o C \in Seq(Byte) /\ Len(B \o C) = (Width + 1) + Width
      /\ \A i \in 1..((Width + 1) + Width) :
           (B \o C)[i] = IF i <= Width + 1 THEN B[i] ELSE C[i - (Width + 1)]
  <2> DEFINE D == B \o C
  <2>1. /\ D \in Seq(Byte) /\ Len(D) = Len(B) + Len(C)
        /\ \A i \in 1..(Len(B) + Len(C)) :
             D[i] = IF i <= Len(B) THEN B[i] ELSE C[i - Len(B)]
    BY <1>1, <1>3, ConcatProperties
  <2> HIDE DEF D
  <2>2. Len(B) = Width + 1 /\ Len(C) = Width
    BY <1>1, <1>3
  <2> QED BY <2>1, <2>2 DEF D
<1>6. ASSUME NEW i \in 1..(Width + 1) PROVE (B \o C)[i] = B[i]
  <2>1. i \in 1..((Width + 1) + Width) /\ i <= Width + 1
    BY <1>1
  <2> QED BY <1>5, <2>1
<1>7. ASSUME NEW i \in 1..Width PROVE (B \o C)[(Width + 1) + i] = C[i]
  <2> DEFINE j == (Width + 1) + i
  <2>1. j \in 1..((Width + 1) + Width) /\ ~(j <= Width + 1) /\ j - (Width + 1) = i
    BY <1>1
  <2> HIDE DEF j
  <2>2. (B \o C)[j] = C[i]
    BY <1>5, <2>1
  <2> QED BY <2>2 DEF j
<1>8. Sent = B \o C
  BY <1>2 DEF B
<1>9. Width + 1 \in 1..(Width + 1) /\ \A i \in 1..Width : i \in 1..(Width + 1)
  BY <1>1
<1>10. (\A i \in 1..Width : Sent[i] = A[i]) /\ Sent[Width + 1] = F[1]
  BY <1>4, <1>6, <1>8, <1>9
<1>11. (Width + 1) + Width = 2 * Width + 1
  BY <1>1
<1> QED BY <1>5, <1>7, <1>8, <1>10, <1>11 DEF A, F, C

\* What is left of a sequence after its first j elements.
LEMMA Suffix ==
    ASSUME NEW S, NEW s \in Seq(S), NEW j \in 0..Len(s)
    PROVE  LET t == SubSeq(s, j + 1, Len(s))
           IN /\ t \in Seq(S) /\ Len(t) = Len(s) - j
              /\ \A i \in 1..(Len(s) - j) : t[i] = s[j + i]
<1> DEFINE p == j + 1
           n == Len(s)
           t == SubSeq(s, p, n)
<1>1. n \in Int /\ p \in Int /\ p = j + 1 /\ j <= n
  OBVIOUS
<1>2. \A i \in p..n : s[i] \in S
  OBVIOUS
<1> HIDE DEF p, n
<1>3. t \in Seq(S) /\ Len(t) = IF p <= n THEN n - p + 1 ELSE 0
  BY <1>1, <1>2, SubSeqProperties
<1>4. \A i \in 1..(n - p + 1) : t[i] = s[p + i - 1]
  BY <1>1, <1>2, SubSeqProperties
<1> HIDE DEF t
<1>5. n - p + 1 = n - j /\ Len(t) = n - j
  BY <1>1, <1>3
<1>6. ASSUME NEW i \in 1..(n - j) PROVE t[i] = s[j + i]
  <2>1. p + i - 1 = j + i
    BY <1>1
  <2> QED BY <1>4, <1>5, <2>1
<1> QED BY <1>3, <1>5, <1>6 DEF t, p, n

\* A read of a field of n bytes, when m bytes of the header H were read: it
\* takes as many as the field has or as have arrived.
Takes(H, m, n, buf, r, k) ==
    /\ H \in Seq(Byte) /\ m \in Nat /\ n \in Nat /\ n > 0
    /\ buf \in Seq(Byte) /\ r \in Seq(Byte) /\ buf # <<>>
    /\ buf \o r = SubSeq(H, m + 1, Len(H))
    /\ k = IF Len(buf) < n THEN Len(buf) ELSE n

LEMMA PartRead ==
    ASSUME NEW H, NEW m, NEW n, NEW buf, NEW r, NEW k, Takes(H, m, n, buf, r, k)
    PROVE  /\ k \in 1..n
           /\ \A i \in 1..k : buf[i] = H[m + i]
           /\ Rest(buf, n) \o r = SubSeq(H, (m + k) + 1, Len(H))
<1> DEFINE z == buf \o r
           tl == SubSeq(buf, k + 1, Len(buf))
           x == tl \o r
           y == SubSeq(H, (m + k) + 1, Len(H))
           b == Len(buf)
           e == Len(r)
           h == Len(H)
<1>0. /\ H \in Seq(Byte) /\ m \in Nat /\ n \in Nat /\ n > 0
      /\ buf \in Seq(Byte) /\ r \in Seq(Byte) /\ buf # <<>>
      /\ z = SubSeq(H, m + 1, h)
      /\ k = IF b < n THEN b ELSE n
  BY DEF Takes
<1>1. b \in Nat /\ b > 0 /\ e \in Nat /\ h \in Nat
  BY <1>0
<1>2. k \in 1..n /\ k <= b
  BY <1>0, <1>1
<1>3. /\ Len(z) = b + e
      /\ \A i \in 1..(b + e) : z[i] = IF i <= b THEN buf[i] ELSE r[i - b]
  BY <1>0, ConcatProperties
<1>4. b + e = h - m /\ \A i \in 1..(b + e) : z[i] = H[m + i]
  <2>1. \A i \in (m + 1)..h : H[i] \in Byte
    BY <1>0
  <2>2. /\ Len(z) = IF m + 1 <= h THEN h - (m + 1) + 1 ELSE 0
        /\ \A i \in 1..(h - (m + 1) + 1) : z[i] = H[(m + 1) + i - 1]
    BY <1>0, <1>1, <2>1, SubSeqProperties
  <2> HIDE DEF z, b, e, h
  <2>3. b + e = h - m /\ h - (m + 1) + 1 = h - m
    BY <1>0, <1>1, <1>3, <2>2
  <2>4. ASSUME NEW i \in 1..(b + e) PROVE z[i] = H[m + i]
    <3>1. (m + 1) + i - 1 = m + i
      BY <1>0, <1>1
    <3> QED BY <2>2, <2>3, <3>1
  <2> QED BY <2>3, <2>4
<1>5. ASSUME NEW i \in 1..k PROVE buf[i] = H[m + i]
  <2> HIDE DEF z, b, e, h
  <2>1. i \in 1..(b + e) /\ i <= b
    BY <1>0, <1>1, <1>2
  <2> QED BY <1>0, <1>3, <1>4, <2>1
<1>6. /\ tl \in Seq(Byte) /\ Len(tl) = b - k
      /\ \A i \in 1..(b - k) : tl[i] = buf[k + i]
  <2>1. k \in 0..Len(buf)
    BY <1>0, <1>2
  <2> QED BY <1>0, <2>1, Suffix
<1>7. Rest(buf, n) = tl
  <2>1. CASE b < n
    <3>1. k + 1 \in Int /\ b \in Int /\ b < k + 1
      BY <1>0, <1>1, <2>1
    <3> QED BY <2>1, <3>1, SubSeqEmpty DEF Rest
  <2>2. CASE ~(b < n)
    <3>1. k = n
      BY <1>0, <2>2
    <3> QED BY <2>2, <3>1 DEF Rest
  <2> QED BY <2>1, <2>2
<1>8. /\ x \in Seq(Byte) /\ Len(x) = (b - k) + e
      /\ \A i \in 1..((b - k) + e) : x[i] = IF i <= b - k THEN tl[i] ELSE r[i - (b - k)]
  <2> HIDE DEF tl
  <2>1. /\ x \in Seq(Byte) /\ Len(x) = Len(tl) + Len(r)
        /\ \A i \in 1..(Len(tl) + Len(r)) :
             x[i] = IF i <= Len(tl) THEN tl[i] ELSE r[i - Len(tl)]
    BY <1>0, <1>6, ConcatProperties
  <2> HIDE DEF x, b
  <2> QED BY <1>0, <1>6, <2>1
<1>9. /\ y \in Seq(Byte) /\ Len(y) = (b - k) + e
      /\ \A i \in 1..((b - k) + e) : y[i] = H[m + (k + i)]
  <2> DEFINE j == m + k
  <2>1. j \in 0..h /\ h - j = (b - k) + e
    <3> HIDE DEF b, e, h, z
    <3> QED BY <1>0, <1>1, <1>2, <1>4
  <2>2. /\ y \in Seq(Byte) /\ Len(y) = h - j
        /\ \A i \in 1..(h - j) : y[i] = H[j + i]
    <3> DEFINE t == SubSeq(H, j + 1, Len(H))
    <3>1. y = t
      BY <1>0
    <3> HIDE DEF j
    <3>2. /\ t \in Seq(Byte) /\ Len(t) = Len(H) - j
          /\ \A i \in 1..(Len(H) - j) : t[i] = H[j + i]
      BY <1>0, <2>1, Suffix
    <3> HIDE DEF t, y
    <3> QED BY <3>1, <3>2
  <2> HIDE DEF y, b, e, h
  <2>3. ASSUME NEW i \in 1..((b - k) + e) PROVE y[i] = H[m + (k + i)]
    <3>1. j + i = m + (k + i)
      BY <1>0, <1>2
    <3> QED BY <2>1, <2>2, <3>1
  <2> QED BY <2>1, <2>2, <2>3
<1>10. ASSUME NEW i \in 1..((b - k) + e) PROVE x[i] = y[i]
  <2> HIDE DEF x, y, z, tl, b, e, h
  <2>1. k + i \in 1..(b + e)
    BY <1>0, <1>1, <1>2
  <2>2. y[i] = IF k + i <= b THEN buf[k + i] ELSE r[(k + i) - b]
    BY <1>0, <1>3, <1>4, <1>9, <2>1
  <2>3. CASE i <= b - k
    <3>1. i \in 1..(b - k) /\ k + i <= b
      BY <1>0, <1>1, <1>2, <2>3
    <3> QED BY <1>0, <1>6, <1>8, <2>2, <3>1
  <2>4. CASE ~(i <= b - k)
    <3>1. ~(k + i <= b) /\ (k + i) - b = i - (b - k)
      BY <1>0, <1>1, <1>2, <2>4
    <3> QED BY <1>0, <1>8, <2>2, <2>4, <3>1
  <2> QED BY <2>3, <2>4
<1>11. x = y
  <2> HIDE DEF x, y, b, e
  <2> QED BY <1>0, <1>8, <1>9, <1>10, SeqEqual
<1> QED BY <1>0, <1>2, <1>5, <1>7, <1>11

\* Over a field of zeros, the bytes read are a part of the header.
LEMMA OverIsPart ==
    ASSUME NEW j \in Nat, NEW k \in 1..Width, NEW old \in Word, NEW buf \in Seq(Byte),
           old = Part(j, 0), k = (IF Len(buf) < Width THEN Len(buf) ELSE Width),
           \A i \in 1..k : buf[i] = Sent[j + i]
    PROVE  Over(old, buf) = Part(j, k)
<1>1. Width \in Nat /\ Len(buf) \in Nat /\ Len(old) = Width
  BY SizesAssumption DEF Word
<1>2. ASSUME NEW i \in 1..Width
      PROVE  (IF i <= Len(buf) THEN buf[i] ELSE old[i]) = IF i <= k THEN Sent[j + i] ELSE 0
  <2>1. old[i] = 0
    BY DEF Part
  <2>2. CASE i <= k
    <3>1. i <= Len(buf) /\ i \in 1..k
      BY <1>1, <2>2
    <3> QED BY <2>2, <3>1
  <2>3. CASE ~(i <= k)
    <3>1. ~(i <= Len(buf))
      BY <1>1, <2>3
    <3> QED BY <2>1, <2>3, <3>1
  <2> QED BY <2>2, <2>3
<1> QED BY <1>1, <1>2 DEF Over, Part

\* A read of the first header, and a read that finds nothing to do.
LEMMA ReadLengthFirst ==
    ASSUME NEW s \in State, NEW r \in Seq(Byte), frame \in [len : Sizes, enc : BOOLEAN],
           NEW k1 \in Nat, NEW k2 \in Nat, Read(s.t, s.buf \o r, k1, k2, 0)
    PROVE  \E j1 \in Nat : /\ s.buf # <<>> => j1 > 0
                           /\ Read(ReadLength(s).t, ReadLength(s).buf \o r, j1, k2, 0)
<1> DEFINE R == ReadLength(s)
           buf == s.buf
           old == s.t.DataLenth_All
<1>1. s.t \in Task /\ buf \in Seq(Byte) /\ old \in Word /\ Len(old) = Width
  BY DEF State, Task, Word
<1>2. Width \in Nat /\ Width > 0
  BY SizesAssumption
<1>3. CASE s.t.DataLenth_All_Done \/ buf = <<>>
  <2>1. R = s
    <3>1. CASE s.t.DataLenth_All_Done
      BY <3>1 DEF ReadLength
    <3>2. CASE ~s.t.DataLenth_All_Done
      BY <1>3, <3>2, ReadLengthEffect
    <3> QED BY <3>1, <3>2
  <2>2. s.t.DataLenth_All_Done => k1 > 0
    BY DEF Read
  <2> HIDE DEF R
  <2>3. (buf # <<>> => k1 > 0) /\ Read(R.t, R.buf \o r, k1, k2, 0)
    BY <1>3, <2>1, <2>2
  <2> QED BY <2>3 DEF R
<1>4. CASE ~s.t.DataLenth_All_Done /\ buf # <<>>
  <2> DEFINE v == Over(old, buf)
             w == Rest(buf, Width)
             u == [s.t EXCEPT !.DataLenth_All = v, !.DataLenth_All_Done = TRUE]
             k == IF Len(buf) < Width THEN Len(buf) ELSE Width
  <2>1. R.t = u /\ R.buf = w
    <3>1. R = [t |-> u, buf |-> w, cut |-> s.cut \/ Len(s.buf) < Width]
      BY <1>4, ReadLengthEffect
    <3> HIDE DEF R, u, w
    <3> QED BY <3>1
  <2>2. k1 = 0 /\ k2 = 0
    BY <1>4 DEF Read
  <2>3. old = Part(0, 0) /\ buf \o r = SubSeq(Sent, 0 + 1, Len(Sent))
    BY <2>2 DEF Read
  <2>4. Sent \in Seq(Byte)
    BY SentIsBytes
  <2>5. /\ k \in 1..Width
        /\ \A i \in 1..k : buf[i] = Sent[0 + i]
        /\ w \o r = SubSeq(Sent, (0 + k) + 1, Len(Sent))
    <3> DEFINE H == Sent
               m == 0
               n == Width
    <3>1. k = IF Len(buf) < n THEN Len(buf) ELSE n
      OBVIOUS
    <3>2. Takes(H, m, n, buf, r, k)
      BY <1>1, <1>2, <1>4, <2>3, <2>4, <3>1 DEF Takes
    <3> HIDE DEF buf, w, k, H, m, n
    <3>4. /\ k \in 1..n
          /\ \A i \in 1..k : buf[i] = H[m + i]
          /\ Rest(buf, n) \o r = SubSeq(H, (m + k) + 1, Len(H))
      BY <3>2, PartRead
    <3> QED BY <3>4 DEF w, H, m, n
  <2>6. v = Part(0, k)
    <3> HIDE DEF buf, old
    <3> QED BY <1>1, <2>3, <2>5, OverIsPart
  <2>7. v \in Word
    BY <1>1, OverIsField DEF Word
  <2>8. /\ u.DataLenth_All = v /\ u.DataLenth_All_Done
        /\ u.Encrypt = s.t.Encrypt /\ u.EncryptDone = s.t.EncryptDone
        /\ u.Verification = s.t.Verification
        /\ u.Verification_Done = s.t.Verification_Done
    <3> HIDE DEF v
    <3> QED BY <1>1, <2>7, TaskWithLength
  <2> HIDE DEF u, v, w, R, k
  <2>9. k \in 0..Width /\ k > 0 /\ k \in Nat
    BY <1>2, <2>5
  <2>10. /\ ~s.t.EncryptDone /\ ~s.t.Verification_Done /\ s.t.Encrypt = <<0>>
         /\ s.t.Verification = Part(0 + 0, 0)
    BY <2>2 DEF Read
  <2>11. Part(k + 0, 0) = Part(0 + 0, 0)
    BY DEF Part
  <2>12. (0 + k) + 1 = (k + 0 + 0) + 1
    BY <2>9
  <2>13. Read(u, w \o r, k, 0, 0)
    BY <1>2, <2>5, <2>6, <2>8, <2>9, <2>10, <2>11, <2>12 DEF Read
  <2> QED BY <2>1, <2>2, <2>9, <2>13 DEF R
<1> QED BY <1>3, <1>4

LEMMA ReadEncryptFirst ==
    ASSUME NEW s \in State, NEW r \in Seq(Byte), frame \in [len : Sizes, enc : BOOLEAN],
           NEW k1 \in Nat, NEW k2 \in Nat, Read(s.t, s.buf \o r, k1, k2, 0), k1 > 0
    PROVE  \E j2 \in Nat : Read(ReadEncrypt(s).t, ReadEncrypt(s).buf \o r, k1, j2, 0)
<1> DEFINE R == ReadEncrypt(s)
           buf == s.buf
           old == s.t.Encrypt
<1>1. s.t \in Task /\ buf \in Seq(Byte) /\ old \in Seq(Byte) /\ Len(old) = 1
  BY DEF State, Task
<1>2. s.t.DataLenth_All_Done /\ (s.t.EncryptDone <=> k2 > 0)
  BY DEF Read
<1>3. CASE s.t.EncryptDone \/ buf = <<>>
  <2>1. R = s
    <3>1. CASE s.t.EncryptDone
      BY <3>1 DEF ReadEncrypt
    <3>2. CASE ~s.t.EncryptDone
      BY <1>2, <1>3, <3>2, ReadEncryptEffect
    <3> QED BY <3>1, <3>2
  <2> HIDE DEF R
  <2>2. Read(R.t, R.buf \o r, k1, k2, 0)
    BY <2>1
  <2> QED BY <2>2 DEF R
<1>4. CASE ~s.t.EncryptDone /\ buf # <<>>
  <2> DEFINE v == Over(old, buf)
             w == Rest(buf, 1)
             u == [s.t EXCEPT !.Encrypt = v, !.EncryptDone = TRUE]
             k == IF Len(buf) < 1 THEN Len(buf) ELSE 1
  <2>1. R.t = u /\ R.buf = w
    <3>1. R = [t |-> u, buf |-> w, cut |-> s.cut \/ Len(s.buf) < 1]
      BY <1>2, <1>4, ReadEncryptEffect
    <3> HIDE DEF R, u, w
    <3> QED BY <3>1
  <2>2. k2 = 0 /\ k1 \in Nat /\ (k1 + k2 + 0) + 1 = k1 + 1
    BY <1>2, <1>4
  <2>3. buf \o r = SubSeq(Sent, k1 + 1, Len(Sent))
    BY <2>2 DEF Read
  <2>4. k = 1 /\ Len(buf) >= 1
    BY <1>1, <1>4
  <2>5. buf[1] = Sent[k1 + 1] /\ w \o r = SubSeq(Sent, (k1 + 1) + 1, Len(Sent))
    <3> DEFINE H == Sent
               m == k1
               n == 1
    <3>1. Takes(H, m, n, buf, r, k)
      <4>1. Sent \in Seq(Byte)
        BY SentIsBytes
      <4> QED BY <1>1, <1>4, <2>3, <2>4, <4>1 DEF Takes
    <3> HIDE DEF buf, w, k, H, m, n
    <3>2. /\ k \in 1..n
          /\ \A i \in 1..k : buf[i] = H[m + i]
          /\ Rest(buf, n) \o r = SubSeq(H, (m + k) + 1, Len(H))
      BY <3>1, PartRead
    <3> QED BY <2>4, <3>2 DEF w, H, m, n
  <2>6. v = <<Sent[k1 + 1]>>
    BY <1>1, <2>4, <2>5 DEF Over
  <2>7. v \in Seq(Byte) /\ Len(v) = 1
    BY <1>1, OverIsField
  <2>8. /\ u.Encrypt = v /\ u.EncryptDone
        /\ u.DataLenth_All = s.t.DataLenth_All
        /\ u.DataLenth_All_Done = s.t.DataLenth_All_Done
        /\ u.Verification = s.t.Verification
        /\ u.Verification_Done = s.t.Verification_Done
    <3> HIDE DEF v
    <3> QED BY <1>1, <2>7, TaskWithEncrypt
  <2> HIDE DEF u, v, w, R, k
  <2>9. /\ k1 \in 0..Width /\ ~s.t.Verification_Done /\ s.t.DataLenth_All = Part(0, k1)
        /\ s.t.Verification = Part(k1 + 0, 0) /\ 0 \in 0..Width
    BY <2>2 DEF Read
  <2>10. Part(k1 + 1, 0) = Part(k1 + 0, 0)
    BY DEF Part
  <2>11. (k1 + 1) + 1 = (k1 + 1 + 0) + 1
    OBVIOUS
  <2>12. Read(u, w \o r, k1, 1, 0)
    BY <1>2, <2>5, <2>6, <2>8, <2>9, <2>10, <2>11 DEF Read
  <2> QED BY <2>1, <2>12 DEF R
<1> QED BY <1>3, <1>4

LEMMA ReadVerificationFirst ==
    ASSUME NEW s \in State, NEW r \in Seq(Byte), frame \in [len : Sizes, enc : BOOLEAN],
           NEW k1 \in Nat, NEW k2 \in Nat, Read(s.t, s.buf \o r, k1, k2, 0)
    PROVE  \E j3 \in Nat :
             Read(ReadVerification(s).t, ReadVerification(s).buf \o r, k1, k2, j3)
<1> DEFINE R == ReadVerification(s)
           buf == s.buf
           old == s.t.Verification
<1>1. s.t \in Task /\ buf \in Seq(Byte) /\ old \in Word /\ Len(old) = Width
  BY DEF State, Task, Word
<1>2. Width \in Nat /\ Width > 0
  BY SizesAssumption
<1>3. ~s.t.Verification_Done /\ (s.t.EncryptDone <=> k2 > 0)
  BY DEF Read
<1>4. CASE ~s.t.EncryptDone \/ buf = <<>>
  <2>1. R = s
    <3>1. CASE ~s.t.EncryptDone
      BY <3>1 DEF ReadVerification
    <3>2. CASE s.t.EncryptDone
      BY <1>3, <1>4, <3>2, ReadVerificationEffect
    <3> QED BY <3>1, <3>2
  <2> HIDE DEF R
  <2>2. Read(R.t, R.buf \o r, k1, k2, 0)
    BY <2>1
  <2> QED BY <2>2 DEF R
<1>5. CASE s.t.EncryptDone /\ buf # <<>>
  <2> DEFINE v == Over(old, buf)
             w == Rest(buf, Width)
             u == [s.t EXCEPT !.Verification = v, !.Verification_Done = TRUE]
             k == IF Len(buf) < Width THEN Len(buf) ELSE Width
             m == k1 + k2
  <2>1. R.t = u /\ R.buf = w
    <3>1. R = [t |-> u, buf |-> w, cut |-> s.cut \/ Len(s.buf) < Width]
      BY <1>3, <1>5, ReadVerificationEffect
    <3> HIDE DEF R, u, w
    <3> QED BY <3>1
  <2>2. m \in Nat /\ (k1 + k2 + 0) + 1 = m + 1
    OBVIOUS
  <2>3. old = Part(m, 0) /\ buf \o r = SubSeq(Sent, m + 1, Len(Sent))
    BY <2>2 DEF Read
  <2>4. /\ k \in 1..Width
        /\ \A i \in 1..k : buf[i] = Sent[m + i]
        /\ w \o r = SubSeq(Sent, (m + k) + 1, Len(Sent))
    <3> DEFINE H == Sent
               n == Width
    <3>1. Takes(H, m, n, buf, r, k)
      <4>1. Sent \in Seq(Byte)
        BY SentIsBytes
      <4> QED BY <1>1, <1>2, <1>5, <2>2, <2>3, <4>1 DEF Takes
    <3> HIDE DEF buf, w, k, H, m, n
    <3>2. /\ k \in 1..n
          /\ \A i \in 1..k : buf[i] = H[m + i]
          /\ Rest(buf, n) \o r = SubSeq(H, (m + k) + 1, Len(H))
      BY <3>1, PartRead
    <3> QED BY <3>2 DEF w, H, n
  <2>5. v = Part(m, k)
    <3>1. k = IF Len(buf) < Width THEN Len(buf) ELSE Width
      OBVIOUS
    <3> HIDE DEF buf, old, m, k
    <3> QED BY <1>1, <2>2, <2>3, <2>4, <3>1, OverIsPart
  <2>6. v \in Word
    BY <1>1, OverIsField DEF Word
  <2>7. /\ u.Verification = v /\ u.Verification_Done
        /\ u.DataLenth_All = s.t.DataLenth_All
        /\ u.DataLenth_All_Done = s.t.DataLenth_All_Done
        /\ u.Encrypt = s.t.Encrypt /\ u.EncryptDone = s.t.EncryptDone
    <3> HIDE DEF v
    <3> QED BY <1>1, <2>6, TaskWithVerification
  <2> HIDE DEF u, v, w, R, k
  <2>8. k \in 0..Width /\ k > 0 /\ k \in Nat /\ k2 > 0
    BY <1>2, <1>3, <1>5, <2>4
  <2>9. (m + k) + 1 = (k1 + k2 + k) + 1
    BY <2>8
  <2>10. Read(u, w \o r, k1, k2, k)
    BY <1>5, <2>4, <2>5, <2>7, <2>8, <2>9 DEF Read
  <2> QED BY <2>1, <2>8, <2>10 DEF R
<1> QED BY <1>4, <1>5

\* FirstInv holds when the first header is sent,
LEMMA InitFirst == Init => FirstInv
<1> SUFFICES ASSUME Init PROVE FirstInv
  OBVIOUS
<1>1. frame \in [len : Sizes, enc : BOOLEAN] /\ stream = Sent /\ verdict = "reading"
  BY DEF Init, Sent
<1>2. Sent \in Seq(Byte) /\ Len(Sent) \in Nat
  <2>1. Sent \in Seq(Byte)
    BY <1>1, SentIsBytes
  <2> QED BY <2>1
<1>3. SubSeq(Sent, (0 + 0 + 0) + 1, Len(Sent)) = Sent
  <2> DEFINE H == Sent
  <2>1. H \in Seq(Byte)
    BY <1>2
  <2> HIDE DEF H
  <2>2. SubSeq(H, 1, Len(H)) = H
    BY <2>1, SubSeqFull
  <2> QED BY <2>2 DEF H
<1>4. \A j \in Nat : Part(j, 0) = Bytes(0)
  <2>1. ASSUME NEW i \in 1..Width PROVE (0 \div Power[i - 1]) % Base = 0
    <3> DEFINE p == Power[i - 1]
    <3>1. p \in Nat /\ p > 0
      <4>1. i - 1 \in Nat
        BY SizesAssumption
      <4> QED BY <4>1, PowerEquation
    <3> HIDE DEF p
    <3>2. 0 \div p = 0
      <4>1. 0 = p * 0 + 0
        BY <3>1
      <4> QED BY <3>1, <4>1, DivUnique
    <3>3. 0 % Base = 0
      BY SizesAssumption
    <3> QED BY <3>2, <3>3 DEF p
  <2>2. ASSUME NEW i \in 1..Width PROVE ~(i <= 0)
    BY SizesAssumption
  <2> QED BY <2>1, <2>2 DEF Part, Bytes
<1>5. /\ ~task.DataLenth_All_Done /\ ~task.EncryptDone /\ ~task.Verification_Done
      /\ task.DataLenth_All = Bytes(0) /\ task.Encrypt = <<0>>
      /\ task.Verification = Bytes(0)
  BY DEF Init
<1>6. 0 \in 0..Width
  BY SizesAssumption
<1>7. Part(0, 0) = Bytes(0) /\ Part(0 + 0, 0) = Bytes(0)
  BY <1>4
<1>8. Read(task, stream, 0, 0, 0)
  BY <1>1, <1>3, <1>5, <1>6, <1>7 DEF Read
<1> QED BY <1>1, <1>8 DEF FirstInv

\* The header itself does not change on its way.
LEMMA ReadPrimed ==
    ASSUME frame' = frame, NEW k1 \in Nat, NEW k2 \in Nat, NEW k3 \in Nat,
           Read(task', stream', k1, k2, k3)
    PROVE  Read(task, stream, k1, k2, k3)'
<1>1. Sent' = Sent
  BY DEF Sent
<1>2. \A j, n : Part(j, n)' = Part(j, n)
  BY <1>1 DEF Part
<1> QED BY <1>1, <1>2 DEF Read

\* is kept by the callback,
LEMMA CallbackFirst ==
    ASSUME IInv, FirstInv, NEW k \in 1..Len(stream), On_Read_CallBack(k)
    PROVE  FirstInv'
<1> DEFINE r == SubSeq(stream, k + 1, Len(stream))
           s0 == [t |-> task, buf |-> SubSeq(stream, 1, k), cut |-> cut]
           s1 == ReadLength(s0)
           s2 == ReadEncrypt(s1)
           s3 == ReadVerification(s2)
<1>1. TypeInv /\ VerdictInv /\ WholeInv
  BY DEF IInv
<1>2. stream \in Seq(Byte) /\ Len(stream) \in Nat /\ k \in 1..Len(stream) /\ task \in Task /\ cut \in BOOLEAN
  BY <1>1 DEF TypeInv
<1>3. /\ SubSeq(stream, 1, k) \in Seq(Byte) /\ SubSeq(stream, 1, k) # <<>>
      /\ r \in Seq(Byte) /\ SubSeq(stream, 1, k) \o r = stream
  BY <1>2
<1>4. ~task.Verification_Done
  BY <1>1 DEF On_Read_CallBack, VerdictInv
<1>5. s0 \in State /\ s0.buf # <<>> /\ s0.t = task /\ s0.buf \o r = stream
  BY <1>2, <1>3 DEF State
<1>6. Whole(s0, r)
  BY <1>1, <1>3 DEF Whole, WholeInv
<1>7. frame \in [len : Sizes, enc : BOOLEAN]
  BY <1>1 DEF TypeInv
<1>8. /\ task' = s3.t /\ stream' = s3.buf \o r
      /\ verdict' = (IF ~s3.t.Verification_Done THEN "reading"
                     ELSE IF HeaderAgrees(s3.t) THEN "accepted" ELSE "rejected")
      /\ frame' = frame /\ frames' = frames
  BY DEF On_Read_CallBack
<1> SUFFICES ASSUME frames = 1
             PROVE  \E k1, k2, k3 \in Nat : Read(task', stream', k1, k2, k3)
  <2>1. verdict' = "accepted" => HeaderAgrees(task)'
    BY <1>8 DEF HeaderAgrees
  <2> QED BY <1>8, <2>1, ReadPrimed DEF FirstInv
<1>9. PICK k1 \in Nat, k2 \in Nat, k3 \in Nat : Read(task, stream, k1, k2, k3)
  BY DEF FirstInv
<1>10. k3 = 0
  BY <1>4, <1>9 DEF Read
<1> HIDE DEF s0, r
<1>11. Read(s0.t, s0.buf \o r, k1, k2, 0)
  BY <1>5, <1>9, <1>10
<1>12. PICK j1 \in Nat : j1 > 0 /\ Read(s1.t, s1.buf \o r, j1, k2, 0)
  BY <1>3, <1>5, <1>7, <1>11, ReadLengthFirst
<1>13. s1 \in State /\ Whole(s1, r) /\ s1.t.DataLenth_All_Done /\ ~s1.t.Verification_Done
  BY <1>3, <1>4, <1>5, <1>6, <1>7, ReadLengthWhole
<1> HIDE DEF s1
<1>14. PICK j2 \in Nat : Read(s2.t, s2.buf \o r, j1, j2, 0)
  BY <1>3, <1>7, <1>12, <1>13, ReadEncryptFirst
<1>15. s2 \in State
  BY <1>3, <1>7, <1>13, ReadEncryptWhole
<1> HIDE DEF s2
<1>16. PICK j3 \in Nat : Read(s3.t, s3.buf \o r, j1, j2, j3)
  BY <1>3, <1>7, <1>14, <1>15, ReadVerificationFirst
<1> HIDE DEF s3
<1> QED BY <1>8, <1>16

\* and does not speak of later headers.
LEMMA StepFirst == IInv /\ FirstInv /\ [Next]_vars => FirstInv'
<1> SUFFICES ASSUME IInv, FirstInv, [Next]_vars PROVE FirstInv'
  OBVIOUS
<1>1. CASE \E k \in 1..Len(stream) : On_Read_CallBack(k)
  BY <1>1, CallbackFirst
<1>2. CASE \E o \in Sizes, n \in Sizes : Answer(o, n)
  <2>1. frames \in Nat \ {0} /\ frames' = frames + 1
    BY <1>2 DEF IInv, TypeInv, Answer
  <2> QED BY <2>1 DEF FirstInv
<1>3. CASE UNCHANGED vars
  <2>1. task' = task /\ stream' = stream /\ frame' = frame /\ frames' = frames
        /\ verdict' = verdict
    BY <1>3 DEF vars
  <2>2. \A k1, k2, k3 : Read(task, stream, k1, k2, k3) => Read(task', stream', k1, k2, k3)
    BY <2>1
  <2>3. HeaderAgrees(task)' = HeaderAgrees(task)
    BY <2>1 DEF HeaderAgrees
  <2> SUFFICES ASSUME frames = 1 PROVE FirstInv'
    BY <2>1 DEF FirstInv
  <2>4. PICK k1 \in Nat, k2 \in Nat, k3 \in Nat : Read(task, stream, k1, k2, k3)
    BY DEF FirstInv
  <2>5. Read(task, stream, k1, k2, k3)'
    BY <2>1, <2>2, <2>4, ReadPrimed
  <2>6. verdict' = "accepted" => HeaderAgrees(task)'
    BY <2>1, <2>3 DEF FirstInv
  <2> QED BY <2>5, <2>6 DEF FirstInv
<1> QED BY <1>1, <1>2, <1>3 DEF Next

-----------------------------------------------------------------------------
(* The check value tells the cut headers of small messages apart. *)

\* k bytes of a check value, of which the others are 0.
Digits(k, v1, v2, v3, v4) ==
    /\ k \in 1..4
    /\ v1 \in 0..255 /\ v2 \in 0..255 /\ v3 \in 0..255 /\ v4 \in 0..255
    /\ k < 2 => v2 = 0
    /\ k < 3 => v3 = 0
    /\ k < 4 => v4 = 0

\* A header: the bytes of its length, its flag and the bytes of its check value.
Bytewise(len, enc, l1, l2, l3, l4, c1, c2, c3, c4) ==
    /\ l1 \in 0..255 /\ l2 \in 0..255 /\ l3 \in 0..255 /\ l4 \in 0..255
    /\ c1 \in 0..255 /\ c2 \in 0..255 /\ c3 \in 0..255 /\ c4 \in 0..255
    /\ enc \in 0..1 /\ len \in Nat /\ len <= 255 + 256 * (252 + 256 * 256)
    /\ len = l1 + 256 * (l2 + 256 * (l3 + 256 * l4))
    /\ (IF enc = 1 THEN len + 1025 ELSE 2 * len + 1026)
         = c1 + 256 * (c2 + 256 * (c3 + 256 * c4))

\* One byte of the length was read: the check value is too small or too large.
LEMMA CutAfterOne ==
    ASSUME NEW len, NEW enc, NEW l1, NEW l2, NEW l3, NEW l4,
           NEW c1, NEW c2, NEW c3, NEW c4,
           Bytewise(len, enc, l1, l2, l3, l4, c1, c2, c3, c4),
           NEW k, NEW v1, NEW v2, NEW v3, NEW v4, Digits(k, v1, v2, v3, v4),
           v1 = l3, k >= 2 => v2 = l4, k >= 3 => v3 = enc, k >= 4 => v4 = c1
    PROVE  (IF l2 # 0 THEN l1 + 1025 ELSE 2 * l1 + 1026)
             # v1 + 256 * (v2 + 256 * (v3 + 256 * v4))
<1>1. l4 <= 1
  BY SMT DEF Bytewise
<1> QED BY SMT, <1>1 DEF Bytewise, Digits

\* Two bytes: only what is the whole length agrees.
LEMMA CutAfterTwo ==
    ASSUME NEW len, NEW enc, NEW l1, NEW l2, NEW l3, NEW l4,
           NEW c1, NEW c2, NEW c3, NEW c4,
           Bytewise(len, enc, l1, l2, l3, l4, c1, c2, c3, c4),
           NEW k, NEW v1, NEW v2, NEW v3, NEW v4, Digits(k, v1, v2, v3, v4),
           v1 = l4, k >= 2 => v2 = enc, k >= 3 => v3 = c1, k >= 4 => v4 = c2,
           (IF l3 # 0 THEN (l1 + 256 * l2) + 1025 ELSE 2 * (l1 + 256 * l2) + 1026)
             = v1 + 256 * (v2 + 256 * (v3 + 256 * v4))
    PROVE  l1 + 256 * l2 = len /\ (l3 # 0 <=> enc = 1)
<1>1. l4 \in 0..1 /\ (l4 = 1 => l3 = 0 /\ l2 <= 252)
  BY SMT DEF Bytewise
<1>2. v4 = 0 /\ v3 \in 1..2 /\ v3 = c1 /\ v2 = enc
  BY SMT, <1>1 DEF Bytewise, Digits
<1>3. CASE l3 # 0
  <2>1. l4 = 0
    BY SMT, <1>1, <1>3
  <2>2. l1 + 256 * l2 + 1025 = 256 * (v2 + 256 * v3)
    BY SMT, <1>2, <1>3, <2>1 DEF Bytewise, Digits
  <2>3. l1 = 255
    BY SMT, <1>2, <2>2 DEF Bytewise, Digits
  <2>4. CASE enc = 1
    BY SMT, <1>2, <2>3, <2>4 DEF Bytewise
  <2>5. CASE enc # 1
    <3> DEFINE x == 2 * (l2 + 256 * (l3 + 256 * l4)) + 6
               y == c2 + 256 * (c3 + 256 * c4)
    <3>1. 256 * x = c1 + 256 * y
      BY SMT, <2>3, <2>5 DEF Bytewise
    <3>2. x \in Nat /\ y \in Nat /\ c1 \in 1..2
      BY SMT, <1>2 DEF Bytewise
    <3> HIDE DEF x, y
    <3> QED BY SMT, <3>1, <3>2
  <2> QED BY <2>4, <2>5
<1>4. CASE l3 = 0
  BY SMT, <1>1, <1>2, <1>4 DEF Bytewise, Digits
<1> QED BY <1>3, <1>4

\* Three bytes.
LEMMA CutAfterThree ==
    ASSUME NEW len, NEW enc, NEW l1, NEW l2, NEW l3, NEW l4,
           NEW c1, NEW c2, NEW c3, NEW c4,
           Bytewise(len, enc, l1, l2, l3, l4, c1, c2, c3, c4),
           NEW k, NEW v1, NEW v2, NEW v3, NEW v4, Digits(k, v1, v2, v3, v4),
           v1 = enc, k >= 2 => v2 = c1, k >= 3 => v3 = c2, k >= 4 => v4 = c3,
           (IF l4 # 0 THEN (l1 + 256 * (l2 + 256 * l3)) + 1025
                      ELSE 2 * (l1 + 256 * (l2 + 256 * l3)) + 1026)
             = v1 + 256 * (v2 + 256 * (v3 + 256 * v4))
    PROVE  l1 + 256 * (l2 + 256 * l3) = len /\ (l4 # 0 <=> enc = 1)
<1>1. l4 \in 0..1 /\ (l4 = 1 => l3 = 0 /\ l2 <= 252)
  BY SMT DEF Bytewise
<1>2. CASE l4 = 1
  BY SMT, <1>1, <1>2 DEF Bytewise, Digits
<1>3. CASE l4 = 0
  BY SMT, <1>1, <1>3 DEF Bytewise, Digits
<1> QED BY <1>1, <1>2, <1>3

\* A word of the build, read as a number, byte by byte.
LEMMA NextByte ==
    ASSUME Base = 256, NEW n \in Nat, NEW t \in Seq(Nat), Len(t) = n + 1
    PROVE  /\ Tail(t) \in Seq(Nat) /\ Len(Tail(t)) = n
           /\ \A i \in 1..n : Tail(t)[i] = t[i + 1]
           /\ Value[t] = t[1] + 256 * Value[Tail(t)]
<1>1. t # <<>>
  OBVIOUS
<1>2. Tail(t) \in Seq(Nat) /\ Len(Tail(t)) = Len(t) - 1
      /\ \A i \in 1..Len(Tail(t)) : Tail(t)[i] = t[i + 1]
  BY <1>1, HeadTailProperties
<1>3. Len(Tail(t)) = n
  BY <1>2
<1>4. Head(t) = t[1]
  BY <1>1
<1> QED BY <1>1, <1>2, <1>3, <1>4, ValueEquation

LEMMA FourBytes ==
    ASSUME Base = 256, Width = 4, NEW b \in Word
    PROVE  /\ Value[b] = b[1] + 256 * (b[2] + 256 * (b[3] + 256 * b[4]))
           /\ \A i \in 1..4 : b[i] \in 0..255
<1> DEFINE t1 == Tail(b)
           t2 == Tail(t1)
           t3 == Tail(t2)
           t4 == Tail(t3)
<1>1. b \in Seq(Byte) /\ Len(b) = 4
  BY DEF Word
<1>2. \A i \in 1..4 : b[i] \in 0..255
  <2>1. \A i \in 1..4 : b[i] \in Byte
    BY <1>1
  <2> QED BY <2>1 DEF Byte
<1>3. b \in Seq(Nat)
  BY <1>1, BytesAreNat
<1>4. /\ t1 \in Seq(Nat) /\ Len(t1) = 3
      /\ \A i \in 1..3 : t1[i] = b[i + 1]
      /\ Value[b] = b[1] + 256 * Value[t1]
  <2> DEFINE n == 3
  <2>1. n \in Nat /\ Len(b) = n + 1
    BY <1>1, <1>3
  <2> HIDE DEF n
  <2>2. /\ t1 \in Seq(Nat) /\ Len(t1) = n
        /\ \A i \in 1..n : t1[i] = b[i + 1]
        /\ Value[b] = b[1] + 256 * Value[t1]
    BY <1>1, <1>3, <2>1, NextByte
  <2> QED BY <2>2 DEF n
<1> HIDE DEF t1
<1>5. /\ t2 \in Seq(Nat) /\ Len(t2) = 2
      /\ \A i \in 1..2 : t2[i] = t1[i + 1]
      /\ Value[t1] = t1[1] + 256 * Value[t2]
  <2> DEFINE n == 2
  <2>1. n \in Nat /\ Len(t1) = n + 1
    BY <1>4
  <2> HIDE DEF n
  <2>2. /\ t2 \in Seq(Nat) /\ Len(t2) = n
        /\ \A i \in 1..n : t2[i] = t1[i + 1]
        /\ Value[t1] = t1[1] + 256 * Value[t2]
    BY <1>4, <2>1, NextByte
  <2> QED BY <2>2 DEF n
<1> HIDE DEF t2
<1>6. /\ t3 \in Seq(Nat) /\ Len(t3) = 1
      /\ \A i \in 1..1 : t3[i] = t2[i + 1]
      /\ Value[t2] = t2[1] + 256 * Value[t3]
  <2> DEFINE n == 1
  <2>1. n \in Nat /\ Len(t2) = n + 1
    BY <1>5
  <2> HIDE DEF n
  <2>2. /\ t3 \in Seq(Nat) /\ Len(t3) = n
        /\ \A i \in 1..n : t3[i] = t2[i + 1]
        /\ Value[t2] = t2[1] + 256 * Value[t3]
    BY <1>5, <2>1, NextByte
  <2> QED BY <2>2 DEF n
<1> HIDE DEF t3
<1>7. /\ t4 \in Seq(Nat) /\ Len(t4) = 0
      /\ \A i \in 1..0 : t4[i] = t3[i + 1]
      /\ Value[t3] = t3[1] + 256 * Value[t4]
  <2> DEFINE n == 0
  <2>1. n \in Nat /\ Len(t3) = n + 1
    BY <1>6
  <2> HIDE DEF n
  <2>2. /\ t4 \in Seq(Nat) /\ Len(t4) = n
        /\ \A i \in 1..n : t4[i] = t3[i + 1]
        /\ Value[t3] = t3[1] + 256 * Value[t4]
    BY <1>6, <2>1, NextByte
  <2> QED BY <2>2 DEF n
<1> HIDE DEF t4
<1>8. Value[t4] = 0
  <2>1. t4 = <<>>
    BY <1>7
  <2> QED BY <1>7, <2>1, ValueEquation
<1>9. t1[1] = b[2] /\ t1[2] = b[3] /\ t1[3] = b[4]
  BY <1>4
<1>10. t2[1] = b[3] /\ t2[2] = b[4]
  BY <1>5, <1>9
<1>11. t3[1] = b[4]
  BY <1>6, <1>10
<1>12. b[4] + 256 * 0 = b[4]
  BY <1>2
<1> QED BY <1>2, <1>4, <1>5, <1>6, <1>7, <1>8, <1>9, <1>10, <1>11, <1>12

\* The sizes of the messages the claim is about, as unsigned ints of the build.
Small ==
    /\ Base = 256 /\ Width = 4
    /\ \A n \in Sizes : n <= 16841983

\* The check value of a small length does not overflow.
LEMMA CheckOfSmall ==
    ASSUME Small, NEW n \in Nat, n <= 255 + 256 * (252 + 256 * 256), NEW enc \in BOOLEAN
    PROVE  Check(n, enc) = IF enc THEN n + 1025 ELSE 2 * n + 1026
<1> DEFINE f == IF enc THEN 1 ELSE 2
           x == Power[4]
           d == IF enc THEN n + 1025 ELSE 2 * n + 1026
<1>1. Base = 256 /\ Width = 4
  BY DEF Small
<1>2. x = 256 * (256 * (256 * 256))
  <2>1. 0 \in Nat /\ 1 \in Nat /\ 2 \in Nat /\ 3 \in Nat
    OBVIOUS
  <2>2. Power[0 + 1] = 256 * 1 /\ Power[1 + 1] = 256 * Power[1]
        /\ Power[2 + 1] = 256 * Power[2] /\ Power[3 + 1] = 256 * Power[3]
    BY <1>1, <2>1, PowerEquation
  <2>3. 0 + 1 = 1 /\ 1 + 1 = 2 /\ 2 + 1 = 3 /\ 3 + 1 = 4
    OBVIOUS
  <2> QED BY <2>2, <2>3
<1>3. n * f + f + 1024 = d
  <2>1. CASE enc
    BY <2>1
  <2>2. CASE ~enc
    BY <2>2
  <2> QED BY <2>1, <2>2
<1>4. Check(n, enc) = (n * f + f + 1024) % x
  BY <1>1 DEF Check
<1> HIDE DEF f, x
<1>5. d \in Nat /\ d < x /\ x \in Nat /\ x > 0
  BY <1>2, SMT
<1> HIDE DEF d
<1>6. d = x * 0 + d
  BY <1>5
<1>7. d % x = d
  BY <1>5, <1>6, DivUnique
<1> QED BY <1>3, <1>4, <1>7 DEF d

\* The first header of such a message, byte by byte.
LEMMA SentBytewise ==
    ASSUME Small, frame \in [len : Sizes, enc : BOOLEAN]
    PROVE  Bytewise(frame.len, Sent[5], Sent[1], Sent[2], Sent[3], Sent[4],
                    Sent[6], Sent[7], Sent[8], Sent[9])
             /\ (Sent[5] = 1 <=> frame.enc)
<1> DEFINE len == frame.len
           enc == frame.enc
           A == Bytes(len)
           c == Check(len, enc)
           C == Bytes(c)
<1>1. Base = 256 /\ Width = 4 /\ len \in Sizes /\ enc \in BOOLEAN /\ len \in Nat
  BY SizesAssumption DEF Small
<1>2. len <= 255 + 256 * (252 + 256 * 256)
  <2>1. len <= 16841983
    BY <1>1 DEF Small
  <2> QED BY <1>1, <2>1, SMT
<1>3. Sent[1] = A[1] /\ Sent[2] = A[2] /\ Sent[3] = A[3] /\ Sent[4] = A[4]
  BY <1>1, SentIsBytes
<1>4. Sent[6] = C[1] /\ Sent[7] = C[2] /\ Sent[8] = C[3] /\ Sent[9] = C[4]
  <2>1. \A i \in 1..4 : Sent[5 + i] = C[i]
    BY <1>1, SentIsBytes
  <2>2. 5 + 1 = 6 /\ 5 + 2 = 7 /\ 5 + 3 = 8 /\ 5 + 4 = 9
    OBVIOUS
  <2> HIDE DEF C
  <2> QED BY <2>1, <2>2
<1>5. Sent[5] = IF enc THEN 1 ELSE 0
  <2>1. Sent[5] = Flag(enc)[1]
    BY <1>1, SentIsBytes
  <2>2. CASE enc
    BY <2>1, <2>2 DEF Flag
  <2>3. CASE ~enc
    BY <2>1, <2>3 DEF Flag
  <2> QED BY <2>2, <2>3
<1>6. A \in Word /\ Value[A] = len /\ C \in Word /\ Value[C] = c
  BY <1>1, HeaderFields
<1> DEFINE d == IF enc THEN len + 1025 ELSE 2 * len + 1026
<1>7. c = d
  BY <1>1, <1>2, CheckOfSmall
<1> HIDE DEF A, C, c
<1>8. len = A[1] + 256 * (A[2] + 256 * (A[3] + 256 * A[4])) /\ \A i \in 1..4 : A[i] \in 0..255
  BY <1>1, <1>6, FourBytes
<1>9. c = C[1] + 256 * (C[2] + 256 * (C[3] + 256 * C[4])) /\ \A i \in 1..4 : C[i] \in 0..255
  BY <1>1, <1>6, FourBytes
<1>10. (IF Sent[5] = 1 THEN len + 1025 ELSE 2 * len + 1026) = c
  BY <1>1, <1>5, <1>7
<1>11. Sent[5] \in 0..1 /\ (Sent[5] = 1 <=> enc)
  BY <1>1, <1>5
<1> HIDE DEF len, enc, d
<1>12. Bytewise(len, Sent[5], A[1], A[2], A[3], A[4], C[1], C[2], C[3], C[4])
  BY <1>1, <1>2, <1>8, <1>9, <1>10, <1>11 DEF Bytewise
<1> QED BY <1>3, <1>4, <1>11, <1>12 DEF len, enc

\* Whatever was read of the first header, what passes the comparison is right.
LEMMA FirstHeaderIsRight ==
    ASSUME Small, IInv, FirstInv
    PROVE  FirstHeaderHolds
<1> SUFFICES ASSUME frames = 1, verdict = "accepted" PROVE Right(task)
  BY DEF FirstHeaderHolds
<1>1. Base = 256 /\ Width = 4
  BY DEF Small
<1>2. frame \in [len : Sizes, enc : BOOLEAN] /\ task \in Task /\ task.Verification_Done
  BY DEF IInv, TypeInv, VerdictInv
<1>3. PICK k1 \in Nat, k2 \in Nat, k3 \in Nat : Read(task, stream, k1, k2, k3)
  BY DEF FirstInv
<1> DEFINE len == frame.len
           enc == Sent[5]
           l1 == Sent[1]  l2 == Sent[2]  l3 == Sent[3]  l4 == Sent[4]
           c1 == Sent[6]  c2 == Sent[7]  c3 == Sent[8]  c4 == Sent[9]
           p == task.DataLenth_All
           v == task.Verification
           e == Sent[k1 + 1]
<1>4. /\ Bytewise(len, enc, l1, l2, l3, l4, c1, c2, c3, c4)
      /\ (enc = 1 <=> frame.enc)
  BY <1>2, SentBytewise
<1>5. /\ k1 \in 1..4 /\ k3 \in 1..4 /\ k2 = 1
      /\ p = Part(0, k1) /\ v = Part(k1 + 1, k3) /\ task.Encrypt = <<e>>
  BY <1>1, <1>2, <1>3 DEF Read
<1>6. /\ p \in Word /\ v \in Word
  BY <1>2 DEF Task
<1>7. \A i \in 1..4 : /\ p[i] = IF i <= k1 THEN Sent[0 + i] ELSE 0
                      /\ v[i] = IF i <= k3 THEN Sent[(k1 + 1) + i] ELSE 0
  BY <1>1, <1>5 DEF Part
<1>8. HeaderAgrees(task)
  BY DEF FirstInv
<1>9. task.Encrypt[1] = e
  BY <1>5
<1>10. Value[v] = Check(Value[p], e # 0)
  BY <1>8, <1>9 DEF HeaderAgrees
<1>11. Right(task) <=> Value[p] = len /\ (e # 0) = frame.enc
  BY <1>9 DEF Right
<1>12. frame.enc \in BOOLEAN
  BY <1>2
<1> HIDE DEF p, v, e, len, enc, l1, l2, l3, l4, c1, c2, c3, c4
<1>13. Value[p] = p[1] + 256 * (p[2] + 256 * (p[3] + 256 * p[4]))
       /\ \A i \in 1..4 : p[i] \in 0..255
  BY <1>1, <1>6, FourBytes
<1>14. Value[v] = v[1] + 256 * (v[2] + 256 * (v[3] + 256 * v[4]))
       /\ \A i \in 1..4 : v[i] \in 0..255
  BY <1>1, <1>6, FourBytes
<1>15. v[1] = Sent[(k1 + 1) + 1] /\ Digits(k3, v[1], v[2], v[3], v[4])
  BY <1>5, <1>7, <1>14 DEF Digits
<1>16. /\ k3 >= 2 => v[2] = Sent[(k1 + 1) + 2]
       /\ k3 >= 3 => v[3] = Sent[(k1 + 1) + 3]
       /\ k3 >= 4 => v[4] = Sent[(k1 + 1) + 4]
  BY <1>5, <1>7
<1> DEFINE L == Value[p]
           A == IF e # 0 THEN L + 1025 ELSE 2 * L + 1026
           V == v[1] + 256 * (v[2] + 256 * (v[3] + 256 * v[4]))
<1>17. ASSUME k1 # 4 PROVE V = A
  <2>1. p[4] = 0
    BY <1>5, <1>7, <1>17
  <2>2. L \in Nat /\ L <= 255 + 256 * (252 + 256 * 256)
    <3> DEFINE a == p[1]  b == p[2]  c == p[3]
    <3>1. a \in 0..255 /\ b \in 0..255 /\ c \in 0..255
      BY <1>13
    <3>2. L = a + 256 * (b + 256 * (c + 256 * 0))
      BY <1>13, <2>1
    <3> HIDE DEF L, a, b, c
    <3> QED BY <3>1, <3>2, SMT
  <2> DEFINE g == e # 0
  <2>3. Check(L, g) = A
    <3> HIDE DEF L
    <3>1. g \in BOOLEAN
      OBVIOUS
    <3> HIDE DEF g
    <3>2. Check(L, g) = IF g THEN L + 1025 ELSE 2 * L + 1026
      BY <2>2, <3>1, CheckOfSmall
    <3> QED BY <3>2 DEF g
  <2> QED BY <1>10, <1>14, <2>3 DEF L
<1> HIDE DEF A, V
<1>18. CASE k1 = 4
  <2>1. p[1] = l1 /\ p[2] = l2 /\ p[3] = l3 /\ p[4] = l4
    BY <1>7, <1>18 DEF l1, l2, l3, l4
  <2>2. L = len
    BY <1>4, <1>13, <2>1 DEF Bytewise
  <2>3. e = enc /\ enc \in 0..1
    BY <1>4, <1>18 DEF e, enc, Bytewise
  <2> QED BY <1>4, <1>11, <1>12, <2>2, <2>3
<1>19. CASE k1 = 1
  <2>1. p[1] = l1 /\ p[2] = 0 /\ p[3] = 0 /\ p[4] = 0 /\ e = l2
    BY <1>7, <1>19 DEF l1, l2, e
  <2>2. L = l1
    BY <1>4, <1>13, <2>1 DEF Bytewise
  <2>3. v[1] = l3 /\ (k3 >= 2 => v[2] = l4) /\ (k3 >= 3 => v[3] = enc) /\ (k3 >= 4 => v[4] = c1)
    BY <1>15, <1>16, <1>19 DEF l3, l4, enc, c1
  <2>4. V = IF l2 # 0 THEN l1 + 1025 ELSE 2 * l1 + 1026
    BY <1>17, <1>19, <2>1, <2>2 DEF A
  <2>5. V # IF l2 # 0 THEN l1 + 1025 ELSE 2 * l1 + 1026
    BY <1>4, <1>15, <2>3, CutAfterOne DEF V
  <2> QED BY <2>4, <2>5
<1>20. CASE k1 = 2
  <2>1. p[1] = l1 /\ p[2] = l2 /\ p[3] = 0 /\ p[4] = 0 /\ e = l3
    BY <1>7, <1>20 DEF l1, l2, l3, e
  <2>2. L = l1 + 256 * l2
    BY <1>4, <1>13, <2>1 DEF Bytewise
  <2>3. v[1] = l4 /\ (k3 >= 2 => v[2] = enc) /\ (k3 >= 3 => v[3] = c1) /\ (k3 >= 4 => v[4] = c2)
    BY <1>15, <1>16, <1>20 DEF l4, enc, c1, c2
  <2>4. (IF l3 # 0 THEN (l1 + 256 * l2) + 1025 ELSE 2 * (l1 + 256 * l2) + 1026) = V
    BY <1>17, <1>20, <2>1, <2>2 DEF A
  <2>5. l1 + 256 * l2 = len /\ (l3 # 0 <=> enc = 1)
    BY <1>4, <1>15, <2>3, <2>4, CutAfterTwo DEF V
  <2> QED BY <1>4, <1>11, <1>12, <2>1, <2>2, <2>5
<1>21. CASE k1 = 3
  <2>1. p[1] = l1 /\ p[2] = l2 /\ p[3] = l3 /\ p[4] = 0 /\ e = l4
    BY <1>7, <1>21 DEF l1, l2, l3, l4, e
  <2>2. L = l1 + 256 * (l2 + 256 * l3)
    BY <1>4, <1>13, <2>1 DEF Bytewise
  <2>3. v[1] = enc /\ (k3 >= 2 => v[2] = c1) /\ (k3 >= 3 => v[3] = c2) /\ (k3 >= 4 => v[4] = c3)
    BY <1>15, <1>16, <1>21 DEF enc, c1, c2, c3
  <2>4. (IF l4 # 0 THEN (l1 + 256 * (l2 + 256 * l3)) + 1025
                   ELSE 2 * (l1 + 256 * (l2 + 256 * l3)) + 1026) = V
    BY <1>17, <1>21, <2>1, <2>2 DEF A
  <2>5. l1 + 256 * (l2 + 256 * l3) = len /\ (l4 # 0 <=> enc = 1)
    BY <1>4, <1>15, <2>3, <2>4, CutAfterThree DEF V
  <2> QED BY <1>4, <1>11, <1>12, <2>1, <2>2, <2>5
<1> QED BY <1>5, <1>18, <1>19, <1>20, <1>21

\* With the integers of the build, and messages of at most 16841983 bytes, the
\* first header of a connection is accepted as it was sent or not at all,
\* wherever TCP cut it.
THEOREM FirstHeader == Small => (Spec => []FirstHeaderHolds)
<1>1. Init => FirstInv
  BY InitFirst
<1>2. IInv /\ FirstInv /\ [Next]_vars => FirstInv'
  BY StepFirst
<1>3. Small /\ IInv /\ FirstInv => FirstHeaderHolds
  BY FirstHeaderIsRight
<1> SUFFICES ASSUME Small PROVE Spec => []FirstHeaderHolds
  OBVIOUS
<1>4. IInv /\ FirstInv => FirstHeaderHolds
  BY <1>3
<1> QED BY <1>1, <1>2, <1>4, Invariance, PTL DEF Spec

=============================================================================
