-------------------------- MODULE ByteStreamProofs --------------------------
(***************************************************************************)
(* Encoders and decoders of WireBytes undo each other, for every number of *)
(* values of a byte and every size of the fields: integers, the frames of  *)
(* HuiduCodec and of HD2020, and the file payloads.  A decoder given more  *)
(* bytes than a frame has finds the same frame, and the checksum notices   *)
(* any one byte that was changed.                                          *)
(*                                                                         *)
(* From this it follows that frames on a byte stream are found again, for  *)
(* every payload and every way of cutting the stream: what the decoders    *)
(* take is what was sent, in order.                                        *)
(*                                                                         *)
(* And the pixels a panel lights for a realtime frame are those of the     *)
(* text: of a bit set in a byte, a pixel in a bitmap, a glyph in a panel.  *)
(***************************************************************************)
EXTENDS ByteStream, SequenceTheorems, Recursion, TLAPS

-----------------------------------------------------------------------------
(* Sequences.                                                              *)

\* What follows the first a elements.
LEMMA RestOf ==
  ASSUME NEW S, NEW z \in Seq(S), NEW a \in Nat, NEW c \in Nat, a + c = Len(z)
  PROVE  /\ SubSeq(z, a + 1, Len(z)) \in Seq(S)
         /\ Len(SubSeq(z, a + 1, Len(z))) = c
         /\ \A i \in 1..c : SubSeq(z, a + 1, Len(z))[i] = z[a + i]
<1>1. Len(z) \in Int /\ a + 1 \in Int /\ Len(z) - (a + 1) + 1 = c
  OBVIOUS
<1>2. \A i \in (a + 1)..Len(z) : z[i] \in S
  OBVIOUS
<1>3. /\ SubSeq(z, a + 1, Len(z)) \in Seq(S)
      /\ Len(SubSeq(z, a + 1, Len(z))) = IF a + 1 <= Len(z) THEN Len(z) - (a + 1) + 1 ELSE 0
      /\ \A i \in 1..(Len(z) - (a + 1) + 1) : SubSeq(z, a + 1, Len(z))[i] = z[(a + 1) + i - 1]
  BY <1>1, <1>2, SubSeqProperties
<1>4. \A i \in 1..c : (a + 1) + i - 1 = a + i
  OBVIOUS
<1>5. (IF a + 1 <= Len(z) THEN c ELSE 0) = c
  OBVIOUS
<1> QED BY <1>1, <1>3, <1>4, <1>5

-----------------------------------------------------------------------------
(* Powers.                                                                 *)

\* What the powers of a base are.
LEMMA PowersSteps ==
  ASSUME NEW base \in Nat \ {0}
  PROVE  /\ Powers(base)[0] = 1
         /\ \A k \in Nat : /\ Powers(base)[k + 1] = base * Powers(base)[k]
                           /\ Powers(base)[k] \in Nat \ {0}
<1> DEFINE Rec(p) == p = [k \in Nat |-> IF k = 0 THEN 1 ELSE base * p[k - 1]]
<1> DEFINE upto(n) == [x \in (1..n) \X Nat |-> base * x[2]]
<1> DEFINE G(n) == CHOOSE f : f \in [0..n -> Nat] /\ f[0] = 1 /\ \A k \in 1..n : f[k] = base * f[k - 1]
<1>1. base \in Nat
  OBVIOUS
<1>2. ASSUME NEW n \in Nat
      PROVE  G(n) \in [0..n -> Nat] /\ G(n)[0] = 1 /\ \A k \in 1..n : G(n)[k] = base * G(n)[k - 1]
  <2>1. upto(n) \in [(1..n) \X Nat -> Nat]
    <3>1. \A x \in (1..n) \X Nat : base * x[2] \in Nat
      BY <1>1
    <3> QED BY <3>1
  <2>2. PICK f : Recursive(f, n, Nat, 1, upto(n))
    <3> HIDE DEF upto
    <3> QED BY <2>1, RecursionExists
  <2>3. f \in [0..n -> Nat] /\ f[0] = 1 /\ \A k \in 1..n : f[k] = base * f[k - 1]
    <3>1. ASSUME NEW k \in 1..n PROVE f[k] = base * f[k - 1]
      <4>1. f[k - 1] \in Nat
        BY <2>2 DEF Recursive
      <4>2. upto(n)[<<k, f[k - 1]>>] = base * f[k - 1]
        BY <4>1
      <4> HIDE DEF upto
      <4> QED BY <4>2, <2>2 DEF Recursive
    <3> HIDE DEF upto
    <3> QED BY <3>1, <2>2 DEF Recursive
  <2> QED BY <2>3
<1> HIDE DEF G
<1>3. ASSUME NEW n \in Nat PROVE G(n + 1)[n] = G(n)[n]
  <2> DEFINE f == G(n)
  <2> DEFINE g == G(n + 1)
  <2>1. /\ f[0] = 1 /\ g[0] = 1
        /\ \A k \in 1..n : f[k] = base * f[k - 1] /\ g[k] = base * g[k - 1]
    BY <1>2
  <2> SUFFICES g[n] = f[n]
    OBVIOUS
  <2> HIDE DEF f, g
  <2> DEFINE S == {k \in Nat : k <= n => g[k] = f[k]}
  <2>2. 0 \in S
    BY <2>1
  <2>3. ASSUME NEW k \in Nat, k \in S PROVE k + 1 \in S
    <3> SUFFICES ASSUME k + 1 <= n PROVE g[k + 1] = f[k + 1]
      OBVIOUS
    <3>1. k + 1 \in 1..n /\ (k + 1) - 1 = k
      OBVIOUS
    <3>2. g[k] = f[k]
      BY <2>3
    <3> QED BY <3>1, <3>2, <2>1
  <2> HIDE DEF S
  <2>4. n \in S
    BY <2>2, <2>3, Induction
  <2> QED BY <2>4 DEF S
<1> DEFINE p == [n \in Nat |-> G(n)[n]]
<1>4. ASSUME NEW n \in Nat PROVE p[n] = IF n = 0 THEN 1 ELSE base * p[n - 1]
  <2>1. CASE n = 0
    BY <2>1, <1>2
  <2>2. CASE n # 0
    <3>1. PICK m \in Nat : n = m + 1
      <4>1. n - 1 \in Nat /\ n = (n - 1) + 1
        BY <2>2
      <4> QED BY <4>1
    <3>2. n \in 1..n /\ n - 1 = m
      BY <3>1
    <3>3. G(n)[n] = base * G(n)[m]
      BY <3>2, <1>2
    <3>4. G(n)[m] = G(m)[m]
      BY <3>1, <1>3
    <3> QED BY <2>2, <3>2, <3>3, <3>4
  <2> QED BY <2>1, <2>2
<1>5. Rec(p)
  BY <1>4
<1> HIDE DEF p
<1>6. PICK power : Rec(power) /\ power = Powers(base)
  <2> DEFINE power == CHOOSE f : Rec(f)
  <2>1. Rec(power)
    BY <1>5
  <2>2. power = Powers(base)
    BY DEF Powers
  <2> HIDE DEF power
  <2> QED BY <2>1, <2>2
<1>7. power[0] = 1 /\ \A k \in Nat : power[k + 1] = base * power[k]
  <2>1. \A k \in Nat : power[k] = IF k = 0 THEN 1 ELSE base * power[k - 1]
    BY <1>6
  <2>2. \A k \in Nat : k + 1 \in Nat /\ k + 1 # 0 /\ (k + 1) - 1 = k
    OBVIOUS
  <2> QED BY <2>1, <2>2
<1> DEFINE S == {k \in Nat : power[k] \in Nat \ {0}}
<1>8. 0 \in S
  BY <1>7
<1>9. ASSUME NEW k \in Nat, k \in S PROVE k + 1 \in S
  <2>1. \A x \in Nat \ {0}, y \in Nat \ {0} : x * y \in Nat \ {0}
    OBVIOUS
  <2>2. base \in Nat \ {0} /\ power[k] \in Nat \ {0} /\ power[k + 1] = base * power[k]
    BY <1>7, <1>9
  <2> QED BY <2>1, <2>2
<1> HIDE DEF S
<1>10. Nat \subseteq S
  BY <1>8, <1>9, Induction
<1> QED BY <1>6, <1>7, <1>10 DEF S

\* Those of the number of values of a byte.
LEMMA PowerSteps == /\ Power[0] = 1
                    /\ \A k \in Nat : Power[k + 1] = B * Power[k] /\ Power[k] \in Nat \ {0}
BY ByteAssumption, PowersSteps DEF Power

-----------------------------------------------------------------------------
(* Integers.                                                               *)

\* A number in terms of its quotient and remainder.
LEMMA DivFacts ==
  ASSUME NEW n \in Nat, NEW p \in Nat \ {0}
  PROVE  \E q \in Nat, r \in 0..(p - 1) : q = n \div p /\ r = n % p /\ n = p * q + r
<1> DEFINE q == n \div p
<1> DEFINE r == n % p
<1>1. q \in Nat /\ r \in 0..(p - 1)
  OBVIOUS
<1>2. r = n - p * q
  BY Z3
<1>3. q = n \div p /\ r = n % p
  OBVIOUS
<1> HIDE DEF q, r
<1>4. p * q \in Nat
  BY <1>1
<1>5. n = p * q + r
  BY <1>1, <1>2, <1>4
<1> QED BY <1>1, <1>3, <1>5, Zenon

\* A remainder is what is left.
LEMMA ModUnique ==
  ASSUME NEW d \in Nat \ {0}, NEW a \in Nat, NEW x \in 0..(d - 1)
  PROVE  (d * a + x) % d = x
<1> DEFINE n == d * a + x
<1>1. d * a \in Nat
  OBVIOUS
<1>2. n \in Nat
  BY <1>1
<1>3. PICK q \in Nat, r \in 0..(d - 1) : r = n % d /\ n = d * q + r
  BY <1>2, DivFacts
<1>4. d * a + x = d * q + r
  BY <1>3
<1>5. ~(a < q)
  <2>1. SUFFICES ASSUME a < q PROVE FALSE
    OBVIOUS
  <2>2. PICK e \in Nat : q = a + 1 + e
    <3>1. q - a - 1 \in Nat /\ q = a + 1 + (q - a - 1)
      BY <2>1
    <3> QED BY <3>1
  <2>3. d * q = d * a + d + d * e /\ d * e \in Nat
    BY <2>2
  <2> QED BY <1>1, <1>4, <2>3
<1>6. ~(q < a)
  <2>1. SUFFICES ASSUME q < a PROVE FALSE
    OBVIOUS
  <2>2. PICK e \in Nat : a = q + 1 + e
    <3>1. a - q - 1 \in Nat /\ a = q + 1 + (a - q - 1)
      BY <2>1
    <3> QED BY <3>1
  <2>3. d * a = d * q + d + d * e /\ d * e \in Nat /\ d * q \in Nat
    BY <2>2
  <2> QED BY <1>4, <2>3
<1>7. a = q
  BY <1>5, <1>6
<1> QED BY <1>1, <1>3, <1>4, <1>7

\* What one more byte of a number adds.
LEMMA OneMoreByte ==
  ASSUME NEW n \in Nat, NEW p \in Nat \ {0}
  PROVE  n % (B * p) = (n % p) + ((n \div p) % B) * p
<1>1. B \in Nat \ {0}
  BY ByteAssumption
<1>2. PICK q \in Nat, r \in 0..(p - 1) : q = n \div p /\ r = n % p /\ n = p * q + r
  BY DivFacts
<1>3. PICK a \in Nat, b \in 0..(B - 1) : a = q \div B /\ b = q % B /\ q = B * a + b
  BY <1>1, DivFacts
<1>4. p * q = (B * p) * a + b * p
  <2>1. p * (B * a + b) = (B * p) * a + b * p
    BY <1>1
  <2> QED BY <1>3, <2>1
<1>5. b * p + r \in 0..(B * p - 1)
  <2>1. PICK e \in Nat : B = b + 1 + e
    <3>1. B - b - 1 \in Nat /\ B = b + 1 + (B - b - 1)
      BY <1>1
    <3> QED BY <3>1
  <2>2. B * p = b * p + p + e * p /\ e * p \in Nat /\ b * p \in Nat
    BY <2>1
  <2>3. B * p \in Nat
    BY <1>1
  <2> QED BY <2>2, <2>3
<1>6. B * p \in Nat \ {0}
  BY <1>1
<1>7. n = (B * p) * a + (b * p + r)
  <2>1. PICK x \in Nat, y \in Nat : x = (B * p) * a /\ y = b * p
    BY <1>1
  <2>2. n = (x + y) + r
    BY <1>2, <1>4, <2>1
  <2>3. n = x + (y + r)
    BY <2>1, <2>2
  <2> QED BY <2>1, <2>3
<1>8. n % (B * p) = b * p + r
  BY <1>5, <1>6, <1>7, ModUnique
<1>9. PICK y \in Nat : y = b * p
  OBVIOUS
<1>10. b * p + r = r + b * p
  BY <1>9
<1> QED BY <1>2, <1>3, <1>8, <1>10, Zenon

\* to_le_bytes gives as many bytes as the field has.
LEMMA LeFacts ==
  ASSUME NEW n \in Nat, NEW size \in Nat
  PROVE  /\ Le(n, size) \in Seq(Byte) /\ Len(Le(n, size)) = size
         /\ \A i \in 1..size : Le(n, size)[i] = (n \div Power[i - 1]) % B
<1>1. ASSUME NEW i \in 1..size PROVE (n \div Power[i - 1]) % B \in Byte
  <2>1. i - 1 \in Nat
    OBVIOUS
  <2>2. Power[i - 1] \in Nat \ {0}
    BY <2>1, PowerSteps
  <2>3. PICK q \in Nat : q = n \div Power[i - 1]
    BY <2>2, DivFacts
  <2>4. q % B \in Byte
    BY ByteAssumption DEF Byte
  <2> QED BY <2>3, <2>4
<1>2. Le(n, size) \in [1..size -> Byte]
  BY <1>1 DEF Le
<1>3. \A i \in 1..size : Le(n, size)[i] = (n \div Power[i - 1]) % B
  BY DEF Le
<1> QED BY <1>2, <1>3

\* s is added up by from_le_bytes byte by byte.
LEMMA FromLeSteps ==
  ASSUME NEW s \in Seq(Nat)
  PROVE  \E sum \in [0..Len(s) -> Nat] :
            /\ sum[0] = 0 /\ FromLe(s) = sum[Len(s)]
            /\ \A k \in 1..Len(s) : sum[k] = sum[k - 1] + s[k] * Power[k - 1]
<1> DEFINE n == Len(s)
<1> DEFINE Rec(f) == f = [k \in 0..n |-> IF k = 0 THEN 0 ELSE f[k - 1] + s[k] * Power[k - 1]]
<1> DEFINE step == [x \in (1..n) \X Nat |-> x[2] + s[x[1]] * Power[x[1] - 1]]
<1>1. n \in Nat
  OBVIOUS
<1>2. step \in [(1..n) \X Nat -> Nat]
  <2>1. ASSUME NEW x \in (1..n) \X Nat PROVE x[2] + s[x[1]] * Power[x[1] - 1] \in Nat
    <3>1. x[1] - 1 \in Nat /\ s[x[1]] \in Nat /\ x[2] \in Nat
      OBVIOUS
    <3>2. Power[x[1] - 1] \in Nat
      BY <3>1, PowerSteps
    <3>3. \A a, b, c \in Nat : a + b * c \in Nat
      OBVIOUS
    <3> QED BY <3>1, <3>2, <3>3
  <2> QED BY <2>1
<1>3. PICK f : Recursive(f, n, Nat, 0, step)
  <2> HIDE DEF step, n
  <2> QED BY <1>1, <1>2, RecursionExists
<1>4. ASSUME NEW k \in 1..n PROVE f[k] = f[k - 1] + s[k] * Power[k - 1]
  <2>1. f[k - 1] \in Nat
    BY <1>3 DEF Recursive
  <2>2. step[<<k, f[k - 1]>>] = f[k - 1] + s[k] * Power[k - 1]
    BY <2>1
  <2> HIDE DEF step
  <2> QED BY <2>2, <1>3 DEF Recursive
<1>5. f \in [0..n -> Nat] /\ f[0] = 0
  <2> HIDE DEF step, n
  <2> QED BY <1>3 DEF Recursive
<1>6. Rec(f)
  <2>1. \A k \in 0..n : f[k] = IF k = 0 THEN 0 ELSE f[k - 1] + s[k] * Power[k - 1]
    BY <1>4, <1>5
  <2> QED BY <2>1, <1>5
<1>7. PICK g : Rec(g) /\ FromLe(s) = g[n]
  <2> DEFINE g == CHOOSE h : Rec(h)
  <2>1. Rec(g)
    BY <1>6
  <2>2. FromLe(s) = g[n]
    BY DEF FromLe
  <2> HIDE DEF g
  <2> QED BY <2>1, <2>2
<1> HIDE DEF n
<1>8. \A k \in 0..n : g[k] = IF k = 0 THEN 0 ELSE g[k - 1] + s[k] * Power[k - 1]
  BY <1>7
<1>9. g[0] = 0 /\ \A k \in 1..n : g[k] = g[k - 1] + s[k] * Power[k - 1]
  BY <1>1, <1>8
<1>10. f = g
  <2> DEFINE S == {k \in Nat : k <= n => f[k] = g[k]}
  <2>1. 0 \in S
    BY <1>5, <1>9
  <2>2. ASSUME NEW k \in Nat, k \in S PROVE k + 1 \in S
    <3> SUFFICES ASSUME k + 1 <= n PROVE f[k + 1] = g[k + 1]
      OBVIOUS
    <3>1. k + 1 \in 1..n /\ (k + 1) - 1 = k
      BY <1>1
    <3>2. f[k] = g[k]
      BY <1>1, <2>2
    <3> QED BY <3>1, <3>2, <1>4, <1>9
  <2> HIDE DEF S
  <2>3. Nat \subseteq S
    BY <2>1, <2>2, Induction
  <2>4. \A k \in 0..n : f[k] = g[k]
    BY <2>3 DEF S
  <2> QED BY <1>5, <1>7, <2>4
<1> QED BY <1>4, <1>5, <1>7, <1>10 DEF n


\* What from_le_bytes adds up is a number.
LEMMA FromLeIsNat ==
  ASSUME NEW s \in Seq(Nat)
  PROVE  FromLe(s) \in Nat
<1>1. PICK sum \in [0..Len(s) -> Nat] : FromLe(s) = sum[Len(s)]
  BY FromLeSteps
<1>2. Len(s) \in 0..Len(s)
  OBVIOUS
<1> QED BY <1>1, <1>2

\* What to_le_bytes wrote from_le_bytes reads, if the field has room for it.
THEOREM NumbersArrive ==
  ASSUME NEW size \in Nat, NEW n \in 0..(Power[size] - 1)
  PROVE  FromLe(Le(n, size)) = n
<1>1. Power[size] \in Nat \ {0} /\ n \in Nat
  BY PowerSteps
<1>2. PICK s : s = Le(n, size)
  OBVIOUS
<1>3. s \in Seq(Byte) /\ Len(s) = size /\ \A i \in 1..size : s[i] = (n \div Power[i - 1]) % B
  BY <1>1, <1>2, LeFacts
<1>4. s \in Seq(Nat)
  BY <1>3, ByteAssumption DEF Byte
<1>5. PICK sum \in [0..size -> Nat] :
         /\ sum[0] = 0 /\ FromLe(s) = sum[size]
         /\ \A k \in 1..size : sum[k] = sum[k - 1] + s[k] * Power[k - 1]
  BY <1>3, <1>4, FromLeSteps
<1> DEFINE S == {k \in Nat : k <= size => sum[k] = n % Power[k]}
<1>6. 0 \in S
  <2>1. n % 1 = 0
    BY <1>1
  <2> QED BY <2>1, <1>5, PowerSteps
<1>7. ASSUME NEW k \in Nat, k \in S PROVE k + 1 \in S
  <2> SUFFICES ASSUME k + 1 <= size PROVE sum[k + 1] = n % Power[k + 1]
    OBVIOUS
  <2>1. k + 1 \in 1..size /\ (k + 1) - 1 = k
    OBVIOUS
  <2>2. sum[k + 1] = sum[k] + s[k + 1] * Power[k]
    BY <2>1, <1>5
  <2>3. s[k + 1] = (n \div Power[k]) % B
    BY <2>1, <1>3
  <2>4. sum[k] = n % Power[k]
    BY <1>7
  <2>5. Power[k] \in Nat \ {0} /\ Power[k + 1] = B * Power[k]
    BY PowerSteps
  <2>6. n % (B * Power[k]) = (n % Power[k]) + ((n \div Power[k]) % B) * Power[k]
    BY <1>1, <2>5, OneMoreByte
  <2> QED BY <2>2, <2>3, <2>4, <2>5, <2>6, Zenon
<1> HIDE DEF S
<1>8. size \in S
  BY <1>6, <1>7, Induction
<1>9. sum[size] = n % Power[size]
  BY <1>8 DEF S
<1>10. n % Power[size] = n
  <2>1. Power[size] * 0 + n = n
    BY <1>1
  <2>2. (Power[size] * 0 + n) % Power[size] = n
    BY <1>1, ModUnique
  <2> QED BY <2>1, <2>2
<1> QED BY <1>2, <1>5, <1>9, <1>10

-----------------------------------------------------------------------------
(* Sequences.                                                              *)

\* The parts that a sequence was put together from.
LEMMA Parts ==
  ASSUME NEW a \in Seq(Byte), NEW b \in Seq(Byte)
  PROVE  /\ a \o b \in Seq(Byte) /\ Len(a \o b) = Len(a) + Len(b)
         /\ SubSeq(a \o b, 1, Len(a)) = a
         /\ SubSeq(a \o b, Len(a) + 1, Len(a) + Len(b)) = b
         /\ \A i \in 1..Len(a) : (a \o b)[i] = a[i]
         /\ \A i \in 1..Len(b) : (a \o b)[Len(a) + i] = b[i]
<1>1. a \o b \in Seq(Byte) /\ Len(a \o b) = Len(a) + Len(b)
  OBVIOUS
<1>2. \A i \in 1..Len(a) : (a \o b)[i] = a[i]
  OBVIOUS
<1>3. \A i \in 1..Len(b) : (a \o b)[Len(a) + i] = b[i]
  OBVIOUS
<1>4. SubSeq(a \o b, 1, Len(a)) = a
  OBVIOUS
<1>5. SubSeq(a \o b, Len(a) + 1, Len(a) + Len(b)) = b
  OBVIOUS
<1> QED BY <1>1, <1>2, <1>3, <1>4, <1>5

\* Three parts.
LEMMA Middle ==
  ASSUME NEW a \in Seq(Byte), NEW b \in Seq(Byte), NEW c \in Seq(Byte)
  PROVE  /\ SubSeq((a \o b) \o c, Len(a) + 1, Len(a) + Len(b)) = b
         /\ (a \o b) \o c = a \o (b \o c)
<1>1. SubSeq((a \o b) \o c, Len(a) + 1, Len(a) + Len(b)) = SubSeq(a \o b, Len(a) + 1, Len(a) + Len(b))
  <2> DEFINE z == a \o b
  <2>1. z \in Seq(Byte) /\ Len(z) = Len(a) + Len(b)
    OBVIOUS
  <2> HIDE DEF z
  <2>2. SubSeq(z \o c, Len(a) + 1, Len(z)) = SubSeq(z, Len(a) + 1, Len(z))
    BY <2>1
  <2> QED BY <2>1, <2>2 DEF z
<1>2. SubSeq((a \o b) \o c, Len(a) + 1, Len(a) + Len(b)) = b
  BY <1>1, Parts
<1>3. (a \o b) \o c = a \o (b \o c)
  OBVIOUS
<1> QED BY <1>2, <1>3

\* The number that bytes stand for.
LEMMA NumberOfBytes ==
  ASSUME NEW s \in Seq(Byte)
  PROVE  FromLe(s) \in Nat
<1>1. s \in Seq(Nat)
  BY ByteAssumption DEF Byte
<1> QED BY <1>1, FromLeIsNat

\* The bytes of a field.
LEMMA FieldBytes ==
  ASSUME NEW size \in Nat, NEW n \in 0..(Power[size] - 1)
  PROVE  Le(n, size) \in Seq(Byte) /\ Len(Le(n, size)) = size /\ FromLe(Le(n, size)) = n
<1>1. n \in Nat
  BY PowerSteps
<1> QED BY <1>1, LeFacts, NumbersArrive

-----------------------------------------------------------------------------
(* HuiduCodec.                                                             *)

\* decode finds what encode wrote, and all of it.
THEOREM CodecRoundTrip ==
  ASSUME NEW cmd \in DOMAIN Code, NEW payload \in Seq(Byte), CodecFits(payload)
  PROVE  LET bytes == CodecEncode(cmd, payload) IN
         /\ bytes \in Seq(Byte) /\ Len(bytes) = N16 + N16 + Len(payload)
         /\ CodecDecode(bytes) = Found(cmd, payload, Len(bytes))
<1>1. N16 \in Nat \ {0} /\ Code[cmd] \in 0..(Power[N16] - 1) /\ IsInjective(Code)
  BY ByteAssumption
<1>2. PICK len \in 0..(Power[N16] - 1) : len = N16 + Len(payload)
  <2>1. N16 + Len(payload) < Power[N16]
    BY DEF CodecFits, CMD
  <2>2. PICK p \in Nat : p = Power[N16]
    BY <1>1, PowerSteps
  <2>3. PICK n \in Nat : n = N16 + Len(payload)
    BY <1>1
  <2> QED BY <2>1, <2>2, <2>3
<1>3. PICK h \in Seq(Byte) : h = Le(len, N16) /\ Len(h) = N16 /\ FromLe(h) = len
  BY <1>1, FieldBytes
<1>4. PICK c \in Seq(Byte) : c = Le(Code[cmd], N16) /\ Len(c) = N16 /\ FromLe(c) = Code[cmd]
  BY <1>1, FieldBytes
<1> DEFINE bytes == (h \o c) \o payload
<1>5. CodecEncode(cmd, payload) = bytes
  BY <1>2, <1>3, <1>4 DEF CodecEncode, CMD
<1>6. bytes \in Seq(Byte) /\ Len(bytes) = N16 + N16 + Len(payload)
  BY <1>3, <1>4
<1>7. SubSeq(bytes, 1, N16) = h
  BY <1>1, <1>3, <1>4
<1>8. SubSeq(bytes, N16 + 1, N16 + N16) = c
  <2>1. SubSeq((h \o c) \o payload, Len(h) + 1, Len(h) + Len(c)) = c
    BY Middle
  <2> QED BY <1>3, <1>4, <2>1
<1>9. SubSeq(bytes, N16 + N16 + 1, N16 + len) = payload
  <2>1. h \o c \in Seq(Byte) /\ Len(h \o c) = N16 + N16
    BY <1>3, <1>4
  <2> DEFINE z == h \o c
  <2> HIDE DEF z
  <2>2. SubSeq(z \o payload, Len(z) + 1, Len(z) + Len(payload)) = payload
    BY <2>1, Parts DEF z
  <2>3. N16 + len = (N16 + N16) + Len(payload)
    BY <1>1, <1>2
  <2> QED BY <2>1, <2>2, <2>3 DEF z
<1> HIDE DEF bytes
<1>10. Known(Code[cmd]) /\ Command(Code[cmd]) = cmd
  <2>1. Known(Code[cmd])
    BY DEF Known
  <2>2. PICK d \in DOMAIN Code : d = Command(Code[cmd]) /\ Code[d] = Code[cmd]
    BY DEF Command
  <2>3. d = cmd
    BY <1>1, <2>2 DEF IsInjective
  <2> QED BY <2>1, <2>2, <2>3
<1>11. ~(Len(bytes) < N16) /\ ~(len < N16) /\ ~(Len(bytes) < N16 + len) /\ Len(bytes) = N16 + len
  BY <1>1, <1>2, <1>6
<1>12. CodecDecode(bytes) = Found(cmd, payload, Len(bytes))
  BY <1>3, <1>4, <1>7, <1>8, <1>9, <1>10, <1>11 DEF CodecDecode, CMD, Total
<1> QED BY <1>5, <1>6, <1>12

\* More bytes behind a frame, or behind an error, change nothing.
THEOREM CodecExtends ==
  ASSUME NEW buffer \in Seq(Byte), NEW more \in Seq(Byte), CodecDecode(buffer).verdict # "more"
  PROVE  CodecDecode(buffer \o more) = CodecDecode(buffer)
<1>1. N16 \in Nat \ {0}
  BY ByteAssumption
<1> DEFINE all == buffer \o more
<1>2. all \in Seq(Byte) /\ Len(all) = Len(buffer) + Len(more) /\ Len(buffer) \in Nat /\ Len(more) \in Nat
  OBVIOUS
<1>3. \A m \in Nat \ {0}, n \in Nat : n <= Len(buffer) => SubSeq(all, m, n) = SubSeq(buffer, m, n)
  OBVIOUS
<1> HIDE DEF all
<1>4. ~(Len(buffer) < N16) /\ ~(Len(all) < N16)
  <2>1. CASE Len(buffer) < N16
    BY <2>1 DEF CodecDecode, More
  <2>2. CASE ~(Len(buffer) < N16)
    BY <1>1, <1>2, <2>2
  <2> QED BY <2>1, <2>2
<1>5. PICK len \in Nat : len = FromLe(SubSeq(buffer, 1, N16))
  <2>1. N16 \in Nat /\ N16 <= Len(buffer)
    BY <1>1, <1>2, <1>4
  <2>2. SubSeq(buffer, 1, N16) \in Seq(Byte)
    BY <2>1
  <2> QED BY <2>2, NumberOfBytes
<1>6. SubSeq(all, 1, N16) = SubSeq(buffer, 1, N16)
  <2>1. N16 \in Nat /\ N16 <= Len(buffer) /\ 1 \in Nat \ {0}
    BY <1>1, <1>2, <1>4
  <2> QED BY <2>1, <1>3
<1>7. CASE len < CMD
  BY <1>4, <1>5, <1>6, <1>7 DEF CodecDecode, all
<1>8. CASE ~(len < CMD)
  <2>1. ~(Len(buffer) < Total(len))
    BY <1>4, <1>5, <1>8 DEF CodecDecode, More
  <2>2. /\ N16 + CMD <= Len(buffer) /\ Total(len) <= Len(buffer) /\ ~(Len(all) < Total(len))
        /\ Total(len) \in Nat /\ N16 + CMD \in Nat /\ N16 + 1 \in Nat \ {0}
        /\ N16 + CMD + 1 \in Nat \ {0}
    BY <1>1, <1>2, <1>5, <1>8, <2>1 DEF Total, CMD
  <2>3. SubSeq(all, N16 + 1, N16 + CMD) = SubSeq(buffer, N16 + 1, N16 + CMD)
    BY <1>3, <2>2
  <2>4. SubSeq(all, N16 + CMD + 1, Total(len)) = SubSeq(buffer, N16 + CMD + 1, Total(len))
    BY <1>3, <2>2
  <2> QED BY <1>4, <1>5, <1>6, <1>8, <2>1, <2>2, <2>3, <2>4 DEF CodecDecode, all
<1> QED BY <1>7, <1>8

-----------------------------------------------------------------------------
(* Hd2020Frame.                                                            *)

\* An addition of bytes that wraps.
LEMMA Wraps ==
  ASSUME NEW x \in Byte, NEW y \in Byte
  PROVE  /\ (x + y) % B \in Byte
         /\ (x + y) % B = x + y \/ (x + y) % B = x + y - B
<1>1. B \in Nat \ {0} /\ x \in Nat /\ y \in Nat /\ x < B /\ y < B
  BY ByteAssumption DEF Byte
<1>2. CASE x + y < B
  <2>1. x + y \in 0..(B - 1) /\ B * 0 + (x + y) = x + y
    BY <1>1, <1>2
  <2>2. (B * 0 + (x + y)) % B = x + y
    BY <1>1, <2>1, ModUnique
  <2> QED BY <2>1, <2>2 DEF Byte
<1>3. CASE ~(x + y < B)
  <2>1. PICK z \in 0..(B - 1) : z = x + y - B
    BY <1>1, <1>3
  <2>2. B * 1 + z = x + y
    BY <1>1, <2>1
  <2>3. (B * 1 + z) % B = z
    BY <1>1, <2>1, ModUnique
  <2> QED BY <2>1, <2>2, <2>3 DEF Byte
<1> QED BY <1>2, <1>3

\* It tells any two bytes apart.
LEMMA WrapsApart ==
  ASSUME NEW x \in Byte, NEW y \in Byte, NEW z \in Byte, x # y
  PROVE  (x + z) % B # (y + z) % B /\ (z + x) % B # (z + y) % B
<1>1. B \in Nat \ {0} /\ x \in 0..(B - 1) /\ y \in 0..(B - 1) /\ z \in 0..(B - 1)
  BY ByteAssumption DEF Byte
<1>2. PICK p \in Byte : p = (x + z) % B /\ (p = x + z \/ p = x + z - B)
  BY Wraps
<1>3. PICK q \in Byte : q = (y + z) % B /\ (q = y + z \/ q = y + z - B)
  BY Wraps
<1>4. p \in 0..(B - 1) /\ q \in 0..(B - 1)
  BY DEF Byte
<1>5. p # q
  BY <1>1, <1>2, <1>3, <1>4
<1>6. z + x = x + z /\ z + y = y + z
  BY <1>1
<1> QED BY <1>2, <1>3, <1>5, <1>6

\* A change of a byte is a change.
LEMMA Changed ==
  ASSUME NEW x \in Byte, NEW change \in 1..(B - 1)
  PROVE  (x + change) % B \in Byte /\ (x + change) % B # x
<1>1. B \in Nat \ {0} /\ x \in 0..(B - 1) /\ change \in Byte /\ 0 \in Byte
  BY ByteAssumption DEF Byte
<1>2. (x + change) % B \in Byte /\ (x + change) % B # (x + 0) % B
  BY <1>1, Wraps, WrapsApart
<1>3. (x + 0) % B = x
  <2>1. B * 0 + x = x /\ x + 0 = x
    BY <1>1
  <2>2. (B * 0 + x) % B = x
    BY <1>1, ModUnique
  <2> QED BY <2>1, <2>2
<1> QED BY <1>2, <1>3

\* sum is what the checksum is made of, byte by byte.
Sums(sum, first, bytes) ==
  /\ sum \in [0..Len(bytes) -> Byte]
  /\ sum[0] = first
  /\ \A k \in 1..Len(bytes) : sum[k] = (sum[k - 1] + bytes[k]) % B

\* The checksum adds up the command, the length and the payload.
LEMMA ChecksumSteps ==
  ASSUME NEW cmd \in Byte, NEW len \in Nat, NEW payload \in Seq(Byte)
  PROVE  LET bytes == Le(len, N16) \o payload IN
         /\ bytes \in Seq(Byte) /\ Len(bytes) = N16 + Len(payload)
         /\ \E sum : Sums(sum, cmd, bytes) /\ Checksum(cmd, len, payload) = sum[Len(bytes)]
<1> DEFINE s == Le(len, N16) \o payload
<1> DEFINE n == Len(s)
<1> DEFINE Rec(f) == f = [k \in 0..n |-> IF k = 0 THEN cmd ELSE (f[k - 1] + s[k]) % B]
<1> DEFINE step == [x \in (1..n) \X Byte |-> (x[2] + s[x[1]]) % B]
<1>1. Checksum(cmd, len, payload) = (CHOOSE f : Rec(f))[n]
  BY DEF Checksum
<1>2. s \in Seq(Byte) /\ Len(s) = N16 + Len(payload)
  <2>1. PICK h \in Seq(Byte) : h = Le(len, N16) /\ Len(h) = N16
    BY ByteAssumption, LeFacts
  <2> QED BY <2>1
<1> HIDE DEF s
<1>3. n \in Nat /\ \A k \in 1..n : s[k] \in Byte
  BY <1>2
<1>4. step \in [(1..n) \X Byte -> Byte]
  <2>1. ASSUME NEW x \in (1..n) \X Byte PROVE (x[2] + s[x[1]]) % B \in Byte
    <3>1. PICK a \in Byte, b \in Byte : a = x[2] /\ b = s[x[1]]
      BY <1>3
    <3> QED BY <3>1, Wraps
  <2> QED BY <2>1
<1>5. PICK f : Recursive(f, n, Byte, cmd, step)
  <2> HIDE DEF step, n
  <2> QED BY <1>3, <1>4, RecursionExists
<1>6. \A k \in 1..n : f[k] = (f[k - 1] + s[k]) % B
  <2>1. ASSUME NEW k \in 1..n PROVE f[k] = (f[k - 1] + s[k]) % B
    <3>1. f[k - 1] \in Byte
      BY <1>3, <1>5 DEF Recursive
    <3>2. step[<<k, f[k - 1]>>] = (f[k - 1] + s[k]) % B
      BY <3>1
    <3> HIDE DEF step
    <3> QED BY <3>2, <1>5 DEF Recursive
  <2> QED BY <2>1
<1>7. f \in [0..n -> Byte] /\ f[0] = cmd
  <2> HIDE DEF step, n
  <2> QED BY <1>5 DEF Recursive
<1> HIDE DEF step
<1>8. Rec(f)
  <2>1. \A k \in 0..n : f[k] = IF k = 0 THEN cmd ELSE (f[k - 1] + s[k]) % B
    BY <1>3, <1>6, <1>7
  <2> QED BY <2>1, <1>7
<1>9. PICK g : Rec(g) /\ Checksum(cmd, len, payload) = g[n]
  <2> DEFINE g == CHOOSE h : Rec(h)
  <2>1. Rec(g)
    BY <1>8
  <2>2. Checksum(cmd, len, payload) = g[n]
    BY <1>1
  <2> HIDE DEF g
  <2> QED BY <2>1, <2>2
<1> HIDE DEF n
<1>10. \A k \in 0..n : g[k] = IF k = 0 THEN cmd ELSE (g[k - 1] + s[k]) % B
  BY <1>9
<1>11. g[0] = cmd /\ \A k \in 1..n : g[k] = (g[k - 1] + s[k]) % B
  BY <1>3, <1>10
<1> DEFINE S == {k \in Nat : k <= n => f[k] = g[k]}
<1>12. 0 \in S
  BY <1>7, <1>11
<1>13. ASSUME NEW k \in Nat, k \in S PROVE k + 1 \in S
  <2> SUFFICES ASSUME k + 1 <= n PROVE f[k + 1] = g[k + 1]
    OBVIOUS
  <2>1. k + 1 \in 1..n /\ (k + 1) - 1 = k
    BY <1>3
  <2>2. f[k] = g[k]
    BY <1>3, <1>13
  <2> QED BY <2>1, <2>2, <1>6, <1>11
<1> HIDE DEF S
<1>14. n \in S
  BY <1>3, <1>12, <1>13, Induction
<1>15. f[n] = g[n]
  BY <1>3, <1>14 DEF S
<1>16. Sums(f, cmd, s)
  BY <1>6, <1>7 DEF Sums, n
<1>17. Checksum(cmd, len, payload) = f[Len(s)]
  BY <1>9, <1>15 DEF n
<1> QED BY <1>2, <1>16, <1>17 DEF s

\* Two sequences are the same from one place to another.
Agree(s, t, from, to) == \A k \in from..to : s[k] = t[k]

\* Sums that differ somewhere differ to the end, if nothing differs from there.
LEMMA StayApart ==
  ASSUME NEW s \in Seq(Byte), NEW t \in Seq(Byte), Len(s) = Len(t), NEW a, NEW b,
         NEW f, Sums(f, a, s), NEW g, Sums(g, b, t),
         NEW m \in 0..Len(s), f[m] # g[m], Agree(s, t, m + 1, Len(s))
  PROVE  f[Len(s)] # g[Len(s)]
<1> DEFINE n == Len(s)
<1>1. /\ n \in Nat /\ m \in Nat /\ m <= n
      /\ f \in [0..n -> Byte] /\ g \in [0..n -> Byte]
  BY DEF Sums
<1>2. \A k \in 1..n : /\ f[k] = (f[k - 1] + s[k]) % B /\ g[k] = (g[k - 1] + t[k]) % B
                      /\ s[k] \in Byte /\ t[k] \in Byte
  BY DEF Sums
<1>3. \A k \in (m + 1)..n : s[k] = t[k]
  BY DEF Agree
<1> HIDE DEF n
<1> DEFINE S == {k \in Nat : m <= k /\ k <= n => f[k] # g[k]}
<1>4. 0 \in S
  BY <1>1
<1>5. ASSUME NEW k \in Nat, k \in S PROVE k + 1 \in S
  <2> SUFFICES ASSUME m <= k + 1, k + 1 <= n, m # k + 1 PROVE f[k + 1] # g[k + 1]
    BY <1>1
  <2>1. k + 1 \in 1..n /\ (k + 1) - 1 = k /\ k + 1 \in (m + 1)..n /\ k \in 0..n /\ m <= k
    BY <1>1
  <2>2. f[k] # g[k] /\ f[k] \in Byte /\ g[k] \in Byte
    BY <1>1, <1>5, <2>1
  <2>3. f[k + 1] = (f[k] + s[k + 1]) % B /\ g[k + 1] = (g[k] + s[k + 1]) % B /\ s[k + 1] \in Byte
    BY <2>1, <1>2, <1>3
  <2> QED BY <2>2, <2>3, WrapsApart
<1> HIDE DEF S
<1>6. n \in S
  BY <1>1, <1>4, <1>5, Induction
<1> QED BY <1>1, <1>6 DEF S, n

\* Sums of the same bytes are the same.
LEMMA StaySame ==
  ASSUME NEW s \in Seq(Byte), NEW t \in Seq(Byte), Len(s) = Len(t), NEW a,
         NEW f, Sums(f, a, s), NEW g, Sums(g, a, t),
         NEW m \in 0..Len(s), Agree(s, t, 1, m)
  PROVE  f[m] = g[m]
<1> DEFINE S == {k \in Nat : k <= m => f[k] = g[k]}
<1>1. 0 \in S
  BY DEF Sums
<1>2. ASSUME NEW k \in Nat, k \in S PROVE k + 1 \in S
  <2> SUFFICES ASSUME k + 1 <= m PROVE f[k + 1] = g[k + 1]
    OBVIOUS
  <2>1. k + 1 \in 1..Len(s) /\ (k + 1) - 1 = k /\ k + 1 \in 1..m
    OBVIOUS
  <2>2. f[k] = g[k]
    BY <1>2
  <2>3. f[k + 1] = (f[k] + s[k + 1]) % B /\ g[k + 1] = (g[k] + t[k + 1]) % B
    BY <2>1 DEF Sums
  <2> QED BY <2>1, <2>2, <2>3 DEF Agree
<1> HIDE DEF S
<1>3. m \in S
  BY <1>1, <1>2, Induction
<1> QED BY <1>3 DEF S

\* The same bytes with one of them changed.
OneOff(s, t, m) == /\ Len(s) = Len(t) /\ m \in 1..Len(s)
                   /\ s[m] # t[m] /\ \A k \in (1..Len(s)) \ {m} : s[k] = t[k]

\* The checksum is a byte, and no other command has the same one ...
LEMMA ChecksumOfCommand ==
  ASSUME NEW cmd \in Byte, NEW other \in Byte, NEW len \in Nat, NEW payload \in Seq(Byte)
  PROVE  /\ Checksum(cmd, len, payload) \in Byte
         /\ cmd # other => Checksum(cmd, len, payload) # Checksum(other, len, payload)
<1>1. PICK s, n, f, g :
         /\ s \in Seq(Byte) /\ n \in Nat /\ n = Len(s) /\ Sums(f, cmd, s) /\ Sums(g, other, s)
         /\ Checksum(cmd, len, payload) = f[n] /\ Checksum(other, len, payload) = g[n]
  <2> DEFINE s == Le(len, N16) \o payload
  <2>1. s \in Seq(Byte) /\ \E f : Sums(f, cmd, s) /\ Checksum(cmd, len, payload) = f[Len(s)]
    BY ChecksumSteps
  <2>2. \E g : Sums(g, other, s) /\ Checksum(other, len, payload) = g[Len(s)]
    BY ChecksumSteps
  <2> HIDE DEF s
  <2>3. Len(s) \in Nat
    BY <2>1
  <2> QED BY <2>1, <2>2, <2>3
<1>2. f[n] \in Byte
  <2>1. n \in 0..Len(s)
    BY <1>1
  <2> QED BY <1>1, <2>1 DEF Sums
<1>3. ASSUME cmd # other PROVE f[n] # g[n]
  <2>1. f[0] # g[0] /\ 0 \in 0..Len(s) /\ Agree(s, s, 0 + 1, Len(s))
    BY <1>1, <1>3 DEF Sums, Agree
  <2>2. f[Len(s)] # g[Len(s)]
    BY <1>1, <2>1, StayApart
  <2> QED BY <1>1, <2>2
<1> QED BY <1>1, <1>2, <1>3

\* ... nor has a payload of which one byte was changed.
LEMMA ChecksumOfPayload ==
  ASSUME NEW cmd \in Byte, NEW len \in Nat, NEW payload \in Seq(Byte), NEW other \in Seq(Byte),
         NEW m, OneOff(payload, other, m)
  PROVE  Checksum(cmd, len, payload) # Checksum(cmd, len, other)
<1>1. PICK h \in Seq(Byte) : h = Le(len, N16) /\ Len(h) = N16
  BY ByteAssumption, LeFacts
<1>2. PICK s, f :
         /\ s \in Seq(Byte) /\ s = h \o payload /\ Sums(f, cmd, s) /\ Checksum(cmd, len, payload) = f[Len(s)]
  <2> DEFINE s == Le(len, N16) \o payload
  <2>1. s \in Seq(Byte) /\ \E f : Sums(f, cmd, s) /\ Checksum(cmd, len, payload) = f[Len(s)]
    BY ChecksumSteps
  <2>2. s = h \o payload
    BY <1>1
  <2> HIDE DEF s
  <2> QED BY <2>1, <2>2
<1>3. PICK t, g :
         /\ t \in Seq(Byte) /\ t = h \o other /\ Sums(g, cmd, t) /\ Checksum(cmd, len, other) = g[Len(t)]
  <2> DEFINE t == Le(len, N16) \o other
  <2>1. t \in Seq(Byte) /\ \E g : Sums(g, cmd, t) /\ Checksum(cmd, len, other) = g[Len(t)]
    BY ChecksumSteps
  <2>2. t = h \o other
    BY <1>1
  <2> HIDE DEF t
  <2> QED BY <2>1, <2>2
<1>4. /\ Len(s) = N16 + Len(payload) /\ Len(t) = N16 + Len(payload)
      /\ N16 \in Nat /\ Len(payload) \in Nat /\ m \in 1..Len(payload)
  <2>1. N16 \in Nat /\ Len(payload) \in Nat /\ Len(payload) = Len(other) /\ m \in 1..Len(payload)
    BY ByteAssumption DEF OneOff
  <2>2. Len(s) = N16 + Len(payload)
    BY <1>1, <1>2
  <2>3. Len(t) = N16 + Len(other)
    BY <1>1, <1>3
  <2> QED BY <2>1, <2>2, <2>3
<1>5. s \in Seq(Byte) /\ t \in Seq(Byte)
  BY <1>2, <1>3
<1>6. ASSUME NEW i \in 1..Len(s), i # N16 + m PROVE s[i] = t[i]
  <2>1. CASE i \in 1..N16
    <3>1. s[i] = h[i] /\ t[i] = h[i]
      BY <1>1, <1>2, <1>3, <2>1
    <3> QED BY <3>1
  <2>2. CASE i \notin 1..N16
    <3>1. PICK k \in 1..Len(payload) : i = N16 + k /\ k # m
      <4>1. i - N16 \in 1..Len(payload) /\ i = N16 + (i - N16) /\ i - N16 # m
        BY <1>4, <1>6, <2>2
      <4> QED BY <4>1
    <3>2. s[i] = payload[k]
      BY <1>1, <1>2, <3>1
    <3>3. t[i] = other[k]
      BY <1>1, <1>3, <3>1 DEF OneOff
    <3>4. payload[k] = other[k]
      BY <3>1 DEF OneOff
    <3> QED BY <3>2, <3>3, <3>4
  <2> QED BY <2>1, <2>2
<1>7. PICK at \in 1..Len(s) : at = N16 + m
  BY <1>4
<1>8. s[at] # t[at]
  <2>1. s[at] = payload[m]
    BY <1>1, <1>2, <1>4, <1>7
  <2>2. t[at] = other[m]
    BY <1>1, <1>3, <1>4, <1>7 DEF OneOff
  <2> QED BY <2>1, <2>2 DEF OneOff
<1>9. at - 1 \in 0..Len(s) /\ at \in 0..Len(s) /\ at \in 1..Len(t)
  BY <1>4, <1>7
<1>10. f[at - 1] = g[at - 1]
  <2>1. \A k \in 1..(at - 1) : s[k] = t[k]
    BY <1>4, <1>6, <1>7
  <2>2. PICK p \in 0..Len(s) : p = at - 1
    BY <1>9
  <2>3. Len(s) = Len(t) /\ Agree(s, t, 1, p)
    BY <1>4, <2>1, <2>2 DEF Agree
  <2>4. f[p] = g[p]
    <3>1. Sums(f, cmd, s) /\ Sums(g, cmd, t)
      BY <1>2, <1>3
    <3> QED BY <1>5, <2>3, <3>1, StaySame
  <2> QED BY <2>2, <2>4
<1>11. f[at] # g[at]
  <2>1. f[at] = (f[at - 1] + s[at]) % B /\ g[at] = (f[at - 1] + t[at]) % B
    BY <1>2, <1>3, <1>9, <1>10 DEF Sums
  <2>2. f[at - 1] \in Byte /\ s[at] \in Byte /\ t[at] \in Byte
    <3>1. f[at - 1] \in Byte
      BY <1>2, <1>9 DEF Sums
    <3>2. s[at] \in Byte
      BY <1>5
    <3>3. t[at] \in Byte
      BY <1>9, <1>5
    <3> QED BY <3>1, <3>2, <3>3
  <2> QED BY <1>8, <2>1, <2>2, WrapsApart
<1>12. f[Len(s)] # g[Len(s)]
  <2>1. Agree(s, t, at + 1, Len(s))
    BY <1>4, <1>6, <1>7 DEF Agree
  <2>2. Len(s) = Len(t) /\ at \in 0..Len(s)
    BY <1>4, <1>9
  <2>3. Sums(f, cmd, s) /\ Sums(g, cmd, t)
    BY <1>2, <1>3
  <2> QED BY <1>11, <1>5, <2>1, <2>2, <2>3, StayApart
<1> QED BY <1>2, <1>3, <1>4, <1>12

\* Any byte before and after a payload and its length.
Laid(start, cmd, payload, sum) ==
  <<start, cmd>> \o Le(Len(payload), N16) \o payload \o <<sum>>

\* Where each byte of it is.
Places(z, start, cmd, payload, sum) ==
  /\ z \in Seq(Byte) /\ Len(z) = OVERHEAD + Len(payload)
  /\ z[1] = start /\ z[2] = cmd /\ z[OVERHEAD + Len(payload)] = sum
  /\ \A i \in 1..N16 : z[2 + i] = Le(Len(payload), N16)[i]
  /\ \A i \in 1..Len(payload) : z[2 + N16 + i] = payload[i]
  /\ SubSeq(z, 3, 2 + N16) = Le(Len(payload), N16)
  /\ SubSeq(z, 3 + N16, 2 + N16 + Len(payload)) = payload

\* They are where the layout puts them.
LEMMA LaidFacts ==
  ASSUME NEW start \in Byte, NEW cmd \in Byte, NEW payload \in Seq(Byte), NEW sum \in Byte
  PROVE  Places(Laid(start, cmd, payload, sum), start, cmd, payload, sum)
<1> DEFINE h == Le(Len(payload), N16)
<1>1. N16 \in Nat \ {0} /\ Len(payload) \in Nat
  BY ByteAssumption
<1>2. h \in Seq(Byte) /\ Len(h) = N16
  BY <1>1, LeFacts
<1> DEFINE a == <<start, cmd>>
<1> DEFINE k == <<sum>>
<1>3. a \in Seq(Byte) /\ Len(a) = 2 /\ a[1] = start /\ a[2] = cmd
  OBVIOUS
<1>4. k \in Seq(Byte) /\ Len(k) = 1 /\ k[1] = sum
  OBVIOUS
<1> DEFINE z == ((a \o h) \o payload) \o k
<1>5. Laid(start, cmd, payload, sum) = z
  BY DEF Laid
<1> HIDE DEF a, k, h
<1> DEFINE ah == a \o h
<1>6. ah \in Seq(Byte) /\ Len(ah) = 2 + N16 /\ ah[1] = start /\ ah[2] = cmd
  <2>1. ah \in Seq(Byte) /\ Len(ah) = Len(a) + Len(h) /\ \A i \in 1..Len(a) : ah[i] = a[i]
    BY <1>2, <1>3, Parts
  <2>2. 1 \in 1..2 /\ 2 \in 1..2
    OBVIOUS
  <2> QED BY <1>2, <1>3, <2>1, <2>2
<1>7. \A i \in 1..N16 : ah[2 + i] = h[i]
  <2>1. \A i \in 1..Len(h) : ah[Len(a) + i] = h[i]
    BY <1>2, <1>3, Parts
  <2> QED BY <1>2, <1>3, <2>1
<1>8. SubSeq(ah, 3, 2 + N16) = h
  <2>1. SubSeq(ah, Len(a) + 1, Len(a) + Len(h)) = h
    BY <1>2, <1>3, Parts
  <2>2. Len(a) + 1 = 3
    BY <1>3
  <2> QED BY <1>2, <1>3, <2>1, <2>2
<1> HIDE DEF ah
<1> DEFINE ahp == ah \o payload
<1>9. ahp \in Seq(Byte) /\ Len(ahp) = 2 + N16 + Len(payload)
  BY <1>1, <1>6
<1>10. \A i \in 1..(2 + N16) : ahp[i] = ah[i]
  BY <1>1, <1>6
<1>11. \A i \in 1..Len(payload) : ahp[2 + N16 + i] = payload[i]
  BY <1>1, <1>6
<1>12. SubSeq(ahp, 3, 2 + N16) = h
  BY <1>1, <1>6, <1>8
<1>13. SubSeq(ahp, 3 + N16, 2 + N16 + Len(payload)) = payload
  <2>1. SubSeq(ahp, Len(ah) + 1, Len(ah) + Len(payload)) = payload
    BY <1>6, Parts
  <2>2. Len(ah) + 1 = 3 + N16
    BY <1>1, <1>6
  <2> QED BY <1>6, <2>1, <2>2
<1> HIDE DEF ahp
<1> DEFINE y == ahp \o k
<1>14. y \in Seq(Byte) /\ Len(y) = 3 + N16 + Len(payload)
  <2>1. ahp \in Seq(Byte) /\ k \in Seq(Byte)
    BY <1>4, <1>9
  <2>2. y \in Seq(Byte) /\ Len(y) = Len(ahp) + Len(k)
    BY <2>1, Parts
  <2> QED BY <1>1, <1>4, <1>9, <2>2
<1>15. \A i \in 1..(2 + N16 + Len(payload)) : y[i] = ahp[i]
  BY <1>1, <1>9, <1>4
<1>16. y[3 + N16 + Len(payload)] = sum
  <2>1. ahp \in Seq(Byte) /\ k \in Seq(Byte) /\ 1 \in 1..Len(k)
    BY <1>4, <1>9
  <2>2. y[Len(ahp) + 1] = k[1]
    BY <2>1, Parts
  <2>3. Len(ahp) + 1 = 3 + N16 + Len(payload)
    BY <1>1, <1>9
  <2> QED BY <1>4, <2>3, <2>2
<1>17. SubSeq(y, 3, 2 + N16) = h
  BY <1>1, <1>4, <1>9, <1>12
<1>18. SubSeq(y, 3 + N16, 2 + N16 + Len(payload)) = payload
  BY <1>1, <1>4, <1>9, <1>13
<1>19. y = z
  BY DEF ahp, ah
<1> HIDE DEF y, z
<1>20. \A i \in 1..Len(payload) : y[2 + N16 + i] = payload[i]
  BY <1>1, <1>11, <1>15
<1>21. \A i \in 1..N16 : y[2 + i] = h[i]
  BY <1>1, <1>7, <1>10, <1>15
<1>22. y[1] = start /\ y[2] = cmd
  BY <1>1, <1>6, <1>10, <1>15
<1> QED BY <1>5, <1>14, <1>16, <1>17, <1>18, <1>19, <1>20, <1>21, <1>22 DEF OVERHEAD, h, Places

\* What decode makes of it.
LEMMA LaidDecodes ==
  ASSUME NEW start \in Byte, NEW cmd \in Byte, NEW payload \in Seq(Byte), NEW sum \in Byte,
         NativeFits(payload)
  PROVE  LET z == Laid(start, cmd, payload, sum) IN
         NativeDecode(z) = IF start # START \/ sum # Checksum(cmd, Len(payload), payload)
                              \/ cmd \notin NativeCodes
                           THEN Bad ELSE Found(cmd, payload, Len(z))
<1>1. N16 \in Nat \ {0} /\ Len(payload) \in Nat
  BY ByteAssumption
<1>2. PICK len \in 0..(Power[N16] - 1) : len = Len(payload)
  <2>1. Len(payload) < Power[N16]
    BY DEF NativeFits
  <2>2. PICK p \in Nat : p = Power[N16]
    BY <1>1, PowerSteps
  <2> QED BY <1>1, <2>1, <2>2
<1>3. PICK h : h = Le(Len(payload), N16) /\ FromLe(h) = len
  BY <1>1, <1>2, FieldBytes
<1> DEFINE z == Laid(start, cmd, payload, sum)
<1>4. Places(z, start, cmd, payload, sum)
  BY LaidFacts
<1> HIDE DEF z
<1>5. /\ z \in Seq(Byte) /\ Len(z) = OVERHEAD + Len(payload)
       /\ z[1] = start /\ z[2] = cmd /\ z[OVERHEAD + Len(payload)] = sum
       /\ SubSeq(z, 3, 2 + N16) = Le(Len(payload), N16)
       /\ SubSeq(z, 3 + N16, 2 + N16 + Len(payload)) = payload
  BY <1>4 DEF Places
<1>6. /\ z \in Seq(Byte) /\ Len(z) = OVERHEAD + len
      /\ z[1] = start /\ z[2] = cmd /\ z[OVERHEAD + len] = sum
      /\ SubSeq(z, 3, 2 + N16) = h
      /\ SubSeq(z, 3 + N16, 2 + N16 + len) = payload
  BY <1>2, <1>3, <1>5
<1>7. len \in Nat /\ OVERHEAD \in Nat
  BY <1>1, <1>2 DEF OVERHEAD
<1>8. ~(Len(z) < OVERHEAD) /\ ~(Len(z) < OVERHEAD + len)
  BY <1>6, <1>7
<1>9. FromLe(SubSeq(z, 3, 2 + N16)) = len
  BY <1>3, <1>6
<1>10. NativeDecode(z) = IF start # START \/ sum # Checksum(cmd, len, payload) \/ cmd \notin NativeCodes
                        THEN Bad ELSE Found(cmd, payload, Len(z))
  BY <1>6, <1>8, <1>9, Zenon DEF NativeDecode
<1> QED BY <1>2, <1>10 DEF z

\* An encoded frame is one laid out with its checksum.
LEMMA NativeIsLaid ==
  ASSUME NEW cmd \in NativeCodes, NEW payload \in Seq(Byte)
  PROVE  /\ cmd \in Byte /\ START \in Byte /\ Checksum(cmd, Len(payload), payload) \in Byte
         /\ NativeEncode(cmd, payload)
              = Laid(START, cmd, payload, Checksum(cmd, Len(payload), payload))
<1>1. cmd \in Byte /\ START \in Byte /\ Len(payload) \in Nat
  BY ByteAssumption DEF Byte
<1>2. Checksum(cmd, Len(payload), payload) \in Byte
  BY <1>1, ChecksumOfCommand
<1> QED BY <1>1, <1>2 DEF NativeEncode, Laid

\* Hd2020Frame::decode finds what encode wrote, and all of it.
THEOREM NativeRoundTrip ==
  ASSUME NEW cmd \in NativeCodes, NEW payload \in Seq(Byte), NativeFits(payload)
  PROVE  LET bytes == NativeEncode(cmd, payload) IN
         /\ bytes \in Seq(Byte) /\ Len(bytes) = OVERHEAD + Len(payload)
         /\ NativeDecode(bytes) = Found(cmd, payload, Len(bytes))
<1>1. PICK sum \in Byte : /\ sum = Checksum(cmd, Len(payload), payload)
                          /\ NativeEncode(cmd, payload) = Laid(START, cmd, payload, sum)
  BY NativeIsLaid
<1>2. cmd \in Byte /\ START \in Byte
  BY NativeIsLaid
<1> DEFINE z == Laid(START, cmd, payload, sum)
<1>3. z \in Seq(Byte) /\ Len(z) = OVERHEAD + Len(payload)
  BY <1>2, LaidFacts DEF Places
<1>4. NativeDecode(z) = Found(cmd, payload, Len(z))
  BY <1>1, <1>2, LaidDecodes
<1> QED BY <1>1, <1>3, <1>4

\* A frame of which one byte was changed, not one of its length, is refused.
THEOREM DamageIsNoticed ==
  ASSUME NEW cmd \in NativeCodes, NEW payload \in Seq(Byte), NativeFits(payload),
         NEW at \in 1..Len(NativeEncode(cmd, payload)), at \notin 3..(2 + N16),
         NEW change \in 1..(B - 1)
  PROVE  LET damaged == [NativeEncode(cmd, payload) EXCEPT ![at] = (@ + change) % B] IN
         damaged \in Seq(Byte) /\ NativeDecode(damaged) = Bad
<1>1. N16 \in Nat \ {0} /\ Len(payload) \in Nat
  BY ByteAssumption
<1>2. PICK sum \in Byte : /\ sum = Checksum(cmd, Len(payload), payload)
                          /\ NativeEncode(cmd, payload) = Laid(START, cmd, payload, sum)
  BY NativeIsLaid
<1>3. cmd \in Byte /\ START \in Byte
  BY NativeIsLaid
<1>4. PICK h : h = Le(Len(payload), N16)
  OBVIOUS
<1> DEFINE z == Laid(START, cmd, payload, sum)
<1> DEFINE damaged == [z EXCEPT ![at] = (z[at] + change) % B]
<1> DEFINE last == OVERHEAD + Len(payload)
<1>5. /\ z \in Seq(Byte) /\ Len(z) = last
      /\ z[1] = START /\ z[2] = cmd /\ z[last] = sum
      /\ \A i \in 1..N16 : z[2 + i] = h[i]
      /\ \A i \in 1..Len(payload) : z[2 + N16 + i] = payload[i]
  <2>1. Places(z, START, cmd, payload, sum)
    BY <1>3, LaidFacts
  <2> HIDE DEF z
  <2>2. /\ z \in Seq(Byte) /\ Len(z) = last
        /\ z[1] = START /\ z[2] = cmd /\ z[last] = sum
        /\ \A i \in 1..N16 : z[2 + i] = Le(Len(payload), N16)[i]
        /\ \A i \in 1..Len(payload) : z[2 + N16 + i] = payload[i]
    BY <2>1 DEF Places
  <2> HIDE DEF last
  <2> QED BY <1>4, <2>2
<1>6. at \in 1..last /\ last = 3 + N16 + Len(payload)
  BY <1>1, <1>2, <1>5 DEF OVERHEAD
<1>7. z[at] \in Byte /\ (z[at] + change) % B \in Byte /\ (z[at] + change) % B # z[at]
  <2>1. z[at] \in Byte
    BY <1>5, <1>6
  <2> HIDE DEF z
  <2> QED BY <2>1, Changed
<1>8. PICK new \in Byte : new = (z[at] + change) % B /\ new # z[at]
  BY <1>7
<1>9. [NativeEncode(cmd, payload) EXCEPT ![at] = (@ + change) % B] = damaged
  BY <1>2
<1>10. /\ damaged \in Seq(Byte) /\ Len(damaged) = last /\ damaged[at] = new
      /\ \A i \in (1..last) \ {at} : damaged[i] = z[i]
  <2>1. damaged = [z EXCEPT ![at] = new]
    BY <1>8
  <2> HIDE DEF damaged, z
  <2>2. Len(z) = last /\ last \in Nat
    BY <1>1, <1>5, <1>6
  <2> HIDE DEF last
  <2> QED BY <1>5, <1>6, <2>1, <2>2
<1> HIDE DEF damaged
\* The bytes are those of another layout.
<1>11. ASSUME NEW a \in Byte, NEW b \in Byte, NEW p \in Seq(Byte), NEW c \in Byte,
              Len(p) = Len(payload),
              damaged[1] = a, damaged[2] = b, damaged[last] = c,
              \A i \in 1..Len(payload) : damaged[2 + N16 + i] = p[i]
       PROVE  damaged = Laid(a, b, p, c)
  <2> DEFINE y == Laid(a, b, p, c)
  <2>1. Places(y, a, b, p, c)
    BY LaidFacts
  <2> HIDE DEF y, z
  <2>2. /\ y \in Seq(Byte) /\ Len(y) = OVERHEAD + Len(p)
        /\ y[1] = a /\ y[2] = b /\ y[OVERHEAD + Len(p)] = c
        /\ \A i \in 1..N16 : y[2 + i] = Le(Len(p), N16)[i]
        /\ \A i \in 1..Len(p) : y[2 + N16 + i] = p[i]
    BY <2>1 DEF Places
  <2>3. /\ y \in Seq(Byte) /\ Len(y) = last
        /\ y[1] = a /\ y[2] = b /\ y[last] = c
        /\ \A i \in 1..N16 : y[2 + i] = h[i]
        /\ \A i \in 1..Len(payload) : y[2 + N16 + i] = p[i]
    BY <1>4, <1>11, <2>2
  <2> HIDE DEF last
  <2>4. ASSUME NEW i \in 1..last PROVE damaged[i] = y[i]
    <3>1. CASE i = 1 \/ i = 2 \/ i = last
      BY <3>1, <2>3, <1>11
    <3>2. CASE i \in 3..(2 + N16)
      <4>1. PICK k \in 1..N16 : i = 2 + k
        <5>1. i - 2 \in 1..N16 /\ i = 2 + (i - 2)
          BY <1>1, <3>2
        <5> QED BY <5>1
      <4>2. damaged[i] = z[i]
        BY <1>10, <3>2
      <4> QED BY <1>5, <2>3, <4>1, <4>2
    <3>3. CASE i \in (3 + N16)..(2 + N16 + Len(payload))
      <4>1. PICK k \in 1..Len(payload) : i = 2 + N16 + k
        <5>1. i - 2 - N16 \in 1..Len(payload) /\ i = 2 + N16 + (i - 2 - N16)
          BY <1>1, <3>3
        <5> QED BY <5>1
      <4> QED BY <2>3, <1>11, <4>1
    <3>4. i \in 3..(2 + N16) \cup (3 + N16)..(2 + N16 + Len(payload)) \cup {1, 2, last}
      <4> DEFINE l == Len(payload)
      <4>1. l \in Nat /\ last = 3 + N16 + l /\ N16 \in Nat
        BY <1>1, <1>6
      <4> HIDE DEF l
      <4> QED BY <4>1 DEF l
    <3> QED BY <3>1, <3>2, <3>3, <3>4
  <2>5. Len(damaged) = Len(y)
    BY <1>10, <2>3
  <2>6. damaged = y
    BY <1>10, <2>3, <2>4, <2>5
  <2> QED BY <2>6 DEF y
<1> HIDE DEF z
<1>12. CASE at = 1
  <2>1. /\ damaged[1] = new /\ damaged[2] = cmd /\ damaged[last] = sum
        /\ \A i \in 1..Len(payload) : damaged[2 + N16 + i] = payload[i]
    BY <1>1, <1>5, <1>6, <1>10, <1>12
  <2>2. damaged = Laid(new, cmd, payload, sum)
    BY <1>3, <1>11, <2>1
  <2>3. new # START
    BY <1>5, <1>8, <1>12
  <2>4. NativeDecode(Laid(new, cmd, payload, sum)) = Bad
    BY <1>3, <2>3, LaidDecodes
  <2> QED BY <1>9, <1>10, <2>2, <2>4
<1>13. CASE at = 2
  <2>1. /\ damaged[1] = START /\ damaged[2] = new /\ damaged[last] = sum
        /\ \A i \in 1..Len(payload) : damaged[2 + N16 + i] = payload[i]
    BY <1>1, <1>5, <1>6, <1>10, <1>13
  <2>2. damaged = Laid(START, new, payload, sum)
    BY <1>3, <1>11, <2>1
  <2>3. new # cmd
    BY <1>5, <1>8, <1>13
  <2>4. sum # Checksum(new, Len(payload), payload)
    BY <1>1, <1>2, <1>3, <2>3, ChecksumOfCommand
  <2>5. NativeDecode(Laid(START, new, payload, sum)) = Bad
    BY <1>3, <2>4, LaidDecodes
  <2> QED BY <1>9, <1>10, <2>2, <2>5
<1>14. CASE at = last
  <2>1. /\ damaged[1] = START /\ damaged[2] = cmd /\ damaged[last] = new
        /\ \A i \in 1..Len(payload) : damaged[2 + N16 + i] = payload[i]
    BY <1>1, <1>5, <1>6, <1>10, <1>14
  <2>2. damaged = Laid(START, cmd, payload, new)
    BY <1>3, <1>11, <2>1
  <2>3. new # sum
    BY <1>5, <1>8, <1>14
  <2>4. NativeDecode(Laid(START, cmd, payload, new)) = Bad
    <3>1. new # Checksum(cmd, Len(payload), payload)
      BY <1>2, <2>3
    <3> QED BY <1>3, <3>1, LaidDecodes
  <2> QED BY <1>9, <1>10, <2>2, <2>4
<1>15. CASE at \in (3 + N16)..(2 + N16 + Len(payload))
  <2>1. PICK k \in 1..Len(payload) : at = 2 + N16 + k
    <3>1. at - 2 - N16 \in 1..Len(payload) /\ at = 2 + N16 + (at - 2 - N16)
      BY <1>1, <1>15
    <3> QED BY <3>1
  <2>2. PICK p \in Seq(Byte) : p = [payload EXCEPT ![k] = new] /\ OneOff(payload, p, k)
    <3> DEFINE p == [payload EXCEPT ![k] = new]
    <3>1. p \in Seq(Byte) /\ Len(p) = Len(payload) /\ p[k] = new
          /\ \A i \in (1..Len(payload)) \ {k} : p[i] = payload[i]
      OBVIOUS
    <3>2. payload[k] # new
      BY <1>5, <1>8, <2>1
    <3> HIDE DEF p
    <3>3. OneOff(payload, p, k)
      BY <3>1, <3>2 DEF OneOff
    <3> QED BY <3>1, <3>3 DEF p
  <2>3. Len(p) = Len(payload) /\ p[k] = new /\ \A i \in (1..Len(payload)) \ {k} : p[i] = payload[i]
    BY <2>2
  <2>4. ASSUME NEW i \in 1..Len(payload) PROVE damaged[2 + N16 + i] = p[i]
    <3>1. CASE i = k
      BY <1>10, <2>1, <2>3, <3>1
    <3>2. CASE i # k
      <4>1. PICK j \in 1..last : j = 2 + N16 + i /\ j # at
        BY <1>1, <1>6, <2>1, <3>2
      <4>2. damaged[j] = z[j] /\ z[j] = payload[i]
        BY <1>5, <1>10, <4>1
      <4> QED BY <2>3, <3>2, <4>1, <4>2
    <3> QED BY <3>1, <3>2
  <2>5. damaged[1] = START /\ damaged[2] = cmd /\ damaged[last] = sum
    BY <1>1, <1>5, <1>6, <1>10, <1>15
  <2>6. damaged = Laid(START, cmd, p, sum)
    BY <1>3, <1>11, <2>3, <2>4, <2>5
  <2>7. sum # Checksum(cmd, Len(p), p)
    BY <1>1, <1>2, <1>3, <2>2, <2>3, ChecksumOfPayload
  <2>8. NativeFits(p)
    BY <2>3 DEF NativeFits
  <2>9. NativeDecode(Laid(START, cmd, p, sum)) = Bad
    BY <1>3, <2>7, <2>8, LaidDecodes
  <2> QED BY <1>9, <1>10, <2>6, <2>9
<1> QED BY <1>1, <1>6, <1>12, <1>13, <1>14, <1>15

\* More bytes behind a frame, or behind an error, change nothing.
THEOREM NativeExtends ==
  ASSUME NEW buffer \in Seq(Byte), NEW more \in Seq(Byte), NativeDecode(buffer).verdict # "more"
  PROVE  NativeDecode(buffer \o more) = NativeDecode(buffer)
<1>1. N16 \in Nat \ {0} /\ OVERHEAD = 3 + N16
  BY ByteAssumption DEF OVERHEAD
<1> DEFINE all == buffer \o more
<1>2. all \in Seq(Byte) /\ Len(all) = Len(buffer) + Len(more) /\ Len(buffer) \in Nat /\ Len(more) \in Nat
  OBVIOUS
<1>3. \A m \in Nat \ {0}, n \in Nat : n <= Len(buffer) => SubSeq(all, m, n) = SubSeq(buffer, m, n)
  OBVIOUS
<1>4. \A i \in 1..Len(buffer) : all[i] = buffer[i]
  OBVIOUS
<1> HIDE DEF all
<1>5. ~(Len(buffer) < OVERHEAD) /\ ~(Len(all) < OVERHEAD)
  <2>1. CASE Len(buffer) < OVERHEAD
    BY <2>1 DEF NativeDecode, More
  <2>2. CASE ~(Len(buffer) < OVERHEAD)
    BY <1>1, <1>2, <2>2
  <2> QED BY <2>1, <2>2
<1>6. 2 + N16 \in Nat /\ 2 + N16 <= Len(buffer) /\ 3 \in Nat \ {0} /\ 1 \in 1..Len(buffer) /\ 2 \in 1..Len(buffer)
  BY <1>1, <1>2, <1>5
<1>7. SubSeq(all, 3, 2 + N16) = SubSeq(buffer, 3, 2 + N16) /\ all[1] = buffer[1] /\ all[2] = buffer[2]
  BY <1>3, <1>4, <1>6
<1>8. PICK len \in Nat : len = FromLe(SubSeq(buffer, 3, 2 + N16))
  <2>1. SubSeq(buffer, 3, 2 + N16) \in Seq(Byte)
    BY <1>6
  <2> QED BY <2>1, NumberOfBytes
<1>9. CASE buffer[1] # START
  BY <1>5, <1>7, <1>9 DEF NativeDecode, all
<1>10. CASE buffer[1] = START
  <2>1. ~(Len(buffer) < OVERHEAD + len)
    BY <1>5, <1>8, <1>10 DEF NativeDecode, More
  <2>2. /\ ~(Len(all) < OVERHEAD + len) /\ OVERHEAD + len \in 1..Len(buffer)
        /\ 2 + N16 + len \in Nat /\ 2 + N16 + len <= Len(buffer) /\ 3 + N16 \in Nat \ {0}
    BY <1>1, <1>2, <1>8, <2>1
  <2>3. all[OVERHEAD + len] = buffer[OVERHEAD + len]
    BY <1>4, <2>2
  <2>4. SubSeq(all, 3 + N16, 2 + N16 + len) = SubSeq(buffer, 3 + N16, 2 + N16 + len)
    BY <1>3, <2>2
  <2> QED BY <1>5, <1>7, <1>8, <1>10, <2>1, <2>2, <2>3, <2>4 DEF NativeDecode, all
<1> QED BY <1>9, <1>10

-----------------------------------------------------------------------------
(* File payloads.                                                          *)

\* part is what a sequence of sequences gives when they are put behind each other.
Joins(part, s) == /\ part \in [0..Len(s) -> Seq(Byte)] /\ part[0] = <<>>
                  /\ \A k \in 1..Len(s) : part[k] = part[k - 1] \o s[k]

\* Flattening joins.
LEMMA FlattenSteps ==
  ASSUME NEW s \in Seq(Seq(Byte))
  PROVE  \E part : Joins(part, s) /\ FlattenSeq(s) = part[Len(s)]
<1> DEFINE n == Len(s)
<1> DEFINE Rec(f) == f = [k \in 1..n |-> IF k = 1 THEN s[k] ELSE f[k - 1] \o s[k]]
<1> DEFINE step == [x \in (1..n) \X Seq(Byte) |-> x[2] \o s[x[1]]]
<1>1. n \in Nat /\ \A k \in 1..n : s[k] \in Seq(Byte)
  OBVIOUS
<1>2. step \in [(1..n) \X Seq(Byte) -> Seq(Byte)]
  <2>1. ASSUME NEW x \in (1..n) \X Seq(Byte) PROVE x[2] \o s[x[1]] \in Seq(Byte)
    <3>1. PICK a \in Seq(Byte), b \in Seq(Byte) : a = x[2] /\ b = s[x[1]]
      BY <1>1
    <3>2. a \o b \in Seq(Byte)
      OBVIOUS
    <3> QED BY <3>1, <3>2
  <2> QED BY <2>1
<1>3. <<>> \in Seq(Byte)
  OBVIOUS
<1>4. PICK part : Recursive(part, n, Seq(Byte), <<>>, step)
  <2> HIDE DEF step, n
  <2> QED BY <1>1, <1>2, <1>3, RecursionExists
<1>5. part \in [0..n -> Seq(Byte)] /\ part[0] = <<>>
  <2> HIDE DEF step, n
  <2> QED BY <1>4 DEF Recursive
<1>6. \A k \in 1..n : part[k] = part[k - 1] \o s[k]
  <2>1. ASSUME NEW k \in 1..n PROVE part[k] = part[k - 1] \o s[k]
    <3>1. part[k - 1] \in Seq(Byte)
      <4>1. k - 1 \in 0..n
        BY <1>1
      <4> QED BY <4>1, <1>5
    <3>2. step[<<k, part[k - 1]>>] = part[k - 1] \o s[k]
      BY <3>1
    <3> HIDE DEF step
    <3> QED BY <3>2, <1>4 DEF Recursive
  <2> QED BY <2>1
<1> HIDE DEF step
<1>7. Joins(part, s)
  BY <1>6, <1>5 DEF Joins
<1>8. CASE n = 0
  <2>1. s = <<>> /\ FlattenSeq(s) = s
    BY <1>8 DEF FlattenSeq
  <2> QED BY <1>5, <1>7, <1>8, <2>1
<1>9. CASE n # 0
  <2>1. n \in 1..n /\ 1 \in 1..n
    BY <1>1, <1>9
  <2>2. FlattenSeq(s) = (CHOOSE f : Rec(f))[n]
    BY <1>9 DEF FlattenSeq
  <2>3. part[1] = s[1]
    <3>1. part[1] = part[1 - 1] \o s[1]
      BY <1>6, <2>1
    <3>2. \A a \in Seq(Byte) : <<>> \o a = a
      OBVIOUS
    <3> QED BY <1>1, <1>5, <2>1, <3>1, <3>2
  <2> DEFINE f == [k \in 1..n |-> part[k]]
  <2>4. Rec(f)
    <3>1. ASSUME NEW k \in 1..n PROVE f[k] = IF k = 1 THEN s[k] ELSE f[k - 1] \o s[k]
      <4>1. CASE k = 1
        BY <2>1, <2>3, <4>1
      <4>2. CASE k # 1
        <5>1. k - 1 \in 1..n
          BY <1>1, <4>2
        <5> QED BY <4>2, <5>1, <1>6
      <4> QED BY <4>1, <4>2
    <3> QED BY <3>1
  <2> HIDE DEF f
  <2>5. PICK g : Rec(g) /\ FlattenSeq(s) = g[n]
    <3> DEFINE g == CHOOSE h : Rec(h)
    <3>1. Rec(g)
      BY <2>4
    <3>2. FlattenSeq(s) = g[n]
      BY <2>2
    <3> HIDE DEF g
    <3> QED BY <3>1, <3>2
  <2> HIDE DEF n
  <2>6. \A k \in 1..n : g[k] = IF k = 1 THEN s[k] ELSE g[k - 1] \o s[k]
    BY <2>5
  <2> DEFINE S == {k \in Nat : k + 1 <= n => g[k + 1] = part[k + 1]}
  <2>7. 0 \in S
    BY <2>1, <2>3, <2>6
  <2>8. ASSUME NEW k \in Nat, k \in S PROVE k + 1 \in S
    <3> SUFFICES ASSUME k + 1 + 1 <= n PROVE g[k + 1 + 1] = part[k + 1 + 1]
      OBVIOUS
    <3>1. k + 1 + 1 \in 1..n /\ (k + 1 + 1) - 1 = k + 1 /\ k + 1 + 1 # 1
      BY <1>1
    <3>2. g[k + 1] = part[k + 1]
      BY <1>1, <2>8
    <3>3. g[k + 1 + 1] = g[k + 1] \o s[k + 1 + 1]
      BY <3>1, <2>6
    <3>4. part[k + 1 + 1] = part[k + 1] \o s[k + 1 + 1]
      BY <3>1, <1>6
    <3> QED BY <3>2, <3>3, <3>4
  <2> HIDE DEF S
  <2>9. PICK m \in Nat : n = m + 1
    <3>1. n - 1 \in Nat /\ n = (n - 1) + 1
      BY <1>1, <1>9
    <3> QED BY <3>1
  <2>10. m \in S
    BY <2>7, <2>8, Induction
  <2>11. g[n] = part[n]
    BY <2>9, <2>10 DEF S
  <2> QED BY <1>7, <2>5, <2>11 DEF n
<1> QED BY <1>8, <1>9

\* What has been joined stays where it is.
LEMMA JoinsKeep ==
  ASSUME NEW s \in Seq(Seq(Byte)), NEW part, Joins(part, s), NEW k \in 0..Len(s)
  PROVE  /\ part[Len(s)] \in Seq(Byte) /\ part[k] \in Seq(Byte)
         /\ Len(part[k]) <= Len(part[Len(s)])
         /\ \A i \in 1..Len(part[k]) : part[Len(s)][i] = part[k][i]
<1> DEFINE n == Len(s)
<1>1. n \in Nat /\ k \in Nat /\ k <= n /\ \A m \in 0..n : part[m] \in Seq(Byte)
  <2>1. n \in Nat /\ k \in Nat /\ k <= n
    OBVIOUS
  <2>2. \A m \in 0..n : part[m] \in Seq(Byte)
    BY DEF Joins
  <2> QED BY <2>1, <2>2
<1>2. \A m \in 1..n : part[m] = part[m - 1] \o s[m] /\ s[m] \in Seq(Byte)
  <2>1. \A m \in 1..n : part[m] = part[m - 1] \o s[m]
    BY DEF Joins
  <2>2. \A m \in 1..n : s[m] \in Seq(Byte)
    OBVIOUS
  <2> QED BY <2>1, <2>2
<1> HIDE DEF n
<1> DEFINE S == {m \in Nat : k <= m /\ m <= n =>
                    /\ Len(part[k]) <= Len(part[m])
                    /\ \A i \in 1..Len(part[k]) : part[m][i] = part[k][i]}
<1>3. 0 \in S
  <2>1. k <= 0 => k = 0
    BY <1>1
  <2>2. part[0] \in Seq(Byte) /\ Len(part[0]) \in Nat
    BY <1>1
  <2> QED BY <2>1, <2>2
<1>4. ASSUME NEW m \in Nat, m \in S PROVE m + 1 \in S
  <2> SUFFICES ASSUME k <= m + 1, m + 1 <= n
               PROVE  /\ Len(part[k]) <= Len(part[m + 1])
                      /\ \A i \in 1..Len(part[k]) : part[m + 1][i] = part[k][i]
    OBVIOUS
  <2>1. CASE k = m + 1
    <3>1. part[k] \in Seq(Byte) /\ Len(part[k]) \in Nat
      BY <1>1
    <3> QED BY <2>1, <3>1
  <2>2. CASE k # m + 1
    <3>1. k <= m /\ m <= n /\ m + 1 \in 1..n /\ (m + 1) - 1 = m /\ m \in 0..n /\ k \in 0..n
      BY <1>1, <2>2
    <3>2. PICK a \in Seq(Byte), b \in Seq(Byte), c \in Seq(Byte) :
             a = part[m] /\ b = s[m + 1] /\ c = part[k] /\ part[m + 1] = a \o b
      BY <1>1, <1>2, <3>1
    <3>3. Len(c) <= Len(a) /\ \A i \in 1..Len(c) : a[i] = c[i]
      BY <1>4, <3>1, <3>2
    <3>4. Len(c) \in Nat /\ Len(a) \in Nat /\ Len(b) \in Nat
      OBVIOUS
    <3>5. Len(a \o b) = Len(a) + Len(b) /\ \A i \in 1..Len(a) : (a \o b)[i] = a[i]
      OBVIOUS
    <3>6. Len(c) <= Len(a \o b)
      BY <3>3, <3>4, <3>5
    <3>7. \A i \in 1..Len(c) : (a \o b)[i] = c[i]
      BY <3>3, <3>4, <3>5
    <3> QED BY <3>2, <3>6, <3>7
  <2> QED BY <2>1, <2>2
<1> HIDE DEF S
<1>5. n \in S
  BY <1>1, <1>3, <1>4, Induction
<1>6. /\ Len(part[k]) <= Len(part[n])
      /\ \A i \in 1..Len(part[k]) : part[n][i] = part[k][i]
  BY <1>1, <1>5 DEF S
<1>7. part[n] \in Seq(Byte) /\ part[k] \in Seq(Byte)
  BY <1>1
<1> QED BY <1>6, <1>7 DEF n

\* The kinds of fields there are.
Kinds == {"u16", "u64", "md5", "string", "bytes"}

\* A value that the encoder takes.
Sendable(kind, value) == FieldValue(kind, value) /\ Fits(kind, value)

\* A field of fixed size is its bytes ...
LEMMA FixedField ==
  ASSUME NEW kind \in Kinds, ~Varying(kind), NEW value, Sendable(kind, value)
  PROVE  /\ Put(kind, value) \in Seq(Byte) /\ Len(Put(kind, value)) = Width(kind)
         /\ value = IF kind = "md5" THEN Put(kind, value) ELSE FromLe(Put(kind, value))
<1>1. CASE kind = "md5"
  <2>1. value \in Seq(Byte) /\ Len(value) = NMd5
    BY <1>1 DEF Sendable, FieldValue
  <2>2. Put(kind, value) = value /\ Width(kind) = NMd5
    BY <1>1 DEF Put, Varying, Width
  <2> QED BY <1>1, <2>1, <2>2
<1>2. CASE kind \in {"u16", "u64"}
  <2>1. PICK w \in Nat : w = Width(kind)
    BY <1>2, ByteAssumption DEF Width
  <2>2. value \in 0..(Power[w] - 1)
    BY <1>2, <2>1 DEF Sendable, FieldValue
  <2>3. Put(kind, value) = Le(value, w)
    BY <1>2, <2>1 DEF Put, Varying
  <2> QED BY <1>2, <2>1, <2>2, <2>3, FieldBytes
<1> QED BY <1>1, <1>2 DEF Kinds, Varying

\* ... and one that varies has its length in front.
LEMMA VaryingField ==
  ASSUME NEW kind \in Kinds, Varying(kind), NEW value, Sendable(kind, value)
  PROVE  /\ value \in Seq(Byte) /\ (kind = "string" => ToSet(value) \cap NotUtf8 = {})
         /\ \E h \in Seq(Byte) : /\ Put(kind, value) = h \o value
                                 /\ Len(h) = Width(kind) /\ FromLe(h) = Len(value)
<1>1. value \in Seq(Byte) /\ (kind = "string" => ToSet(value) \cap NotUtf8 = {})
  BY DEF Sendable, FieldValue, Varying
<1>2. PICK w \in Nat : w = Width(kind)
  BY ByteAssumption DEF Width, Varying
<1>3. Len(value) \in 0..(Power[w] - 1)
  <2>1. Len(value) < Power[w]
    BY <1>2 DEF Sendable, Fits
  <2>2. PICK p \in Nat : p = Power[w]
    BY PowerSteps
  <2>3. Len(value) \in Nat
    BY <1>1
  <2> QED BY <2>1, <2>2, <2>3
<1>4. Put(kind, value) = Le(Len(value), w) \o value
  BY <1>2 DEF Put, Varying
<1>5. Le(Len(value), w) \in Seq(Byte) /\ Len(Le(Len(value), w)) = w /\ FromLe(Le(Len(value), w)) = Len(value)
  BY <1>3, FieldBytes
<1> QED BY <1>1, <1>2, <1>4, <1>5

\* A field has the bytes of its width at least.
LEMMA PutBytes ==
  ASSUME NEW kind \in Kinds, NEW value, Sendable(kind, value)
  PROVE  /\ Put(kind, value) \in Seq(Byte) /\ Width(kind) \in Nat \ {0}
         /\ Width(kind) <= Len(Put(kind, value))
<1>1. Width(kind) \in Nat \ {0}
  BY ByteAssumption DEF Width
<1>2. CASE Varying(kind)
  <2>1. PICK h \in Seq(Byte), v \in Seq(Byte) :
           v = value /\ Put(kind, value) = h \o v /\ Len(h) = Width(kind)
    BY <1>2, VaryingField
  <2>2. h \o v \in Seq(Byte) /\ Len(h \o v) = Len(h) + Len(v) /\ Len(h) \in Nat /\ Len(v) \in Nat
    OBVIOUS
  <2> QED BY <1>1, <2>1, <2>2
<1>3. CASE ~Varying(kind)
  BY <1>1, <1>3, FixedField
<1> QED BY <1>2, <1>3

\* A reader takes a field that is there ...
LEMMA FieldIsRead ==
  ASSUME NEW kind \in Kinds, NEW value, Sendable(kind, value),
         NEW r, r.ok, NEW rest \in Seq(Byte), r.rest = Put(kind, value) \o rest
  PROVE  Field(r, kind) = [ok |-> TRUE, rest |-> rest, body |-> Append(r.body, value)]
<1>1. PICK w \in Nat \ {0} : w = Width(kind)
  BY PutBytes
<1>2. CASE ~Varying(kind)
  <2>1. PICK p \in Seq(Byte) : p = Put(kind, value) /\ Len(p) = w
                               /\ value = IF kind = "md5" THEN p ELSE FromLe(p)
    BY <1>1, <1>2, FixedField
  <2>2. r.rest = p \o rest
    BY <2>1
  <2>3. Len(p \o rest) = w + Len(rest) /\ SubSeq(p \o rest, 1, w) = p
        /\ SubSeq(p \o rest, w + 1, Len(p \o rest)) = rest /\ ~(Len(p \o rest) < w)
    <3>1. Len(p \o rest) = w + Len(rest) /\ Len(rest) \in Nat
      <4>1. Len(p \o rest) = Len(p) + Len(rest)
        BY Parts
      <4>2. Len(rest) \in Nat
        OBVIOUS
      <4> QED BY <2>1, <4>1, <4>2
    <3>2. SubSeq(p \o rest, 1, Len(p)) = p /\ SubSeq(p \o rest, Len(p) + 1, Len(p) + Len(rest)) = rest
      BY Parts
    <3>3. ~(w + Len(rest) < w)
      BY <3>1
    <3> QED BY <2>1, <3>1, <3>2, <3>3
  <2>4. Field(r, kind) = Taken(r, w, value)
    BY <1>1, <1>2, <2>1, <2>2, <2>3 DEF Field, Varying
  <2>5. Taken(r, w, value) = [ok |-> TRUE, rest |-> rest, body |-> Append(r.body, value)]
    BY <2>2, <2>3 DEF Taken
  <2> QED BY <2>4, <2>5
<1>3. CASE Varying(kind)
  <2>1. PICK h \in Seq(Byte), v \in Seq(Byte) :
           /\ v = value /\ Put(kind, value) = h \o v /\ Len(h) = w /\ FromLe(h) = Len(v)
           /\ (kind = "string" => ToSet(v) \cap NotUtf8 = {})
    BY <1>1, <1>3, VaryingField
  <2> DEFINE all == w + Len(v)
  <2>2. r.rest = (h \o v) \o rest
    BY <2>1
  <2> DEFINE z == (h \o v) \o rest
  <2> DEFINE y == h \o v
  <2>3. y \in Seq(Byte) /\ Len(y) = all /\ Len(v) \in Nat
    <3>1. Len(h \o v) = Len(h) + Len(v) /\ h \o v \in Seq(Byte) /\ Len(v) \in Nat
      OBVIOUS
    <3> QED BY <2>1, <3>1
  <2> HIDE DEF y
  <2>4. z = y \o rest
    BY DEF y
  <2>5. Len(z) = all + Len(rest) /\ Len(rest) \in Nat
    <3>1. Len(y \o rest) = Len(y) + Len(rest) /\ Len(rest) \in Nat
      <4>1. Len(y \o rest) = Len(y) + Len(rest)
        BY <2>3, Parts
      <4>2. Len(rest) \in Nat
        OBVIOUS
      <4> QED BY <4>1, <4>2
    <3> QED BY <2>3, <2>4, <3>1
  <2>6. SubSeq(z, 1, w) = h
    BY <2>1
  <2>7. SubSeq(z, w + 1, all) = v
    <3>1. SubSeq(z, Len(h) + 1, Len(h) + Len(v)) = v
      BY Middle
    <3> QED BY <2>1, <3>1
  <2>8. SubSeq(z, all + 1, Len(z)) = rest
    <3>1. SubSeq(y \o rest, Len(y) + 1, Len(y) + Len(rest)) = rest
      BY <2>3, Parts
    <3> QED BY <2>5, <2>3, <2>4, <3>1
  <2> HIDE DEF z
  <2>9. ~(Len(z) < w) /\ ~(Len(z) < all)
    <3>1. \A a, b, c \in Nat : ~(a + b + c < a) /\ ~(a + b + c < a + b)
      OBVIOUS
    <3> QED BY <1>1, <2>5, <2>3, <3>1
  <2>10. Field(r, kind) = Taken(r, all, value)
    <3>1. r.rest = z
      BY <2>2 DEF z
    <3> QED BY <1>1, <1>3, <2>1, <2>6, <2>7, <2>9, <3>1 DEF Field, Varying
  <2>11. Taken(r, all, value) = [ok |-> TRUE, rest |-> rest, body |-> Append(r.body, value)]
    BY <2>2, <2>8 DEF Taken, z
  <2> QED BY <2>10, <2>11
<1> QED BY <1>2, <1>3

\* ... and fails if the payload ends in the middle of it.
LEMMA FieldIsCut ==
  ASSUME NEW kind \in Kinds, NEW value, Sendable(kind, value),
         NEW r, r.ok, r.rest \in Seq(Byte), Len(r.rest) < Len(Put(kind, value)),
         \A i \in 1..Len(r.rest) : r.rest[i] = Put(kind, value)[i]
  PROVE  Field(r, kind) = Fault
<1>1. PICK w \in Nat \ {0} : w = Width(kind)
  BY PutBytes
<1>2. PICK z \in Seq(Byte) : z = r.rest
  OBVIOUS
<1>3. CASE Len(z) < w
  BY <1>1, <1>2, <1>3 DEF Field
<1>4. CASE ~(Len(z) < w)
  <2>1. Varying(kind)
    <3> SUFFICES ASSUME ~Varying(kind) PROVE FALSE
      OBVIOUS
    <3>1. Len(z) < w
      BY <1>1, <1>2, FixedField
    <3> QED BY <3>1, <1>4
  <2>2. PICK h \in Seq(Byte), v \in Seq(Byte) :
           v = value /\ Put(kind, value) = h \o v /\ Len(h) = w /\ FromLe(h) = Len(v)
    <3>1. PICK v \in Seq(Byte) : v = value
      BY <2>1, VaryingField
    <3>2. \E h \in Seq(Byte) : Put(kind, value) = h \o value /\ Len(h) = Width(kind) /\ FromLe(h) = Len(value)
      BY <2>1, VaryingField
    <3> QED BY <1>1, <3>1, <3>2
  <2>3. w \in Nat /\ Len(v) \in Nat /\ Len(z) \in Nat /\ w <= Len(z)
    BY <1>4
  <2>4. Len(z) < w + Len(v)
    <3>1. Len(z) < Len(h \o v)
      BY <1>2, <2>2
    <3>2. Len(h \o v) = Len(h) + Len(v)
      OBVIOUS
    <3> QED BY <2>2, <3>1, <3>2
  <2>5. SubSeq(z, 1, w) = h
    <3>1. ASSUME NEW i \in 1..w PROVE z[i] = h[i]
      <4>1. i \in 1..Len(z) /\ i \in 1..Len(h)
        BY <2>2, <2>3
      <4>2. z[i] = (h \o v)[i]
        BY <1>2, <2>2, <4>1
      <4>3. (h \o v)[i] = h[i]
        BY <4>1
      <4> QED BY <4>2, <4>3
    <3>2. SubSeq(z, 1, w) \in Seq(Byte) /\ Len(SubSeq(z, 1, w)) = w
          /\ \A i \in 1..w : SubSeq(z, 1, w)[i] = z[i]
      BY <2>3
    <3> DEFINE y == SubSeq(z, 1, w)
    <3>3. y \in Seq(Byte) /\ Len(y) = w /\ \A i \in 1..w : y[i] = h[i]
      BY <3>1, <3>2
    <3> HIDE DEF y
    <3>4. y = h
      BY <2>2, <3>3
    <3> QED BY <3>4 DEF y
  <2> QED BY <1>1, <1>2, <1>4, <2>1, <2>2, <2>4, <2>5 DEF Field
<1> QED BY <1>3, <1>4

\* The fields of a payload are of the kinds there are.
LEMMA LayoutFacts ==
  ASSUME NEW cmd \in DOMAIN Layout
  PROVE  Layout[cmd] \in Seq(Kinds) /\ DOMAIN Layout[cmd] = 1..Len(Layout[cmd])
<1>1. Layout[cmd] \in Seq(Kinds)
  <2>1. /\ \A a, b, c, d \in Kinds : <<a, b, c, d>> \in Seq(Kinds)
        /\ \A a, b \in Kinds : <<a, b>> \in Seq(Kinds)
        /\ \A a \in Kinds : <<a>> \in Seq(Kinds)
    OBVIOUS
  <2>2. {"u16", "u64", "md5", "string", "bytes"} \subseteq Kinds
    BY DEF Kinds
  <2>3. /\ DOMAIN Layout = {"FileStartAsk", "FileStartReply", "FileContentAsk",
                            "FileContentReply", "FileEndAsk", "FileEndReply"}
        /\ Layout["FileStartAsk"] = <<"string", "string", "u64", "md5">>
        /\ Layout["FileStartReply"] = <<"u16", "u64">>
        /\ Layout["FileContentAsk"] = <<"u64", "bytes">>
        /\ Layout["FileContentReply"] = <<"u16", "u64">>
        /\ Layout["FileEndAsk"] = <<"md5">>
        /\ Layout["FileEndReply"] = <<"u16">>
    BY DEF Layout
  <2>4. <<"string", "string", "u64", "md5">> \in Seq(Kinds)
    BY <2>1, <2>2
  <2>5. <<"u16", "u64">> \in Seq(Kinds) /\ <<"u64", "bytes">> \in Seq(Kinds)
    BY <2>1, <2>2
  <2>6. <<"md5">> \in Seq(Kinds) /\ <<"u16">> \in Seq(Kinds)
    BY <2>1, <2>2
  <2> QED BY <2>3, <2>4, <2>5, <2>6, Zenon
<1> QED BY <1>1

\* What parse reads is what the reader holds after the last field.
LEMMA ParseSteps ==
  ASSUME NEW cmd \in DOMAIN Layout, NEW z, NEW read,
         read = [k \in 0..Len(Layout[cmd]) |-> read[k]],
         read[0] = Reader(z),
         \A k \in 1..Len(Layout[cmd]) : read[k] = Field(read[k - 1], Layout[cmd][k])
  PROVE  Parse(cmd, z) = read[Len(Layout[cmd])]
<1> DEFINE kinds == Layout[cmd]
<1> DEFINE n == Len(kinds)
<1> DEFINE Rec(f) == f = [k \in 0..n |-> IF k = 0 THEN Reader(z) ELSE Field(f[k - 1], kinds[k])]
<1>1. n \in Nat
  BY LayoutFacts
<1>2. Parse(cmd, z) = (CHOOSE f : Rec(f))[n]
  BY DEF Parse
<1>3. /\ read = [k \in 0..n |-> read[k]] /\ read[0] = Reader(z)
      /\ \A k \in 1..n : read[k] = Field(read[k - 1], kinds[k])
  OBVIOUS
<1> HIDE DEF n, kinds
<1>4. Rec(read)
  <2>1. ASSUME NEW k \in 0..n
        PROVE  read[k] = IF k = 0 THEN Reader(z) ELSE Field(read[k - 1], kinds[k])
    <3>1. k # 0 => k \in 1..n
      BY <1>1
    <3> QED BY <1>3, <3>1
  <2>2. [k \in 0..n |-> read[k]]
          = [k \in 0..n |-> IF k = 0 THEN Reader(z) ELSE Field(read[k - 1], kinds[k])]
    BY <2>1
  <2> QED BY <1>3, <2>2
<1>5. PICK g : Rec(g) /\ Parse(cmd, z) = g[n]
  <2> DEFINE g == CHOOSE h : Rec(h)
  <2>1. Rec(g)
    BY <1>4
  <2>2. Parse(cmd, z) = g[n]
    BY <1>2
  <2> HIDE DEF g
  <2> QED BY <2>1, <2>2
<1>6. \A k \in 0..n : g[k] = IF k = 0 THEN Reader(z) ELSE Field(g[k - 1], kinds[k])
  BY <1>5
<1> DEFINE S == {k \in Nat : k <= n => g[k] = read[k]}
<1>7. 0 \in S
  BY <1>1, <1>3, <1>6
<1>8. ASSUME NEW k \in Nat, k \in S PROVE k + 1 \in S
  <2> SUFFICES ASSUME k + 1 <= n PROVE g[k + 1] = read[k + 1]
    OBVIOUS
  <2>1. k + 1 \in 0..n /\ k + 1 \in 1..n /\ (k + 1) - 1 = k /\ k + 1 # 0
    BY <1>1
  <2>2. g[k] = read[k]
    BY <1>1, <1>8
  <2>3. g[k + 1] = Field(g[k], kinds[k + 1])
    BY <2>1, <1>6
  <2>4. read[k + 1] = Field(read[k], kinds[k + 1])
    BY <2>1, <1>3
  <2> QED BY <2>2, <2>3, <2>4
<1> HIDE DEF S
<1>9. n \in S
  BY <1>1, <1>7, <1>8, Induction
<1> QED BY <1>1, <1>5, <1>9 DEF S, n, kinds

\* A sequence from one place on, if it goes on with another.
LEMMA GoesOn ==
  ASSUME NEW z \in Seq(Byte), NEW s \in Seq(Byte), NEW a \in Nat, a + Len(s) <= Len(z),
         \A i \in 1..Len(s) : z[a + i] = s[i]
  PROVE  /\ SubSeq(z, a + Len(s) + 1, Len(z)) \in Seq(Byte)
         /\ SubSeq(z, a + 1, Len(z)) = s \o SubSeq(z, a + Len(s) + 1, Len(z))
<1>1. PICK l \in Nat, m \in Nat : l = Len(s) /\ m = Len(z) - a - Len(s) /\ Len(z) = a + l + m
  <2>1. Len(z) - a - Len(s) \in Nat /\ Len(z) = a + Len(s) + (Len(z) - a - Len(s)) /\ Len(s) \in Nat
    OBVIOUS
  <2> QED BY <2>1
<1> DEFINE x == SubSeq(z, a + 1, Len(z))
<1> DEFINE y == SubSeq(z, a + l + 1, Len(z))
<1>2. x \in Seq(Byte) /\ Len(x) = l + m /\ \A i \in 1..(l + m) : x[i] = z[a + i]
  BY <1>1
<1>3. y \in Seq(Byte) /\ Len(y) = m /\ \A i \in 1..m : y[i] = z[a + l + i]
  BY <1>1
<1> HIDE DEF x, y
<1>4. s \o y \in Seq(Byte) /\ Len(s \o y) = l + m
      /\ (\A i \in 1..l : (s \o y)[i] = s[i]) /\ (\A i \in 1..m : (s \o y)[l + i] = y[i])
  <2>1. /\ s \o y \in Seq(Byte) /\ Len(s \o y) = Len(s) + Len(y)
        /\ (\A i \in 1..Len(s) : (s \o y)[i] = s[i])
        /\ (\A i \in 1..Len(y) : (s \o y)[Len(s) + i] = y[i])
    BY <1>3, Parts
  <2> QED BY <1>1, <1>3, <2>1
<1> DEFINE t == s \o y
<1> HIDE DEF t
<1>5. ASSUME NEW i \in 1..(l + m) PROVE x[i] = t[i]
  <2>1. CASE i \in 1..l
    <3>1. x[i] = z[a + i]
      BY <1>2
    <3>2. z[a + i] = s[i]
      BY <1>1, <2>1
    <3>3. t[i] = s[i]
      BY <1>4, <2>1 DEF t
    <3> QED BY <3>1, <3>2, <3>3
  <2>2. CASE i \notin 1..l
    <3>1. PICK k \in 1..m : i = l + k
      <4>1. i - l \in 1..m /\ i = l + (i - l)
        BY <2>2
      <4> QED BY <4>1
    <3>2. a + i = a + l + k
      BY <3>1
    <3>3. x[i] = z[a + l + k]
      BY <1>2, <3>2
    <3>4. t[i] = y[k]
      BY <1>4, <3>1 DEF t
    <3> QED BY <1>3, <3>3, <3>4
  <2> QED BY <2>1, <2>2
<1>6. x = t
  <2>1. t \in Seq(Byte) /\ Len(t) = l + m
    BY <1>4 DEF t
  <2>2. Len(x) = Len(t) /\ \A i \in 1..Len(x) : x[i] = t[i]
    BY <1>2, <1>5, <2>1
  <2> QED BY <1>2, <2>1, <2>2
<1> QED BY <1>1, <1>3, <1>6 DEF x, y, t

\* What a reader makes of bytes that begin as a payload does.
LEMMA ReadsAlong ==
  ASSUME NEW cmd \in DOMAIN Layout, NEW body, BodyOf(cmd, body), Encodable(cmd, body),
         NEW z \in Seq(Byte)
  PROVE  /\ Payload(cmd, body) \in Seq(Byte)
         /\ (\A i \in 1..Len(z) : i <= Len(Payload(cmd, body)) => z[i] = Payload(cmd, body)[i])
            => Parse(cmd, z) = IF Len(Payload(cmd, body)) <= Len(z)
                               THEN [ok |-> TRUE, rest |-> SubSeq(z, Len(Payload(cmd, body)) + 1, Len(z)),
                                     body |-> body]
                               ELSE Fault
<1> DEFINE kinds == Layout[cmd]
<1> DEFINE n == Len(kinds)
<1> DEFINE s == [i \in 1..n |-> Put(kinds[i], body[i])]
<1>1. n \in Nat /\ \A i \in 1..n : kinds[i] \in Kinds
  BY LayoutFacts
<1>2. body = [i \in 1..n |-> body[i]] /\ \A i \in 1..n : Sendable(kinds[i], body[i])
  BY LayoutFacts DEF BodyOf, Encodable, Sendable
<1>3. \A i \in 1..n : /\ Put(kinds[i], body[i]) \in Seq(Byte)
                      /\ Width(kinds[i]) \in Nat \ {0} /\ Width(kinds[i]) <= Len(Put(kinds[i], body[i]))
  BY <1>1, <1>2, PutBytes
<1> HIDE DEF kinds, n
<1>4. s \in Seq(Seq(Byte)) /\ Len(s) = n /\ \A i \in 1..n : s[i] = Put(kinds[i], body[i])
  BY <1>1, <1>3
<1>5. Payload(cmd, body) = FlattenSeq(s)
  <2>1. DOMAIN body = 1..n
    BY <1>2
  <2> QED BY <2>1 DEF Payload, kinds
<1> HIDE DEF s
<1>6. PICK part : Joins(part, s) /\ FlattenSeq(s) = part[n]
  BY <1>4, FlattenSteps
<1> DEFINE P == Payload(cmd, body)
<1>7. P = part[n]
  BY <1>5, <1>6
<1>8. P \in Seq(Byte) /\ \A k \in 0..n : /\ part[k] \in Seq(Byte) /\ Len(part[k]) \in Nat
                                         /\ Len(part[k]) <= Len(P)
                                         /\ \A i \in 1..Len(part[k]) : P[i] = part[k][i]
  <2>1. ASSUME NEW k \in 0..n
        PROVE /\ part[n] \in Seq(Byte) /\ part[k] \in Seq(Byte) /\ Len(part[k]) <= Len(part[n])
              /\ \A i \in 1..Len(part[k]) : part[n][i] = part[k][i]
    BY <1>4, <1>6, JoinsKeep
  <2>2. n \in 0..n
    BY <1>1
  <2> QED BY <1>7, <2>1, <2>2
<1>9. part[0] = <<>> /\ \A k \in 1..n : part[k] = part[k - 1] \o s[k]
  BY <1>4, <1>6 DEF Joins
<1> HIDE DEF P
<1>10. SUFFICES ASSUME \A i \in 1..Len(z) : i <= Len(P) => z[i] = P[i]
                PROVE  Parse(cmd, z) = IF Len(P) <= Len(z)
                                       THEN [ok |-> TRUE, rest |-> SubSeq(z, Len(P) + 1, Len(z)),
                                             body |-> body]
                                       ELSE Fault
  BY <1>8 DEF P
<1> DEFINE read == [k \in 0..n |-> IF Len(part[k]) <= Len(z)
                                   THEN [ok |-> TRUE, rest |-> SubSeq(z, Len(part[k]) + 1, Len(z)),
                                         body |-> SubSeq(body, 1, k)]
                                   ELSE Fault]
<1>11. read[0] = Reader(z)
  <2>1. 0 \in 0..n /\ Len(part[0]) = 0 /\ 0 <= Len(z)
    BY <1>1, <1>9
  <2>2. SubSeq(z, 1, Len(z)) = z /\ SubSeq(body, 1, 0) = <<>> /\ 0 + 1 = 1
    BY <1>1, <1>2
  <2> QED BY <2>1, <2>2 DEF Reader
<1>12. ASSUME NEW k \in 1..n PROVE read[k] = Field(read[k - 1], kinds[k])
  <2>1. PICK j \in 0..n : j = k - 1 /\ k = j + 1 /\ k \in 0..n
    <3>1. k - 1 \in 0..n /\ k = (k - 1) + 1 /\ k \in 0..n
      BY <1>1
    <3> QED BY <3>1
  <2>2. PICK a \in Nat, b \in Nat, p \in Seq(Byte) :
           /\ a = Len(part[j]) /\ b = Len(part[k]) /\ p = s[k]
           /\ b = a + Len(p) /\ Len(p) \in Nat \ {0} /\ b <= Len(P)
           /\ \A i \in 1..Len(p) : P[a + i] = p[i]
    <3>1. PICK q \in Seq(Byte), p \in Seq(Byte) : q = part[j] /\ p = s[k] /\ part[k] = q \o p
      <4>1. part[j] \in Seq(Byte)
        BY <1>8
      <4>2. s[k] \in Seq(Byte)
        BY <1>3, <1>4
      <4>3. part[k] = part[j] \o s[k]
        BY <1>9, <2>1
      <4> QED BY <4>1, <4>2, <4>3
    <3>2. Len(q \o p) = Len(q) + Len(p) /\ \A i \in 1..Len(p) : (q \o p)[Len(q) + i] = p[i]
      BY Parts
    <3>3. Len(p) \in Nat \ {0}
      BY <1>3, <1>4, <3>1
    <3>4. Len(q) \in Nat /\ Len(part[k]) \in Nat /\ Len(part[k]) = Len(q) + Len(p) /\ Len(part[k]) <= Len(P)
      BY <1>8, <2>1, <3>1, <3>2
    <3>5. ASSUME NEW i \in 1..Len(p) PROVE P[Len(q) + i] = p[i]
      <4>1. Len(q) + i \in 1..Len(part[k])
        BY <3>3, <3>4
      <4>2. P[Len(q) + i] = part[k][Len(q) + i]
        BY <1>8, <2>1, <4>1
      <4> QED BY <3>1, <3>2, <4>2
    <3>6. Len(q) = Len(part[j])
      BY <3>1
    <3> QED BY <3>1, <3>3, <3>4, <3>5, <3>6
  <2>3. b = a + Len(p) /\ Len(p) \in Nat \ {0} /\ b <= Len(P)
    BY <2>2
  <2>4. p = Put(kinds[k], body[k]) /\ kinds[k] \in Kinds /\ Sendable(kinds[k], body[k])
    BY <1>1, <1>2, <1>4, <2>2
  <2>5. Len(z) \in Nat /\ Len(P) \in Nat
    BY <1>8
  <2> DEFINE r == read[j]
  <2>6. r = IF a <= Len(z) THEN [ok |-> TRUE, rest |-> SubSeq(z, a + 1, Len(z)), body |-> SubSeq(body, 1, j)]
            ELSE Fault
    BY <2>2
  <2>7. read[k] = IF b <= Len(z) THEN [ok |-> TRUE, rest |-> SubSeq(z, b + 1, Len(z)), body |-> SubSeq(body, 1, k)]
                  ELSE Fault
    BY <2>1, <2>2
  <2> HIDE DEF read, r
  <2>8. CASE b <= Len(z)
    <3>1. \A i \in 1..Len(p) : z[a + i] = p[i]
      <4>1. ASSUME NEW i \in 1..Len(p) PROVE z[a + i] = p[i]
        <5>1. a + i \in 1..Len(z) /\ a + i <= Len(P)
          BY <2>3, <2>5, <2>8
        <5>2. z[a + i] = P[a + i]
          BY <1>10, <5>1
        <5> QED BY <2>2, <5>2
      <4> QED BY <4>1
    <3>2. PICK rest \in Seq(Byte) : rest = SubSeq(z, b + 1, Len(z)) /\ SubSeq(z, a + 1, Len(z)) = p \o rest
      <4>1. a + Len(p) <= Len(z) /\ b = a + Len(p)
        BY <2>2, <2>8
      <4>2. SubSeq(z, a + Len(p) + 1, Len(z)) \in Seq(Byte)
            /\ SubSeq(z, a + 1, Len(z)) = p \o SubSeq(z, a + Len(p) + 1, Len(z))
        BY <3>1, <4>1, GoesOn
      <4> QED BY <4>1, <4>2
    <3>3. r.ok /\ r.rest = Put(kinds[k], body[k]) \o rest /\ r.body = SubSeq(body, 1, j)
      <4>1. a <= Len(z)
        BY <2>3, <2>5, <2>8
      <4> QED BY <2>4, <2>6, <3>2, <4>1
    <3>4. Field(r, kinds[k]) = [ok |-> TRUE, rest |-> rest, body |-> Append(r.body, body[k])]
      <4>1. r.ok /\ r.rest = Put(kinds[k], body[k]) \o rest
        BY <3>3
      <4>2. kinds[k] \in Kinds /\ Sendable(kinds[k], body[k])
        BY <2>4
      <4> QED BY <4>1, <4>2, FieldIsRead
    <3>5. Append(SubSeq(body, 1, j), body[k]) = SubSeq(body, 1, k)
      <4> DEFINE V == {body[i] : i \in 1..n}
      <4>1. \A i \in 1..n : body[i] \in V
        OBVIOUS
      <4> HIDE DEF V
      <4>2. body \in [1..n -> V]
        BY <1>2, <4>1
      <4>3. body \in Seq(V) /\ Len(body) = n
        BY <1>1, <4>2
      <4> QED BY <1>1, <2>1, <4>3
    <3> QED BY <2>1, <2>7, <2>8, <3>2, <3>3, <3>4, <3>5 DEF r
  <2>9. CASE ~(b <= Len(z)) /\ a <= Len(z)
    <3>1. r.ok /\ r.rest = SubSeq(z, a + 1, Len(z))
      BY <2>6, <2>9
    <3>2. PICK x \in Seq(Byte) : /\ x = SubSeq(z, a + 1, Len(z)) /\ Len(x) = Len(z) - a
                                 /\ \A i \in 1..Len(x) : x[i] = z[a + i]
      <4>1. PICK c \in Nat : c = Len(z) - a /\ a + c = Len(z)
        <5>1. Len(z) - a \in Nat /\ a + (Len(z) - a) = Len(z)
          BY <2>5, <2>9
        <5> QED BY <5>1
      <4>2. /\ SubSeq(z, a + 1, Len(z)) \in Seq(Byte) /\ Len(SubSeq(z, a + 1, Len(z))) = c
            /\ \A i \in 1..c : SubSeq(z, a + 1, Len(z))[i] = z[a + i]
        BY <4>1, RestOf
      <4> QED BY <4>1, <4>2
    <3>3. Len(x) = Len(z) - a
      BY <3>2
    <3>4. Len(x) < Len(p)
      BY <2>3, <2>5, <2>9, <3>3
    <3>5. \A i \in 1..Len(x) : x[i] = p[i]
      <4>1. ASSUME NEW i \in 1..Len(x) PROVE x[i] = p[i]
        <5>1. a + i \in 1..Len(z) /\ a + i <= Len(P) /\ i \in 1..Len(p)
          BY <2>3, <2>5, <2>9, <3>3, <3>4
        <5>2. z[a + i] = P[a + i]
          BY <1>10, <5>1
        <5> QED BY <2>2, <3>2, <5>1, <5>2
      <4> QED BY <4>1
    <3>6. /\ r.rest \in Seq(Byte) /\ Len(r.rest) < Len(Put(kinds[k], body[k]))
          /\ \A i \in 1..Len(r.rest) : r.rest[i] = Put(kinds[k], body[k])[i]
      BY <2>4, <3>1, <3>2, <3>4, <3>5
    <3>7. Field(r, kinds[k]) = Fault
      BY <2>4, <3>1, <3>6, FieldIsCut
    <3> QED BY <2>1, <2>7, <2>9, <3>7 DEF r
  <2>10. CASE ~(a <= Len(z))
    <3>1. r = Fault
      BY <2>6, <2>10
    <3>2. Field(Fault, kinds[k]) = Fault
      BY DEF Field, Fault
    <3>3. ~(b <= Len(z))
      BY <2>3, <2>5, <2>10
    <3> QED BY <2>1, <2>7, <3>1, <3>2, <3>3 DEF r
  <2> QED BY <2>8, <2>9, <2>10
<1>13. Parse(cmd, z) = read[n]
  <2>1. read = [k \in 0..n |-> read[k]]
    OBVIOUS
  <2> HIDE DEF read
  <2> QED BY <1>11, <1>12, <2>1, ParseSteps DEF n, kinds
<1>14. n \in 0..n /\ SubSeq(body, 1, n) = body
  BY <1>1, <1>2
<1> QED BY <1>7, <1>13, <1>14

\* parse gives back the fields that encode wrote; what is behind them is ignored.
THEOREM PayloadRoundTrip ==
  ASSUME NEW cmd \in DOMAIN Layout, NEW body, BodyOf(cmd, body), Encodable(cmd, body),
         NEW more \in Seq(Byte)
  PROVE  /\ Payload(cmd, body) \in Seq(Byte)
         /\ Parse(cmd, Payload(cmd, body) \o more).ok
         /\ Parse(cmd, Payload(cmd, body) \o more).body = body
<1>1. PICK P \in Seq(Byte) : P = Payload(cmd, body)
  <2>1. <<>> \in Seq(Byte)
    OBVIOUS
  <2>2. Payload(cmd, body) \in Seq(Byte)
    BY <2>1, ReadsAlong
  <2> QED BY <2>2
<1> DEFINE z == P \o more
<1>2. /\ z \in Seq(Byte) /\ Len(P) \in Nat /\ Len(more) \in Nat /\ Len(z) = Len(P) + Len(more)
      /\ \A i \in 1..Len(P) : z[i] = P[i]
  BY Parts
<1> HIDE DEF z
<1>3. Len(P) <= Len(z)
  BY <1>2
<1>4. \A i \in 1..Len(z) : i <= Len(P) => z[i] = P[i]
  BY <1>2
<1>5. Parse(cmd, z) = [ok |-> TRUE, rest |-> SubSeq(z, Len(P) + 1, Len(z)), body |-> body]
  <2>1. Parse(cmd, z) = IF Len(Payload(cmd, body)) <= Len(z)
                        THEN [ok |-> TRUE, rest |-> SubSeq(z, Len(Payload(cmd, body)) + 1, Len(z)),
                              body |-> body]
                        ELSE Fault
    BY <1>1, <1>2, <1>4, ReadsAlong
  <2> QED BY <1>1, <1>3, <2>1
<1> QED BY <1>1, <1>5 DEF z

\* A payload cut short is refused, wherever it is cut.
THEOREM CutPayloadFails ==
  ASSUME NEW cmd \in DOMAIN Layout, NEW body, BodyOf(cmd, body), Encodable(cmd, body),
         NEW k \in 0..(Len(Payload(cmd, body)) - 1)
  PROVE  ~Parse(cmd, SubSeq(Payload(cmd, body), 1, k)).ok
<1>1. PICK P \in Seq(Byte) : P = Payload(cmd, body)
  <2>1. <<>> \in Seq(Byte)
    OBVIOUS
  <2>2. Payload(cmd, body) \in Seq(Byte)
    BY <2>1, ReadsAlong
  <2> QED BY <2>2
<1>2. k \in Nat /\ k < Len(P) /\ Len(P) \in Nat
  BY <1>1
<1> DEFINE z == SubSeq(P, 1, k)
<1>3. z \in Seq(Byte) /\ Len(z) = k /\ \A i \in 1..k : z[i] = P[i]
  BY <1>2
<1> HIDE DEF z
<1>4. \A i \in 1..Len(z) : i <= Len(P) => z[i] = P[i]
  BY <1>3
<1>5. ~(Len(P) <= Len(z))
  BY <1>2, <1>3
<1>6. Parse(cmd, z) = Fault
  <2>1. Parse(cmd, z) = IF Len(Payload(cmd, body)) <= Len(z)
                        THEN [ok |-> TRUE, rest |-> SubSeq(z, Len(Payload(cmd, body)) + 1, Len(z)),
                              body |-> body]
                        ELSE Fault
    BY <1>1, <1>3, <1>4, ReadsAlong
  <2> QED BY <1>1, <1>5, <2>1
<1>7. ~Parse(cmd, z).ok
  BY <1>6 DEF Fault
<1> QED BY <1>1, <1>7 DEF z

-----------------------------------------------------------------------------
(* Sequences that grow and are cut.                                        *)

\* A sequence of anything, and one more.
LEMMA OneMore ==
  ASSUME NEW s, s \in Seq(Range(s)), NEW x
  PROVE  /\ Append(s, x) \in Seq(Range(Append(s, x)))
         /\ Len(Append(s, x)) = Len(s) + 1 /\ Len(s) \in Nat
         /\ \A i \in 1..Len(s) : Append(s, x)[i] = s[i]
         /\ Append(s, x)[Len(s) + 1] = x
<1> DEFINE V == Range(s) \cup {x}
<1>1. s \in Seq(V) /\ x \in V
  <2>1. \A i \in 1..Len(s) : s[i] \in Range(s)
    OBVIOUS
  <2> HIDE DEF V
  <2>2. Range(s) \subseteq V /\ x \in V
    BY DEF V
  <2>3. s \in [1..Len(s) -> V] /\ Len(s) \in Nat
    BY <2>1, <2>2
  <2> QED BY <2>2, <2>3
<1> HIDE DEF V
<1> DEFINE t == Append(s, x)
<1>2. t \in Seq(V) /\ Len(t) = Len(s) + 1 /\ Len(s) \in Nat
      /\ (\A i \in 1..Len(s) : t[i] = s[i]) /\ t[Len(s) + 1] = x
  BY <1>1
<1> HIDE DEF t
<1>3. t \in Seq(Range(t))
  <2>1. DOMAIN t = 1..Len(t) /\ Len(t) \in Nat /\ t = [i \in 1..Len(t) |-> t[i]]
    BY <1>2
  <2>2. \A i \in 1..Len(t) : t[i] \in Range(t)
    BY <2>1 DEF Range
  <2>3. t \in [1..Len(t) -> Range(t)]
    BY <2>1, <2>2
  <2> QED BY <2>1, <2>3
<1> QED BY <1>2, <1>3 DEF t

\* A sequence cut in two.
LEMMA CutInTwo ==
  ASSUME NEW s \in Seq(Byte), NEW n \in 0..Len(s)
  PROVE  /\ SubSeq(s, 1, n) \in Seq(Byte) /\ SubSeq(s, n + 1, Len(s)) \in Seq(Byte)
         /\ SubSeq(s, 1, n) \o SubSeq(s, n + 1, Len(s)) = s
         /\ Len(SubSeq(s, 1, n)) = n /\ \A i \in 1..n : SubSeq(s, 1, n)[i] = s[i]
<1>1. PICK l \in Nat, m \in Nat : l = n /\ Len(s) = l + m
  <2>1. Len(s) - n \in Nat /\ Len(s) = n + (Len(s) - n) /\ n \in Nat
    OBVIOUS
  <2> QED BY <2>1
<1> DEFINE x == SubSeq(s, 1, l)
<1> DEFINE y == SubSeq(s, l + 1, Len(s))
<1>2. x \in Seq(Byte) /\ Len(x) = l /\ \A i \in 1..l : x[i] = s[i]
  BY <1>1
<1>3. y \in Seq(Byte) /\ Len(y) = m /\ \A i \in 1..m : y[i] = s[l + i]
  BY <1>1
<1>4. x \in Seq(Byte) /\ y \in Seq(Byte) /\ x \o y = s
  <2> HIDE DEF x, y
  <2>1. /\ x \o y \in Seq(Byte) /\ Len(x \o y) = Len(x) + Len(y)
        /\ \A i \in 1..Len(x) : (x \o y)[i] = x[i]
        /\ \A i \in 1..Len(y) : (x \o y)[Len(x) + i] = y[i]
    BY <1>2, <1>3, Parts
  <2> DEFINE z == x \o y
  <2>2. /\ z \in Seq(Byte) /\ Len(z) = l + m
        /\ \A i \in 1..l : z[i] = x[i]
        /\ \A i \in 1..m : z[l + i] = y[i]
    BY <1>2, <1>3, <2>1
  <2> HIDE DEF z
  <2>3. ASSUME NEW i \in 1..(l + m) PROVE z[i] = s[i]
    <3>1. CASE i \in 1..l
      BY <1>2, <2>2, <3>1
    <3>2. CASE i \notin 1..l
      <4>1. PICK k \in 1..m : i = l + k
        <5>1. i - l \in 1..m /\ i = l + (i - l)
          BY <3>2
        <5> QED BY <5>1
      <4> QED BY <1>3, <2>2, <4>1
    <3> QED BY <3>1, <3>2
  <2>4. Len(z) = Len(s) /\ \A i \in 1..Len(z) : z[i] = s[i]
    BY <1>1, <2>2, <2>3
  <2>5. z = s
    BY <2>2, <2>4
  <2> QED BY <1>2, <1>3, <2>5 DEF z
<1> QED BY <1>1, <1>2, <1>4

\* Putting sequences behind each other in either order of the steps.
LEMMA Associative ==
  ASSUME NEW a \in Seq(Byte), NEW b \in Seq(Byte), NEW c \in Seq(Byte)
  PROVE  (a \o b) \o c = a \o (b \o c)
OBVIOUS

\* Sequences are the same if all that is in them is.
LEMMA SameBytes ==
  ASSUME NEW s \in Seq(Byte), NEW t \in Seq(Byte), Len(s) = Len(t), \A i \in 1..Len(t) : s[i] = t[i]
  PROVE  s = t
OBVIOUS

\* The same sequence cut at one place and, further on, at another.
LEMMA Cancel ==
  ASSUME NEW a \in Seq(Byte), NEW b \in Seq(Byte), NEW c \in Seq(Byte), NEW d \in Seq(Byte),
         a \o b = c \o d, Len(c) <= Len(a)
  PROVE  SubSeq(a, Len(c) + 1, Len(a)) \in Seq(Byte)
         /\ SubSeq(a, Len(c) + 1, Len(a)) \o b = d
<1>1. Len(c) \in Nat /\ Len(a) \in Nat /\ Len(c) \in 0..Len(a)
  OBVIOUS
<1>2. PICK x \in Seq(Byte), y \in Seq(Byte) :
         /\ y = SubSeq(a, Len(c) + 1, Len(a)) /\ x \o y = a
         /\ Len(x) = Len(c) /\ \A i \in 1..Len(c) : x[i] = a[i]
  BY <1>1, CutInTwo
<1>3. ASSUME NEW i \in 1..Len(c) PROVE x[i] = c[i]
  <2>1. i \in 1..Len(a)
    BY <1>1
  <2>2. (a \o b)[i] = a[i]
    BY <2>1, Parts
  <2>3. (c \o d)[i] = c[i]
    BY Parts
  <2>4. x[i] = a[i]
    BY <1>2
  <2> QED BY <2>2, <2>3, <2>4
<1>4. Len(x) = Len(c)
  BY <1>2
<1>5. x = c
  <2>1. \A i \in 1..Len(c) : x[i] = c[i]
    BY <1>3
  <2> QED BY <1>4, <2>1, SameBytes
<1>6. c \o (y \o b) = c \o d
  <2>1. (x \o y) \o b = x \o (y \o b)
    BY Associative
  <2>2. (x \o y) \o b = c \o d
    BY <1>2
  <2> QED BY <1>5, <2>1, <2>2
<1> DEFINE e == y \o b
<1>7. e \in Seq(Byte)
  OBVIOUS
<1> HIDE DEF e
<1>8. c \o e = c \o d
  BY <1>6 DEF e
<1>9. Len(e) = Len(d)
  <2>1. Len(c \o e) = Len(c) + Len(e) /\ Len(c \o d) = Len(c) + Len(d)
    BY <1>7, Parts
  <2>2. Len(e) \in Nat /\ Len(d) \in Nat
    BY <1>7
  <2> QED BY <1>1, <1>8, <2>1, <2>2
<1>10. SubSeq(c \o e, Len(c) + 1, Len(c) + Len(e)) = e
       /\ SubSeq(c \o d, Len(c) + 1, Len(c) + Len(d)) = d
  BY <1>7, Parts
<1>11. e = d
  BY <1>8, <1>9, <1>10
<1> QED BY <1>2, <1>11 DEF e

\* Flattening with one more sequence at the end.
LEMMA FlattenMore ==
  ASSUME NEW s \in Seq(Seq(Byte)), NEW x \in Seq(Byte)
  PROVE  FlattenSeq(s) \in Seq(Byte) /\ FlattenSeq(Append(s, x)) = FlattenSeq(s) \o x
<1> DEFINE t == Append(s, x)
<1>1. t \in Seq(Seq(Byte)) /\ Len(t) = Len(s) + 1 /\ Len(s) \in Nat
      /\ (\A i \in 1..Len(s) : t[i] = s[i]) /\ t[Len(s) + 1] = x
  OBVIOUS
<1> HIDE DEF t
<1> DEFINE n == Len(s)
<1>2. PICK p : Joins(p, s) /\ FlattenSeq(s) = p[n]
  BY FlattenSteps
<1>3. PICK q : Joins(q, t) /\ FlattenSeq(t) = q[Len(t)]
  BY <1>1, FlattenSteps
<1>4. p \in [0..n -> Seq(Byte)] /\ p[0] = <<>> /\ \A k \in 1..n : p[k] = p[k - 1] \o s[k]
  BY <1>2 DEF Joins
<1>5. q[0] = <<>> /\ \A k \in 1..(n + 1) : q[k] = q[k - 1] \o t[k]
  BY <1>1, <1>3 DEF Joins
<1>6. n \in Nat /\ \A k \in 1..n : t[k] = s[k]
  BY <1>1
<1>7. t[n + 1] = x /\ Len(t) = n + 1
  BY <1>1
<1> HIDE DEF n
<1> DEFINE S == {k \in Nat : k <= n => q[k] = p[k]}
<1>8. 0 \in S
  BY <1>4, <1>5
<1>9. ASSUME NEW k \in Nat, k \in S PROVE k + 1 \in S
  <2> SUFFICES ASSUME k + 1 <= n PROVE q[k + 1] = p[k + 1]
    OBVIOUS
  <2>1. k + 1 \in 1..n /\ k + 1 \in 1..(n + 1) /\ (k + 1) - 1 = k
    BY <1>6
  <2>2. q[k] = p[k]
    BY <1>6, <1>9
  <2>3. p[k + 1] = p[k] \o s[k + 1]
    BY <1>4, <2>1
  <2>4. q[k + 1] = q[k] \o t[k + 1]
    BY <1>5, <2>1
  <2>5. t[k + 1] = s[k + 1]
    BY <1>6, <2>1
  <2> QED BY <2>2, <2>3, <2>4, <2>5
<1> HIDE DEF S
<1>10. n \in S
  BY <1>6, <1>8, <1>9, Induction
<1>11. q[n] = p[n]
  BY <1>6, <1>10 DEF S
<1>12. q[n + 1] = q[n] \o x
  <2>1. n + 1 \in 1..(n + 1) /\ (n + 1) - 1 = n
    BY <1>6
  <2> QED BY <1>5, <1>7, <2>1
<1>13. p[n] \in Seq(Byte)
  BY <1>4, <1>6
<1> QED BY <1>2, <1>3, <1>7, <1>11, <1>12, <1>13 DEF t

\* Flattening without the first.
LEMMA FlattenFirst ==
  ASSUME NEW s \in Seq(Seq(Byte)), NEW t \in Seq(Seq(Byte)), Len(s) = Len(t) + 1,
         \A i \in 1..Len(t) : s[i + 1] = t[i]
  PROVE  FlattenSeq(s) = s[1] \o FlattenSeq(t)
<1> DEFINE n == Len(t)
<1>1. n \in Nat /\ Len(s) = n + 1 /\ s[1] \in Seq(Byte)
  OBVIOUS
<1>2. PICK p : Joins(p, s) /\ FlattenSeq(s) = p[Len(s)]
  BY FlattenSteps
<1>3. PICK q : Joins(q, t) /\ FlattenSeq(t) = q[n]
  BY FlattenSteps
<1>4. p[0] = <<>> /\ \A k \in 1..(n + 1) : p[k] = p[k - 1] \o s[k]
  BY <1>1, <1>2 DEF Joins
<1>5. q \in [0..n -> Seq(Byte)] /\ q[0] = <<>> /\ \A k \in 1..n : q[k] = q[k - 1] \o t[k]
  BY <1>3 DEF Joins
<1>6. \A k \in 1..n : s[k + 1] = t[k] /\ t[k] \in Seq(Byte)
  <2>1. \A k \in 1..n : t[k] \in Seq(Byte)
    OBVIOUS
  <2> QED BY <2>1
<1> HIDE DEF n
<1> DEFINE Ahead(k) == p[k + 1] = s[1] \o q[k]
<1> DEFINE S == {k \in Nat : k <= n => Ahead(k)}
<1>7. Ahead(0)
  <2>1. 1 \in 1..(n + 1) /\ 1 - 1 = 0 /\ 0 + 1 = 1
    BY <1>1
  <2>2. p[1] = <<>> \o s[1]
    <3>1. p[1] = p[1 - 1] \o s[1]
      BY <1>4, <2>1
    <3> QED BY <1>4, <2>1, <3>1
  <2>3. <<>> \o s[1] = s[1] /\ s[1] \o <<>> = s[1]
    BY <1>1
  <2> QED BY <1>5, <2>1, <2>2, <2>3
<1>8. ASSUME NEW k \in Nat, k + 1 <= n, Ahead(k) PROVE Ahead(k + 1)
  <2>1. k + 1 \in 1..n /\ k + 1 + 1 \in 1..(n + 1) /\ (k + 1) - 1 = k /\ (k + 1 + 1) - 1 = k + 1 /\ k \in 0..n
    BY <1>1, <1>8
  <2>2. p[k + 1] = s[1] \o q[k]
    BY <1>8
  <2>3. p[k + 1 + 1] = p[k + 1] \o s[k + 1 + 1]
    BY <1>4, <2>1
  <2>4. q[k + 1] = q[k] \o t[k + 1]
    BY <1>5, <2>1
  <2>5. s[k + 1 + 1] = t[k + 1]
    BY <1>6, <2>1
  <2>6. (s[1] \o q[k]) \o t[k + 1] = s[1] \o (q[k] \o t[k + 1])
    <3>1. q[k] \in Seq(Byte) /\ t[k + 1] \in Seq(Byte)
      BY <1>5, <1>6, <2>1
    <3> QED BY <1>1, <3>1, Associative
  <2> QED BY <2>2, <2>3, <2>4, <2>5, <2>6
<1> HIDE DEF Ahead
<1>9. 0 \in S
  BY <1>7
<1>10. ASSUME NEW k \in Nat, k \in S PROVE k + 1 \in S
  <2> SUFFICES ASSUME k + 1 <= n PROVE Ahead(k + 1)
    OBVIOUS
  <2>1. k <= n
    BY <1>1
  <2> QED BY <1>8, <1>10, <2>1
<1> HIDE DEF S
<1>11. n \in S
  BY <1>1, <1>9, <1>10, Induction
<1>12. p[n + 1] = s[1] \o q[n]
  <2>1. Ahead(n)
    BY <1>1, <1>11 DEF S
  <2> QED BY <2>1 DEF Ahead
<1> QED BY <1>1, <1>2, <1>3, <1>12

-----------------------------------------------------------------------------
(* What the decoders find.                                                 *)

\* The decoder of native frames, or of the others.
DecodeOf(n, bytes) == IF n THEN NativeDecode(bytes) ELSE CodecDecode(bytes)

\* What a receiver makes of what it found.
Means(n, found) ==
  IF n THEN Native(found.cmd, found.payload)
  ELSE IF found.cmd \notin DOMAIN Layout THEN <<found.cmd, found.payload>>
  ELSE IF Parse(found.cmd, found.payload).ok
       THEN <<found.cmd, Parse(found.cmd, found.payload).body>> ELSE Unreadable

\* A decoder finds nothing where there is nothing, and a frame only in the bytes
\* that are there.
LEMMA WithinBuffer ==
  ASSUME NEW n \in BOOLEAN, NEW bytes \in Seq(Byte)
  PROVE  /\ DecodeOf(n, <<>>).verdict = "more"
         /\ DecodeOf(n, bytes).verdict = "frame" => DecodeOf(n, bytes).used <= Len(bytes)
<1>1. N16 \in Nat \ {0} /\ OVERHEAD \in Nat \ {0} /\ Len(bytes) \in Nat /\ Len(<<>>) = 0
  BY ByteAssumption DEF OVERHEAD
<1>2. CodecDecode(<<>>).verdict = "more"
  BY <1>1 DEF CodecDecode, More
<1>3. NativeDecode(<<>>).verdict = "more"
  BY <1>1 DEF NativeDecode, More
<1>4. CodecDecode(bytes).verdict = "frame" => CodecDecode(bytes).used <= Len(bytes)
  <2> DEFINE len == FromLe(SubSeq(bytes, 1, N16))
  <2> DEFINE c == FromLe(SubSeq(bytes, N16 + 1, N16 + CMD))
  <2> HIDE DEF len, c
  <2> SUFFICES ASSUME CodecDecode(bytes).verdict = "frame"
               PROVE  CodecDecode(bytes).used <= Len(bytes)
    OBVIOUS
  <2>1. /\ ~(Len(bytes) < N16) /\ ~(Len(bytes) < Total(len))
        /\ CodecDecode(bytes).used = Total(len)
    BY DEF CodecDecode, More, Bad, Found, len, c
  <2>2. len \in Nat
    <3>1. N16 \in Nat /\ N16 <= Len(bytes)
      BY <1>1, <2>1
    <3>2. SubSeq(bytes, 1, N16) \in Seq(Byte)
      BY <3>1
    <3> QED BY <3>2, NumberOfBytes DEF len
  <2>3. Total(len) \in Nat
    BY <1>1, <2>2 DEF Total
  <2> QED BY <1>1, <2>1, <2>3
<1>5. NativeDecode(bytes).verdict = "frame" => NativeDecode(bytes).used <= Len(bytes)
  <2> DEFINE len == FromLe(SubSeq(bytes, 3, 2 + N16))
  <2> HIDE DEF len
  <2> SUFFICES ASSUME NativeDecode(bytes).verdict = "frame"
               PROVE  NativeDecode(bytes).used <= Len(bytes)
    OBVIOUS
  <2>1. /\ ~(Len(bytes) < OVERHEAD) /\ ~(Len(bytes) < OVERHEAD + len)
        /\ NativeDecode(bytes).used = OVERHEAD + len
    BY DEF NativeDecode, More, Bad, Found, len
  <2>2. len \in Nat
    <3>1. 2 + N16 \in Nat /\ 2 + N16 <= Len(bytes)
      BY <1>1, <2>1 DEF OVERHEAD
    <3>2. SubSeq(bytes, 3, 2 + N16) \in Seq(Byte)
      BY <3>1
    <3> QED BY <3>2, NumberOfBytes DEF len
  <2> QED BY <1>1, <2>1, <2>2
<1> QED BY <1>2, <1>3, <1>4, <1>5 DEF DecodeOf

\* What is behind a frame, or behind an error, changes nothing.
LEMMA NothingBehind ==
  ASSUME NEW n \in BOOLEAN, NEW bytes \in Seq(Byte), NEW more \in Seq(Byte),
         DecodeOf(n, bytes).verdict # "more"
  PROVE  DecodeOf(n, bytes \o more) = DecodeOf(n, bytes)
<1>1. CASE n
  <2>1. NativeDecode(bytes).verdict # "more"
    BY <1>1 DEF DecodeOf
  <2>2. NativeDecode(bytes \o more) = NativeDecode(bytes)
    BY <2>1, NativeExtends
  <2> QED BY <1>1, <2>2 DEF DecodeOf
<1>2. CASE ~n
  <2>1. CodecDecode(bytes).verdict # "more"
    BY <1>2 DEF DecodeOf
  <2>2. CodecDecode(bytes \o more) = CodecDecode(bytes)
    BY <2>1, CodecExtends
  <2> QED BY <1>2, <2>2 DEF DecodeOf
<1> QED BY <1>1, <1>2

-----------------------------------------------------------------------------
(* What is sent can be told apart from what is behind it, and means what   *)
(* the sender meant.                                                       *)

\* The decoder finds an item, all of it and nothing else; one that means nothing
\* is an error, or a frame that means nothing.
Readable(n, item) ==
  LET found == DecodeOf(n, item.bytes) IN
  /\ item.bytes \in Seq(Byte)
  /\ \/ found.verdict = "bad" /\ item.means = Unreadable
     \/ /\ found.verdict = "frame" /\ found.used = Len(item.bytes)
        /\ Means(n, found) = item.means

Item(bytes, means, text) == [bytes |-> bytes, means |-> means, text |-> text]

\* Native frames.
LEMMA NativeReadable ==
  ASSUME NEW cmd \in NativeCodes, NEW payload \in Seq(Byte), NativeFits(payload), NEW text
  PROVE  Readable(TRUE, Item(NativeEncode(cmd, payload), Native(cmd, payload), text))
<1> DEFINE b == NativeEncode(cmd, payload)
<1>1. b \in Seq(Byte) /\ NativeDecode(b) = Found(cmd, payload, Len(b))
  BY NativeRoundTrip
<1> HIDE DEF b
<1>2. Readable(TRUE, Item(b, Native(cmd, payload), text))
  BY <1>1 DEF Readable, DecodeOf, Means, Item, Found
<1> QED BY <1>2 DEF b

\* Native frames that are refused.
LEMMA BadReadable ==
  ASSUME NEW bytes \in Seq(Byte), NativeDecode(bytes) = Bad, NEW text
  PROVE  Readable(TRUE, Item(bytes, Unreadable, text))
<1>1. DecodeOf(TRUE, bytes).verdict = "bad"
  BY DEF DecodeOf, Bad
<1> QED BY <1>1 DEF Readable, Item

\* Damaged ones are.
LEMMA DamagedReadable ==
  ASSUME NEW cmd \in NativeCodes, NEW payload \in Seq(Byte), NativeFits(payload), NEW text,
         NEW at \in DOMAIN NativeEncode(cmd, payload) \ 3..(2 + N16), NEW change \in Noise
  PROVE  Readable(TRUE, Item([NativeEncode(cmd, payload) EXCEPT ![at] = (@ + change) % B],
                             Unreadable, text))
<1> DEFINE b == [NativeEncode(cmd, payload) EXCEPT ![at] = (@ + change) % B]
<1>1. at \in 1..Len(NativeEncode(cmd, payload)) /\ at \notin 3..(2 + N16) /\ change \in 1..(B - 1)
  <2>1. NativeEncode(cmd, payload) \in Seq(Byte)
    BY NativeRoundTrip
  <2> QED BY <2>1, StreamAssumption
<1>2. b \in Seq(Byte) /\ NativeDecode(b) = Bad
  BY <1>1, DamageIsNoticed
<1> HIDE DEF b
<1>3. Readable(TRUE, Item(b, Unreadable, text))
  BY <1>2, BadReadable
<1> QED BY <1>3 DEF b

\* Frames with other payloads than those of files.
LEMMA OtherReadable ==
  ASSUME NEW payload \in Seq(Byte), CodecFits(payload), NEW text
  PROVE  Readable(FALSE, Item(CodecEncode("Heartbeat", payload), <<"Heartbeat", payload>>, text))
<1> DEFINE b == CodecEncode("Heartbeat", payload)
<1>1. "Heartbeat" \in DOMAIN Code /\ "Heartbeat" \notin DOMAIN Layout
  BY StreamAssumption
<1>2. b \in Seq(Byte) /\ CodecDecode(b) = Found("Heartbeat", payload, Len(b))
  BY <1>1, CodecRoundTrip
<1> HIDE DEF b
<1>3. Readable(FALSE, Item(b, <<"Heartbeat", payload>>, text))
  BY <1>1, <1>2 DEF Readable, DecodeOf, Means, Item, Found
<1> QED BY <1>3 DEF b

\* Frames with the payload of a file, by what parse makes of it.
LEMMA FileReadable ==
  ASSUME NEW cmd \in DOMAIN Layout, NEW payload \in Seq(Byte), CodecFits(payload), NEW text,
         NEW means,
         means = IF Parse(cmd, payload).ok THEN <<cmd, Parse(cmd, payload).body>> ELSE Unreadable
  PROVE  Readable(FALSE, Item(CodecEncode(cmd, payload), means, text))
<1> DEFINE b == CodecEncode(cmd, payload)
<1>1. cmd \in DOMAIN Code
  BY StreamAssumption
<1>2. b \in Seq(Byte) /\ CodecDecode(b) = Found(cmd, payload, Len(b))
  BY <1>1, CodecRoundTrip
<1> HIDE DEF b
<1>3. Readable(FALSE, Item(b, means, text))
  BY <1>1, <1>2 DEF Readable, DecodeOf, Means, Item, Found
<1> QED BY <1>3 DEF b

\* Bytes of other senders.
LEMMA StrayReadable ==
  ASSUME NEW bytes \in Strays, NEW text
  PROVE  Readable(FALSE, Item(bytes, Unreadable, text))
<1>1. bytes \in Seq(Byte) /\ Meaningless(CodecDecode(bytes), bytes)
  BY StrayAssumption
<1> QED BY <1>1 DEF Readable, Meaningless, DecodeOf, Means, Item

\* Whatever SendFile sends.
LEMMA SentFilesReadable ==
  ASSUME NEW f \in Bodies, Encodable(f[1], f[2]), NEW payload, payload = Payload(f[1], f[2]),
         CodecFits(payload), NEW text
  PROVE  /\ Readable(FALSE, Item(CodecEncode(f[1], payload), f, text))
         /\ \A k \in 0..(Len(payload) - 1) :
               Readable(FALSE, Item(CodecEncode(f[1], SubSeq(payload, 1, k)), Unreadable, text))
         /\ CodecFits(Append(payload, 0))
            => Readable(FALSE, Item(CodecEncode(f[1], Append(payload, 0)), f, text))
<1> DEFINE cmd == f[1]
<1> DEFINE body == f[2]
<1>1. f = <<cmd, body>> /\ cmd \in DOMAIN Layout /\ BodyOf(cmd, body) /\ Encodable(cmd, body)
  BY PayloadAssumption
<1> HIDE DEF cmd, body
<1>2. <<>> \in Seq(Byte) /\ <<0>> \in Seq(Byte)
  BY ByteAssumption DEF Byte
<1>3. Payload(cmd, body) \in Seq(Byte)
  BY <1>1, <1>2, PayloadRoundTrip
<1>4. payload = Payload(cmd, body)
  BY DEF cmd, body
<1>5. payload \in Seq(Byte)
  BY <1>3, <1>4
<1>6. Readable(FALSE, Item(CodecEncode(cmd, payload), f, text))
  <2>1. payload \o <<>> = payload
    BY <1>5
  <2>2. Parse(cmd, payload \o <<>>).ok /\ Parse(cmd, payload \o <<>>).body = body
    <3>1. Parse(cmd, Payload(cmd, body) \o <<>>).ok /\ Parse(cmd, Payload(cmd, body) \o <<>>).body = body
      BY <1>1, <1>2, PayloadRoundTrip
    <3> QED BY <1>4, <3>1
  <2>3. f = IF Parse(cmd, payload).ok THEN <<cmd, Parse(cmd, payload).body>> ELSE Unreadable
    BY <1>1, <2>1, <2>2
  <2> QED BY <1>1, <1>5, <2>3, FileReadable
<1>7. ASSUME NEW k \in 0..(Len(payload) - 1)
      PROVE  Readable(FALSE, Item(CodecEncode(cmd, SubSeq(payload, 1, k)), Unreadable, text))
  <2> DEFINE p == SubSeq(payload, 1, k)
  <2>1. p \in Seq(Byte) /\ Len(p) = k /\ k \in Nat /\ k < Len(payload)
    BY <1>5
  <2>2. ~Parse(cmd, p).ok
    <3>1. k \in 0..(Len(Payload(cmd, body)) - 1)
      BY <1>4
    <3>2. ~Parse(cmd, SubSeq(Payload(cmd, body), 1, k)).ok
      BY <1>1, <3>1, CutPayloadFails
    <3> QED BY <1>4, <3>2
  <2> HIDE DEF p
  <2>3. CodecFits(p)
    <3>1. CMD + Len(payload) < Power[N16]
      BY DEF CodecFits
    <3>2. PICK w \in Nat, l \in Nat : w = Power[N16] /\ l = Len(payload)
      <4>1. N16 \in Nat
        BY ByteAssumption
      <4>2. Power[N16] \in Nat
        BY <4>1, PowerSteps
      <4>3. Len(payload) \in Nat
        BY <1>5
      <4> QED BY <4>2, <4>3
    <3>3. CMD \in Nat
      BY ByteAssumption DEF CMD
    <3>4. CMD + k < w
      BY <2>1, <3>1, <3>2, <3>3
    <3> QED BY <2>1, <3>2, <3>4 DEF CodecFits
  <2>4. Unreadable = IF Parse(cmd, p).ok THEN <<cmd, Parse(cmd, p).body>> ELSE Unreadable
    BY <2>2
  <2>5. Readable(FALSE, Item(CodecEncode(cmd, p), Unreadable, text))
    BY <1>1, <2>1, <2>3, <2>4, FileReadable
  <2> QED BY <2>5 DEF p
<1>8. ASSUME CodecFits(Append(payload, 0))
      PROVE  Readable(FALSE, Item(CodecEncode(cmd, Append(payload, 0)), f, text))
  <2> DEFINE p == Append(payload, 0)
  <2>1. p = payload \o <<0>> /\ p \in Seq(Byte)
    BY <1>2, <1>5
  <2>2. Parse(cmd, payload \o <<0>>).ok /\ Parse(cmd, payload \o <<0>>).body = body
    BY <1>1, <1>2, <1>4, PayloadRoundTrip
  <2>3. f = IF Parse(cmd, p).ok THEN <<cmd, Parse(cmd, p).body>> ELSE Unreadable
    BY <1>1, <2>1, <2>2
  <2>4. CodecFits(p)
    BY <1>8
  <2> HIDE DEF p
  <2>5. Readable(FALSE, Item(CodecEncode(cmd, p), f, text))
    BY <1>1, <2>1, <2>3, <2>4, FileReadable
  <2> QED BY <2>5 DEF p
<1> QED BY <1>6, <1>7, <1>8 DEF cmd

-----------------------------------------------------------------------------
(* What is still to be read.                                               *)

\* The bytes of what was sent from after place g on.
Pending(sent, g) == [i \in 1..(Len(sent) - g) |-> sent[g + i].bytes]

\* All that was sent is bytes.
AllBytes(sent) == sent \in Seq(Range(sent)) /\ \A i \in 1..Len(sent) : sent[i].bytes \in Seq(Byte)

\* It is a sequence of sequences of bytes.
LEMMA PendingBytes ==
  ASSUME NEW sent, AllBytes(sent), NEW g \in Nat, g <= Len(sent)
  PROVE  /\ Pending(sent, g) \in Seq(Seq(Byte)) /\ Len(Pending(sent, g)) = Len(sent) - g
         /\ \A i \in 1..(Len(sent) - g) : Pending(sent, g)[i] = sent[g + i].bytes
<1>1. Len(sent) \in Nat /\ \A i \in 1..Len(sent) : sent[i].bytes \in Seq(Byte)
  BY DEF AllBytes
<1>2. PICK m \in Nat : m = Len(sent) - g /\ Len(sent) = g + m
  <2>1. Len(sent) - g \in Nat /\ Len(sent) = g + (Len(sent) - g)
    BY <1>1
  <2> QED BY <2>1
<1>3. \A i \in 1..m : sent[g + i].bytes \in Seq(Byte)
  <2>1. \A i \in 1..m : g + i \in 1..Len(sent)
    BY <1>2
  <2> QED BY <1>1, <2>1
<1>4. Pending(sent, g) = [i \in 1..m |-> sent[g + i].bytes]
  BY <1>2 DEF Pending
<1>5. Pending(sent, g) \in [1..m -> Seq(Byte)]
  BY <1>3, <1>4
<1>6. Pending(sent, g) \in Seq(Seq(Byte)) /\ Len(Pending(sent, g)) = m
  BY <1>5
<1>7. \A i \in 1..m : Pending(sent, g)[i] = sent[g + i].bytes
  BY <1>4
<1> QED BY <1>2, <1>6, <1>7

\* Sending adds to it at the end.
LEMMA PendingMore ==
  ASSUME NEW sent, AllBytes(sent), NEW g \in Nat, g <= Len(sent),
         NEW item, item.bytes \in Seq(Byte)
  PROVE  /\ AllBytes(Append(sent, item))
         /\ FlattenSeq(Pending(sent, g)) \in Seq(Byte)
         /\ FlattenSeq(Pending(Append(sent, item), g)) = FlattenSeq(Pending(sent, g)) \o item.bytes
<1>1. sent \in Seq(Range(sent)) /\ \A i \in 1..Len(sent) : sent[i].bytes \in Seq(Byte)
  BY DEF AllBytes
<1> DEFINE more == Append(sent, item)
<1>2. /\ more \in Seq(Range(more)) /\ Len(more) = Len(sent) + 1 /\ Len(sent) \in Nat
      /\ \A i \in 1..Len(sent) : more[i] = sent[i]
      /\ more[Len(sent) + 1] = item
  BY <1>1, OneMore
<1> HIDE DEF more
<1>3. AllBytes(more)
  <2>1. ASSUME NEW i \in 1..Len(more) PROVE more[i].bytes \in Seq(Byte)
    <3>1. i \in 1..Len(sent) \/ i = Len(sent) + 1
      BY <1>2
    <3> QED BY <1>1, <1>2, <3>1
  <2> QED BY <1>2, <2>1 DEF AllBytes
<1>4. PICK m \in Nat : m = Len(sent) - g /\ Len(sent) = g + m
  <2>1. Len(sent) - g \in Nat /\ Len(sent) = g + (Len(sent) - g)
    BY <1>2
  <2> QED BY <2>1
<1> DEFINE p == Pending(sent, g)
<1> DEFINE q == Pending(more, g)
<1>5. p \in Seq(Seq(Byte)) /\ Len(p) = m /\ \A i \in 1..m : p[i] = sent[g + i].bytes
  BY <1>4, PendingBytes
<1>6. q \in Seq(Seq(Byte)) /\ Len(q) = m + 1 /\ \A i \in 1..(m + 1) : q[i] = more[g + i].bytes
  <2>1. g <= Len(more) /\ Len(more) - g = m + 1
    BY <1>2, <1>4
  <2> QED BY <1>3, <2>1, PendingBytes
<1> HIDE DEF p, q
<1>7. q = Append(p, item.bytes)
  <2> DEFINE r == Append(p, item.bytes)
  <2>1. r \in Seq(Seq(Byte)) /\ Len(r) = m + 1 /\ (\A i \in 1..m : r[i] = p[i]) /\ r[m + 1] = item.bytes
    BY <1>5
  <2> HIDE DEF r
  <2>2. ASSUME NEW i \in 1..(m + 1) PROVE q[i] = r[i]
    <3>1. CASE i \in 1..m
      <4>1. g + i \in 1..Len(sent)
        BY <1>4, <3>1
      <4>2. more[g + i] = sent[g + i]
        BY <1>2, <4>1
      <4> QED BY <1>5, <1>6, <2>1, <3>1, <4>2
    <3>2. CASE i = m + 1
      <4>1. g + i = Len(sent) + 1
        BY <1>4, <3>2
      <4>2. more[g + i] = item
        BY <1>2, <4>1
      <4> QED BY <1>6, <2>1, <3>2, <4>2
    <3> QED BY <3>1, <3>2
  <2>3. q = r
    BY <1>6, <2>1, <2>2
  <2> QED BY <2>3 DEF r
<1>8. FlattenSeq(p) \in Seq(Byte) /\ FlattenSeq(Append(p, item.bytes)) = FlattenSeq(p) \o item.bytes
  BY <1>5, FlattenMore
<1> QED BY <1>3, <1>7, <1>8 DEF p, q, more

\* Reading takes from it at the front.
LEMMA PendingFirst ==
  ASSUME NEW sent, AllBytes(sent), NEW g \in Nat, g < Len(sent)
  PROVE  /\ FlattenSeq(Pending(sent, g + 1)) \in Seq(Byte) /\ sent[g + 1].bytes \in Seq(Byte)
         /\ FlattenSeq(Pending(sent, g)) = sent[g + 1].bytes \o FlattenSeq(Pending(sent, g + 1))
<1>1. Len(sent) \in Nat /\ \A i \in 1..Len(sent) : sent[i].bytes \in Seq(Byte)
  BY DEF AllBytes
<1>2. PICK m \in Nat : Len(sent) = g + 1 + m
  <2>1. Len(sent) - g - 1 \in Nat /\ Len(sent) = g + 1 + (Len(sent) - g - 1)
    BY <1>1
  <2> QED BY <2>1
<1>3. Len(sent) - g = m + 1 /\ Len(sent) - (g + 1) = m /\ g <= Len(sent) /\ g + 1 <= Len(sent)
      /\ g + 1 \in Nat
  BY <1>2
<1> DEFINE p == Pending(sent, g)
<1> DEFINE q == Pending(sent, g + 1)
<1>4. p \in Seq(Seq(Byte)) /\ Len(p) = m + 1 /\ \A i \in 1..(m + 1) : p[i] = sent[g + i].bytes
  <2>1. /\ p \in Seq(Seq(Byte)) /\ Len(p) = Len(sent) - g
        /\ \A i \in 1..(Len(sent) - g) : p[i] = sent[g + i].bytes
    BY <1>3, PendingBytes
  <2> HIDE DEF p
  <2> QED BY <1>3, <2>1
<1>5. q \in Seq(Seq(Byte)) /\ Len(q) = m /\ \A i \in 1..m : q[i] = sent[g + 1 + i].bytes
  BY <1>3, PendingBytes
<1> HIDE DEF p, q
<1>6. \A i \in 1..m : p[i + 1] = q[i]
  <2>1. \A i \in 1..m : i + 1 \in 1..(m + 1) /\ g + (i + 1) = g + 1 + i
    OBVIOUS
  <2> QED BY <1>4, <1>5, <2>1
<1>7. FlattenSeq(p) = p[1] \o FlattenSeq(q)
  <2>1. Len(p) = Len(q) + 1 /\ \A i \in 1..Len(q) : p[i + 1] = q[i]
    BY <1>4, <1>5, <1>6
  <2> QED BY <1>4, <1>5, <2>1, FlattenFirst
<1>8. p[1] = sent[g + 1].bytes
  <2>1. 1 \in 1..(m + 1)
    OBVIOUS
  <2> QED BY <1>4, <2>1
<1>9. FlattenSeq(q) \in Seq(Byte)
  <2>1. <<>> \in Seq(Byte)
    OBVIOUS
  <2> QED BY <1>5, <2>1, FlattenMore
<1>10. sent[g + 1].bytes \in Seq(Byte)
  <2>1. g + 1 \in 1..Len(sent)
    BY <1>1, <1>3
  <2> QED BY <1>1, <2>1
<1> QED BY <1>7, <1>8, <1>9, <1>10 DEF p, q

\* When all is read nothing is left.
LEMMA PendingNone ==
  ASSUME NEW sent, AllBytes(sent)
  PROVE  FlattenSeq(Pending(sent, Len(sent))) = <<>>
<1>1. Len(sent) \in Nat
  BY DEF AllBytes
<1>2. Len(sent) - Len(sent) = 0
  BY <1>1
<1>3. Pending(sent, Len(sent)) \in Seq(Seq(Byte)) /\ Len(Pending(sent, Len(sent))) = 0
  BY <1>1, <1>2, PendingBytes
<1>4. Pending(sent, Len(sent)) = <<>>
  BY <1>3
<1> QED BY <1>4 DEF FlattenSeq

-----------------------------------------------------------------------------
(* Bits of a number.                                                       *)

\* A quotient is how often the divisor fits.
LEMMA DivUnique ==
  ASSUME NEW d \in Nat \ {0}, NEW a \in Nat, NEW x \in 0..(d - 1)
  PROVE  (d * a + x) \div d = a
<1>1. PICK n \in Nat : n = d * a + x
  <2>1. d * a \in Nat
    OBVIOUS
  <2>2. d * a + x \in Nat
    BY <2>1
  <2> QED BY <2>2
<1>2. n % d = x
  BY <1>1, ModUnique
<1>3. PICK q \in Nat, r \in 0..(d - 1) : q = n \div d /\ r = n % d /\ n = d * q + r
  BY DivFacts
<1>4. d * a = d * q
  <2>1. d * a \in Nat /\ d * q \in Nat
    OBVIOUS
  <2> QED BY <1>1, <1>2, <1>3, <2>1
<1>5. a = q
  <2>1. ~(a < q)
    <3>1. SUFFICES ASSUME a < q PROVE FALSE
      OBVIOUS
    <3>2. PICK e \in Nat : q = a + 1 + e
      <4>1. q - a - 1 \in Nat /\ q = a + 1 + (q - a - 1)
        BY <3>1
      <4> QED BY <4>1
    <3>3. d * q = d * a + d + d * e /\ d * e \in Nat /\ d * a \in Nat
      BY <3>2
    <3> QED BY <1>4, <3>3
  <2>2. ~(q < a)
    <3>1. SUFFICES ASSUME q < a PROVE FALSE
      OBVIOUS
    <3>2. PICK e \in Nat : a = q + 1 + e
      <4>1. a - q - 1 \in Nat /\ a = q + 1 + (a - q - 1)
        BY <3>1
      <4> QED BY <4>1
    <3>3. d * a = d * q + d + d * e /\ d * e \in Nat /\ d * q \in Nat
      BY <3>2
    <3> QED BY <1>4, <3>3
  <2> QED BY <2>1, <2>2
<1> QED BY <1>1, <1>3, <1>5

\* The powers of two.
LEMMA BitValues == /\ BitValue[0] = 1
                   /\ \A k \in Nat : BitValue[k + 1] = 2 * BitValue[k] /\ BitValue[k] \in Nat \ {0}
BY PowersSteps DEF BitValue

\* The higher of two is a multiple of the lower, an even one if they differ.
LEMMA BitValuesDivide ==
  ASSUME NEW j \in Nat, NEW k \in Nat
  PROVE  BitValue[j + k] = BitValue[k] * BitValue[j]
<1> DEFINE S == {m \in Nat : BitValue[j + m] = BitValue[m] * BitValue[j]}
<1>1. 0 \in S
  <2>1. j + 0 = j /\ BitValue[j] \in Nat
    BY BitValues
  <2> QED BY <2>1, BitValues
<1>2. ASSUME NEW m \in Nat, m \in S PROVE m + 1 \in S
  <2>1. BitValue[j + m] = BitValue[m] * BitValue[j]
    BY <1>2
  <2>2. BitValue[j + m + 1] = 2 * BitValue[j + m] /\ BitValue[m + 1] = 2 * BitValue[m]
    BY BitValues
  <2>3. j + (m + 1) = j + m + 1
    OBVIOUS
  <2>4. PICK x \in Nat, y \in Nat : x = BitValue[m] /\ y = BitValue[j]
    BY BitValues
  <2>5. 2 * (x * y) = (2 * x) * y
    OBVIOUS
  <2> QED BY <2>1, <2>2, <2>3, <2>4, <2>5
<1> HIDE DEF S
<1>3. Nat \subseteq S
  BY <1>1, <1>2, Induction
<1> QED BY <1>3 DEF S

\* The higher of two powers is an even multiple of the lower.
LEMMA EvenMultiple ==
  ASSUME NEW i \in Nat, NEW j \in Nat, i < j
  PROVE  \E m \in Nat \ {0} : BitValue[j] = BitValue[i] * (2 * m)
<1>1. PICK k \in Nat : j = i + (k + 1)
  <2>1. j - i - 1 \in Nat /\ j = i + ((j - i - 1) + 1)
    OBVIOUS
  <2> QED BY <2>1
<1>2. BitValue[j] = BitValue[k + 1] * BitValue[i] /\ BitValue[k + 1] = 2 * BitValue[k]
  <2>1. k + 1 \in Nat
    OBVIOUS
  <2>2. BitValue[i + (k + 1)] = BitValue[k + 1] * BitValue[i]
    BY <2>1, BitValuesDivide
  <2> QED BY <1>1, <2>2, BitValues
<1>3. PICK m \in Nat \ {0}, p \in Nat : m = BitValue[k] /\ p = BitValue[i]
  BY BitValues
<1>4. (2 * m) * p = p * (2 * m)
  OBVIOUS
<1> QED BY <1>2, <1>3, <1>4

\* A number with a bit not set has room for it.
LEMMA RoomForBit ==
  ASSUME NEW n \in Nat, NEW i \in 0..(n - 1), NEW b \in 0..(BitValue[n] - 1),
         (b \div BitValue[i]) % 2 = 0
  PROVE  b + BitValue[i] < BitValue[n]
<1>1. PICK m \in Nat \ {0} : BitValue[n] = BitValue[i] * (2 * m)
  BY EvenMultiple
<1>2. PICK p \in Nat \ {0} : p = BitValue[i]
  BY BitValues
<1>3. BitValue[n] \in Nat /\ b \in Nat /\ b < p * (2 * m)
  BY <1>1, <1>2, BitValues
<1>4. PICK q \in Nat, r \in 0..(p - 1) : q = b \div p /\ r = b % p /\ b = p * q + r
  BY <1>3, DivFacts
<1>5. PICK u \in Nat : q = 2 * u
  <2>1. q % 2 = 0
    BY <1>2, <1>4
  <2>2. PICK v \in Nat, w \in 0..1 : v = q \div 2 /\ w = q % 2 /\ q = 2 * v + w
    BY DivFacts
  <2> QED BY <2>1, <2>2
<1>6. u < m
  <2>1. SUFFICES ASSUME ~(u < m) PROVE FALSE
    OBVIOUS
  <2>2. PICK e \in Nat : u = m + e
    <3>1. u - m \in Nat /\ u = m + (u - m)
      BY <2>1
    <3> QED BY <3>1
  <2>3. p * (2 * (m + e)) = p * (2 * m) + p * (2 * e) /\ p * (2 * m) \in Nat /\ p * (2 * e) \in Nat
    OBVIOUS
  <2> QED BY <1>3, <1>4, <1>5, <2>2, <2>3
<1>7. PICK e \in Nat : m = u + 1 + e
  <2>1. m - u - 1 \in Nat /\ m = u + 1 + (m - u - 1)
    BY <1>6
  <2> QED BY <2>1
<1>8. /\ p * (2 * (u + 1 + e)) = p * (2 * u) + 2 * p + p * (2 * e)
      /\ p * (2 * u) \in Nat /\ p * (2 * e) \in Nat
  OBVIOUS
<1> QED BY <1>1, <1>2, <1>4, <1>5, <1>7, <1>8

\* Adding the value of a bit that is not set sets it, and no other.
LEMMA SettingABit ==
  ASSUME NEW n \in Nat, NEW i \in 0..(n - 1), NEW b \in 0..(BitValue[n] - 1),
         (b \div BitValue[i]) % 2 = 0
  PROVE  /\ b + BitValue[i] \in 0..(BitValue[n] - 1)
         /\ ((b + BitValue[i]) \div BitValue[i]) % 2 = 1
         /\ \A j \in 0..(n - 1) : j # i =>
               ((b + BitValue[i]) \div BitValue[j]) % 2 = (b \div BitValue[j]) % 2
<1>1. PICK p \in Nat \ {0} : p = BitValue[i]
  BY BitValues
<1>2. b \in Nat /\ BitValue[n] \in Nat
  BY BitValues
<1>3. b + p \in 0..(BitValue[n] - 1)
  BY <1>1, <1>2, RoomForBit
<1>4. PICK q \in Nat, r \in 0..(p - 1) : q = b \div p /\ r = b % p /\ b = p * q + r
  BY <1>2, DivFacts
<1>5. ((b + p) \div p) % 2 = 1
  <2>1. b + p = p * (q + 1) + r
    <3>1. p * (q + 1) = p * q + p /\ p * q \in Nat
      OBVIOUS
    <3> QED BY <1>4, <3>1
  <2>2. (b + p) \div p = q + 1
    BY <2>1, DivUnique
  <2>3. q % 2 = 0
    BY <1>1, <1>4
  <2>4. (q + 1) % 2 = 1
    BY <2>3
  <2> QED BY <2>2, <2>4
<1>6. ASSUME NEW j \in 0..(n - 1), j # i
      PROVE  ((b + p) \div BitValue[j]) % 2 = (b \div BitValue[j]) % 2
  <2>1. PICK d \in Nat \ {0} : d = BitValue[j]
    BY BitValues
  <2>2. CASE j < i
    <3>1. PICK m \in Nat \ {0} : p = d * (2 * m)
      BY <1>1, <2>1, <2>2, EvenMultiple
    <3>2. PICK a \in Nat, s \in 0..(d - 1) : a = b \div d /\ s = b % d /\ b = d * a + s
      BY <1>2, DivFacts
    <3>3. b + p = d * (a + 2 * m) + s
      <4>1. d * (a + 2 * m) = d * a + d * (2 * m) /\ d * a \in Nat /\ d * (2 * m) \in Nat
        OBVIOUS
      <4> QED BY <3>1, <3>2, <4>1
    <3>4. (b + p) \div d = a + 2 * m
      <4>1. a + 2 * m \in Nat
        OBVIOUS
      <4> QED BY <3>3, <4>1, DivUnique
    <3>5. (a + 2 * m) % 2 = a % 2
      OBVIOUS
    <3> QED BY <2>1, <3>2, <3>4, <3>5
  <2>3. CASE i < j
    <3>1. PICK m \in Nat \ {0} : d = p * (2 * m)
      BY <1>1, <2>1, <2>3, EvenMultiple
    <3>2. PICK a \in Nat, s \in 0..(d - 1) : a = b \div d /\ s = b % d /\ b = d * a + s
      BY <1>2, DivFacts
    <3>3. s \in Nat
      OBVIOUS
    <3>4. PICK v \in Nat, w \in 0..(p - 1) : v = s \div p /\ w = s % p /\ s = p * v + w
      BY <3>3, DivFacts
    <3>5. b = p * (2 * (m * a) + v) + w
      <4>1. p * (2 * (m * a) + v) = (p * (2 * m)) * a + p * v
        OBVIOUS
      <4>2. PICK x \in Nat, y \in Nat : x = d * a /\ y = p * v
        OBVIOUS
      <4>3. p * (2 * (m * a) + v) = x + y
        BY <3>1, <4>1, <4>2
      <4>4. b = x + (y + w)
        BY <3>2, <3>4, <4>2
      <4> QED BY <4>2, <4>3, <4>4
    <3>6. b \div p = 2 * (m * a) + v
      <4>1. 2 * (m * a) + v \in Nat
        <5>1. m * a \in Nat
          OBVIOUS
        <5> QED BY <5>1
      <4> QED BY <3>5, <4>1, DivUnique
    <3>7. v % 2 = 0
      <4>1. PICK c \in Nat : c = m * a
        OBVIOUS
      <4>2. (2 * c + v) % 2 = 0
        BY <1>1, <3>6, <4>1
      <4> QED BY <4>2
    <3>8. s + p < d
      <4>1. j \in Nat /\ i \in 0..(j - 1) /\ s \in 0..(BitValue[j] - 1)
        BY <2>1, <2>3
      <4>2. (s \div BitValue[i]) % 2 = 0
        BY <1>1, <3>4, <3>7
      <4> QED BY <1>1, <2>1, <4>1, <4>2, RoomForBit
    <3>9. s + p \in 0..(d - 1) /\ b + p = d * a + (s + p)
      <4>1. d * a \in Nat
        OBVIOUS
      <4> QED BY <3>2, <3>8, <4>1
    <3>10. (b + p) \div d = a
      BY <3>9, DivUnique
    <3> QED BY <2>1, <3>2, <3>10
  <2> QED BY <2>2, <2>3, <1>6
<1> QED BY <1>1, <1>3, <1>5, <1>6

-----------------------------------------------------------------------------
(* Bitmaps.                                                                *)

\* The bitmaps of a size, the pixels their bytes have room for, and those of the panel.
Bitmaps(w, h) == [width : {w}, height : {h}, stride : {StrideFor(w)},
                  bits : [1..(StrideFor(w) * h) -> Byte]]
Room(w, h)  == (0..(StrideFor(w) * Bits - 1)) \X (0..(h - 1))
Pixels(w, h) == (0..(w - 1)) \X (0..(h - 1))

\* The pixels that are lit, in the padding too.
Shining(bmp) == {at \in Room(bmp.width, bmp.height) : Lit(bmp.bits, bmp.stride, at[1], at[2])}

\* A row of bytes has room for a row of pixels.
LEMMA StrideFacts ==
  ASSUME NEW w \in Nat
  PROVE  StrideFor(w) \in Nat /\ w <= StrideFor(w) * Bits /\ StrideFor(w) * Bits \in Nat
<1>1. Bits \in Nat \ {0}
  BY PanelAssumption
<1>2. PICK n \in Nat : n = w + Bits - 1
  BY <1>1
<1>3. PICK q \in Nat, r \in 0..(Bits - 1) : q = n \div Bits /\ r = n % Bits /\ n = Bits * q + r
  BY <1>1, DivFacts
<1>4. StrideFor(w) = q
  BY <1>2, <1>3 DEF StrideFor
<1>5. Bits * q = q * Bits /\ q * Bits \in Nat
  BY <1>1
<1> QED BY <1>1, <1>2, <1>3, <1>4, <1>5

\* The byte and the bit of a pixel.
LEMMA PixelHasPlace ==
  ASSUME NEW w \in Nat, NEW h \in Nat, NEW at \in Room(w, h)
  PROVE  /\ ByteAt(StrideFor(w), at[1], at[2]) \in 1..(StrideFor(w) * h)
         /\ \E i \in 0..(Bits - 1) : i = Bits - 1 - (at[1] % Bits) /\ Mask(at[1]) = BitValue[i]
<1>1. Bits \in Nat \ {0}
  BY PanelAssumption
<1>2. PICK s \in Nat : s = StrideFor(w) /\ s * Bits \in Nat
  BY StrideFacts
<1>3. PICK x \in Nat, y \in Nat : x = at[1] /\ y = at[2] /\ x < s * Bits /\ y < h
  BY <1>2 DEF Room
<1>4. PICK q \in Nat, r \in 0..(Bits - 1) : q = x \div Bits /\ r = x % Bits /\ x = Bits * q + r
  BY <1>1, DivFacts
<1>5. q < s
  <2>1. SUFFICES ASSUME ~(q < s) PROVE FALSE
    OBVIOUS
  <2>2. PICK e \in Nat : q = s + e
    <3>1. q - s \in Nat /\ q = s + (q - s)
      BY <2>1
    <3> QED BY <3>1
  <2>3. Bits * (s + e) = s * Bits + Bits * e /\ Bits * e \in Nat
    BY <1>1
  <2> QED BY <1>2, <1>3, <1>4, <2>2, <2>3
<1>6. y * s + q + 1 \in 1..(s * h)
  <2>1. PICK e \in Nat : h = y + 1 + e
    <3>1. h - y - 1 \in Nat /\ h = y + 1 + (h - y - 1)
      BY <1>3
    <3> QED BY <3>1
  <2>2. s * (y + 1 + e) = y * s + s + s * e /\ s * e \in Nat /\ y * s \in Nat
    OBVIOUS
  <2> QED BY <1>5, <2>1, <2>2
<1>7. ByteAt(s, x, y) = y * s + q + 1
  BY <1>4 DEF ByteAt
<1>8. PICK i \in 0..(Bits - 1) : i = Bits - 1 - (x % Bits)
  BY <1>1, <1>4
<1> QED BY <1>2, <1>3, <1>6, <1>7, <1>8 DEF Mask

\* No two pixels have the same.
LEMMA PlacesOfPixelsDiffer ==
  ASSUME NEW w \in Nat, NEW h \in Nat, NEW at \in Room(w, h), NEW to \in Room(w, h),
         ByteAt(StrideFor(w), at[1], at[2]) = ByteAt(StrideFor(w), to[1], to[2]),
         at[1] % Bits = to[1] % Bits
  PROVE  at = to
<1>1. Bits \in Nat \ {0}
  BY PanelAssumption
<1>2. PICK s \in Nat : s = StrideFor(w) /\ s * Bits \in Nat
  BY StrideFacts
<1>3. PICK x \in Nat, y \in Nat : x = at[1] /\ y = at[2] /\ at = <<x, y>> /\ x < s * Bits /\ y < h
  BY <1>2 DEF Room
<1>4. PICK v \in Nat, z \in Nat : v = to[1] /\ z = to[2] /\ to = <<v, z>> /\ v < s * Bits /\ z < h
  BY <1>2 DEF Room
<1>5. ASSUME NEW c \in Nat, c < s * Bits
      PROVE  \E q \in 0..(s - 1), r \in 0..(Bits - 1) :
                q = c \div Bits /\ r = c % Bits /\ c = Bits * q + r
  <2>1. PICK q \in Nat, r \in 0..(Bits - 1) : q = c \div Bits /\ r = c % Bits /\ c = Bits * q + r
    BY <1>1, DivFacts
  <2>2. q < s
    <3>1. SUFFICES ASSUME ~(q < s) PROVE FALSE
      OBVIOUS
    <3>2. PICK e \in Nat : q = s + e
      <4>1. q - s \in Nat /\ q = s + (q - s)
        BY <3>1
      <4> QED BY <4>1
    <3>3. Bits * (s + e) = s * Bits + Bits * e /\ Bits * e \in Nat
      BY <1>1
    <3> QED BY <1>2, <1>5, <2>1, <3>2, <3>3
  <2> QED BY <2>1, <2>2
<1>6. PICK q \in 0..(s - 1), r \in 0..(Bits - 1) :
         q = x \div Bits /\ r = x % Bits /\ x = Bits * q + r
  BY <1>3, <1>5
<1>7. PICK p \in 0..(s - 1), t \in 0..(Bits - 1) :
         p = v \div Bits /\ t = v % Bits /\ v = Bits * p + t
  BY <1>4, <1>5
<1>8. r = t /\ y * s + q + 1 = z * s + p + 1
  BY <1>2, <1>3, <1>4, <1>6, <1>7 DEF ByteAt
<1>9. s \in Nat \ {0}
  BY <1>6
<1>10. s * y + q = s * z + p
  <2>1. PICK a \in Nat, b \in Nat : a = y * s /\ b = z * s
    OBVIOUS
  <2>2. s * y = y * s /\ s * z = z * s
    OBVIOUS
  <2> QED BY <1>8, <2>1, <2>2
<1>11. q = p
  BY <1>9, <1>10, ModUnique
<1>12. y = z
  BY <1>9, <1>10, DivUnique
<1> QED BY <1>3, <1>4, <1>6, <1>7, <1>8, <1>11, <1>12

\* SetPixel lights a pixel of the panel and no other.
LEMMA SetPixelLights ==
  ASSUME NEW w \in Nat, NEW h \in Nat, NEW bmp \in Bitmaps(w, h), NEW x \in Int, NEW y \in Int
  PROVE  /\ SetPixel(bmp, x, y) \in Bitmaps(w, h)
         /\ Shining(SetPixel(bmp, x, y)) = Shining(bmp) \cup ({<<x, y>>} \cap Pixels(w, h))
<1>1. /\ bmp.width = w /\ bmp.height = h /\ bmp.stride = StrideFor(w)
      /\ bmp.bits \in [1..(StrideFor(w) * h) -> Byte]
  BY DEF Bitmaps
<1>2. OnPanel(bmp, x, y) <=> <<x, y>> \in Pixels(w, h)
  BY <1>1 DEF OnPanel, Pixels
<1>3. Pixels(w, h) \subseteq Room(w, h)
  <2>1. PICK top \in Nat : top = StrideFor(w) * Bits /\ w <= top
    BY StrideFacts
  <2> QED BY <2>1 DEF Pixels, Room
<1>4. CASE ~OnPanel(bmp, x, y)
  BY <1>2, <1>4 DEF SetPixel
<1>5. CASE OnPanel(bmp, x, y) /\ Lit(bmp.bits, bmp.stride, x, y)
  <2>1. <<x, y>> \in Shining(bmp)
    BY <1>1, <1>2, <1>3, <1>5 DEF Shining
  <2>2. SetPixel(bmp, x, y) = bmp
    BY <1>5 DEF SetPixel
  <2> QED BY <2>1, <2>2
<1>6. CASE OnPanel(bmp, x, y) /\ ~Lit(bmp.bits, bmp.stride, x, y)
  <2> DEFINE here == <<x, y>>
  <2>1. here \in Room(w, h) /\ here[1] = x /\ here[2] = y /\ here \in Pixels(w, h)
    BY <1>2, <1>3, <1>6
  <2> HIDE DEF here
  <2>2. PICK k \in 1..(StrideFor(w) * h) : k = ByteAt(StrideFor(w), x, y)
    BY <2>1, PixelHasPlace
  <2>3. PICK i \in 0..(Bits - 1) : i = Bits - 1 - (x % Bits) /\ Mask(x) = BitValue[i]
    BY <2>1, PixelHasPlace
  <2>4. PICK bits : bits = bmp.bits /\ bits \in [1..(StrideFor(w) * h) -> Byte]
    BY <1>1
  <2> DEFINE more == [bits EXCEPT ![k] = bits[k] + BitValue[i]]
  <2>5. SetPixel(bmp, x, y) = [bmp EXCEPT !.bits = more]
    BY <1>1, <1>6, <2>2, <2>3, <2>4 DEF SetPixel
  <2>6. Bits \in Nat /\ BitValue[Bits] = B /\ bits[k] \in 0..(BitValue[Bits] - 1)
    BY <2>4, PanelAssumption DEF Byte
  <2>7. (bits[k] \div BitValue[i]) % 2 = 0
    <3>1. (bits[k] \div BitValue[i]) % 2 # 1
      BY <1>1, <1>6, <2>2, <2>3, <2>4 DEF Lit
    <3>2. PICK q \in Nat : q = bits[k] \div BitValue[i]
      <4>1. bits[k] \in Nat /\ BitValue[i] \in Nat \ {0}
        BY <2>6, BitValues
      <4> QED BY <4>1, DivFacts
    <3> QED BY <3>1, <3>2
  <2>8. /\ bits[k] + BitValue[i] \in Byte
        /\ ((bits[k] + BitValue[i]) \div BitValue[i]) % 2 = 1
        /\ \A j \in 0..(Bits - 1) : j # i =>
              ((bits[k] + BitValue[i]) \div BitValue[j]) % 2 = (bits[k] \div BitValue[j]) % 2
    <3>1. /\ bits[k] + BitValue[i] \in 0..(BitValue[Bits] - 1)
          /\ ((bits[k] + BitValue[i]) \div BitValue[i]) % 2 = 1
          /\ \A j \in 0..(Bits - 1) : j # i =>
                ((bits[k] + BitValue[i]) \div BitValue[j]) % 2 = (bits[k] \div BitValue[j]) % 2
      BY <2>6, <2>7, SettingABit
    <3> QED BY <2>6, <3>1 DEF Byte
  <2>9. /\ more \in [1..(StrideFor(w) * h) -> Byte] /\ more[k] = bits[k] + BitValue[i]
        /\ \A m \in 1..(StrideFor(w) * h) : m # k => more[m] = bits[m]
    BY <2>4, <2>8
  <2> HIDE DEF more
  <2>10. /\ SetPixel(bmp, x, y) \in Bitmaps(w, h) /\ SetPixel(bmp, x, y).bits = more
         /\ SetPixel(bmp, x, y).width = w /\ SetPixel(bmp, x, y).height = h
         /\ SetPixel(bmp, x, y).stride = StrideFor(w)
    BY <2>5, <2>9 DEF Bitmaps
  <2>11. ASSUME NEW at \in Room(w, h)
         PROVE  Lit(more, StrideFor(w), at[1], at[2])
                  <=> Lit(bits, StrideFor(w), at[1], at[2]) \/ at = here
    <3>1. PICK m \in 1..(StrideFor(w) * h) : m = ByteAt(StrideFor(w), at[1], at[2])
      BY PixelHasPlace
    <3>2. PICK j \in 0..(Bits - 1) : j = Bits - 1 - (at[1] % Bits) /\ Mask(at[1]) = BitValue[j]
      BY PixelHasPlace
    <3>3. /\ Lit(more, StrideFor(w), at[1], at[2]) <=> (more[m] \div BitValue[j]) % 2 = 1
          /\ Lit(bits, StrideFor(w), at[1], at[2]) <=> (bits[m] \div BitValue[j]) % 2 = 1
      BY <3>1, <3>2 DEF Lit
    <3>4. CASE at = here
      <4>1. m = k /\ j = i
        BY <2>1, <2>2, <2>3, <3>1, <3>2, <3>4
      <4> QED BY <2>8, <2>9, <3>3, <3>4, <4>1
    <3>5. CASE at # here /\ m # k
      BY <2>9, <3>3, <3>5
    <3>6. CASE at # here /\ m = k
      <4>1. at[1] % Bits # x % Bits
        BY <2>1, <2>2, <3>1, <3>6, PlacesOfPixelsDiffer
      <4>2. j # i
        <5>1. PICK a \in Int, b \in Int : a = at[1] % Bits /\ b = x % Bits
          <6>1. Bits \in Nat \ {0} /\ at[1] \in Int
            BY PanelAssumption DEF Room
          <6> QED BY <6>1
        <5> QED BY <2>3, <2>6, <3>2, <4>1, <5>1
      <4> QED BY <2>8, <2>9, <3>3, <3>6, <4>2
    <3> QED BY <3>4, <3>5, <3>6
  <2>12. /\ Shining(SetPixel(bmp, x, y))
              = {at \in Room(w, h) : Lit(more, StrideFor(w), at[1], at[2])}
         /\ Shining(bmp) = {at \in Room(w, h) : Lit(bits, StrideFor(w), at[1], at[2])}
    BY <1>1, <2>4, <2>10 DEF Shining
  <2>13. Shining(SetPixel(bmp, x, y)) = Shining(bmp) \cup {here}
    BY <2>1, <2>11, <2>12
  <2> QED BY <2>1, <2>10, <2>13 DEF here
<1> QED BY <1>4, <1>5, <1>6

\* A new bitmap is dark.
LEMMA NewIsDark ==
  ASSUME NEW w \in Nat, NEW h \in Nat
  PROVE  NewBitmap(w, h) \in Bitmaps(w, h) /\ Shining(NewBitmap(w, h)) = {}
<1> DEFINE bits == [i \in 1..(StrideFor(w) * h) |-> 0]
<1>1. /\ NewBitmap(w, h).width = w /\ NewBitmap(w, h).height = h
      /\ NewBitmap(w, h).stride = StrideFor(w) /\ NewBitmap(w, h).bits = bits
  BY DEF NewBitmap
<1>2. bits \in [1..(StrideFor(w) * h) -> Byte]
  <2>1. 0 \in Byte
    BY ByteAssumption DEF Byte
  <2> QED BY <2>1
<1>3. NewBitmap(w, h) \in Bitmaps(w, h)
  BY <1>2 DEF NewBitmap, Bitmaps
<1>4. ASSUME NEW at \in Room(w, h) PROVE ~Lit(bits, StrideFor(w), at[1], at[2])
  <2>1. PICK k \in 1..(StrideFor(w) * h) : k = ByteAt(StrideFor(w), at[1], at[2])
    BY PixelHasPlace
  <2>2. PICK p \in Nat \ {0} : p = Mask(at[1])
    <3>1. PICK i \in 0..(Bits - 1) : Mask(at[1]) = BitValue[i]
      BY PixelHasPlace
    <3>2. i \in Nat
      BY PanelAssumption
    <3> QED BY <3>1, <3>2, BitValues
  <2>3. bits[k] = 0
    OBVIOUS
  <2>4. 0 \div p = 0
    <3>1. (p * 0 + 0) \div p = 0
      BY DivUnique
    <3> QED BY <3>1
  <2> HIDE DEF bits
  <2> QED BY <2>1, <2>2, <2>3, <2>4 DEF Lit
<1> HIDE DEF bits
<1> QED BY <1>1, <1>3, <1>4 DEF Shining

-----------------------------------------------------------------------------
(* Glyphs.                                                                 *)

\* The cells of a glyph, and where they come to lie.
Grid == (0..(CELL_WIDTH - 1)) \X (0..(CELL_HEIGHT - 1))
Placed(cells, ox, oy) == {<<ox + cell[1], oy + cell[2]>> : cell \in cells}

\* The lit ones of the first k.
Inked(ch, k) == {Cell(i) : i \in {m \in 1..k : Cell(m) \in Ink(ch)}}

\* Cells are counted in numbers.
LEMMA CellsAreNumbers ==
  ASSUME NEW k \in Nat \ {0}
  PROVE  Cell(k)[1] \in Nat /\ Cell(k)[2] \in Nat
<1>1. k - 1 \in Nat /\ CELL_WIDTH \in Nat \ {0}
  BY PanelAssumption
<1>2. PICK q \in Nat, r \in 0..(CELL_WIDTH - 1) :
         q = (k - 1) \div CELL_WIDTH /\ r = (k - 1) % CELL_WIDTH /\ k - 1 = CELL_WIDTH * q + r
  BY <1>1, DivFacts
<1>3. r \in Nat
  BY <1>1
<1> QED BY <1>2, <1>3 DEF Cell

\* Every cell is visited.
LEMMA EveryCell ==
  ASSUME NEW ch
  PROVE  Inked(ch, CELL_WIDTH * CELL_HEIGHT) = Ink(ch) /\ Inked(ch, 0) = {}
<1>1. PICK w \in Nat \ {0}, h \in Nat \ {0} : w = CELL_WIDTH /\ h = CELL_HEIGHT
  BY PanelAssumption
<1>2. ASSUME NEW cell \in Ink(ch) PROVE cell \in Inked(ch, w * h)
  <2>1. PICK x \in 0..(w - 1), y \in 0..(h - 1) : cell = <<x, y>>
    BY <1>1 DEF Ink
  <2>2. PICK k \in Nat : k = w * y + x
    <3>1. w * y \in Nat
      OBVIOUS
    <3>2. w * y + x \in Nat
      BY <3>1
    <3> QED BY <3>2
  <2>3. k \div w = y /\ k % w = x
    BY <2>2, DivUnique, ModUnique
  <2>4. k + 1 \in 1..(w * h) /\ (k + 1) - 1 = k
    <3>1. PICK e \in Nat : h = y + 1 + e
      <4>1. h - y - 1 \in Nat /\ h = y + 1 + (h - y - 1)
        OBVIOUS
      <4> QED BY <4>1
    <3>2. w * (y + 1 + e) = w * y + w + w * e /\ w * y \in Nat /\ w * e \in Nat
      OBVIOUS
    <3> QED BY <2>2, <3>1, <3>2
  <2>5. Cell(k + 1) = cell
    BY <1>1, <2>1, <2>3, <2>4 DEF Cell
  <2> QED BY <2>4, <2>5 DEF Inked
<1>3. Inked(ch, w * h) \subseteq Ink(ch) /\ Inked(ch, 0) = {}
  BY DEF Inked
<1> QED BY <1>1, <1>2, <1>3

\* A glyph lights its cells, as far as they are on the panel.
LEMMA BlitLights ==
  ASSUME NEW w \in Nat, NEW h \in Nat, NEW bmp \in Bitmaps(w, h), NEW ch,
         NEW ox \in Int, NEW oy \in Int
  PROVE  /\ BlitChar(bmp, ch, ox, oy) \in Bitmaps(w, h)
         /\ Shining(BlitChar(bmp, ch, ox, oy))
              = Shining(bmp) \cup (Placed(Ink(ch), ox, oy) \cap Pixels(w, h))
<1> DEFINE n == CELL_WIDTH * CELL_HEIGHT
<1> DEFINE V == Bitmaps(w, h)
<1> DEFINE Visit(k, b) == IF Cell(k) \in Ink(ch) THEN SetPixel(b, ox + Cell(k)[1], oy + Cell(k)[2])
                           ELSE b
<1> DEFINE Rec(f) == f = [k \in 0..n |-> IF k = 0 THEN bmp ELSE Visit(k, f[k - 1])]
<1> DEFINE step == [a \in (1..n) \X V |-> Visit(a[1], a[2])]
<1>1. n \in Nat
  BY PanelAssumption
<1>2. ASSUME NEW k \in Nat \ {0}, NEW b \in V
      PROVE  /\ Visit(k, b) \in V
             /\ Shining(Visit(k, b)) = Shining(b) \cup
                   ((IF Cell(k) \in Ink(ch) THEN Placed({Cell(k)}, ox, oy) ELSE {}) \cap Pixels(w, h))
  <2>1. PICK x \in Int, y \in Int : x = ox + Cell(k)[1] /\ y = oy + Cell(k)[2]
    BY CellsAreNumbers
  <2>2. SetPixel(b, x, y) \in V
        /\ Shining(SetPixel(b, x, y)) = Shining(b) \cup ({<<x, y>>} \cap Pixels(w, h))
    BY SetPixelLights
  <2>3. Placed({Cell(k)}, ox, oy) = {<<x, y>>}
    BY <2>1 DEF Placed
  <2>4. CASE Cell(k) \in Ink(ch)
    BY <2>1, <2>2, <2>3, <2>4
  <2>5. CASE Cell(k) \notin Ink(ch)
    BY <2>5
  <2> QED BY <2>4, <2>5
<1> HIDE DEF Visit, V
<1>3. step \in [(1..n) \X V -> V]
  <2>1. ASSUME NEW a \in (1..n) \X V PROVE Visit(a[1], a[2]) \in V
    <3>1. a[1] \in Nat \ {0} /\ a[2] \in V
      BY <1>1
    <3> QED BY <3>1, <1>2
  <2> QED BY <2>1
<1>4. bmp \in V
  BY DEF V
<1> HIDE DEF n
<1>5. PICK f : Recursive(f, n, V, bmp, step)
  <2> HIDE DEF step
  <2> QED BY <1>1, <1>3, <1>4, RecursionExists
<1>6. Rec(f)
  <2>1. f \in [0..n -> V] /\ f[0] = bmp
    BY <1>5 DEF Recursive
  <2>2. ASSUME NEW k \in 1..n PROVE f[k] = Visit(k, f[k - 1])
    <3>1. k - 1 \in 0..n
      BY <1>1
    <3>2. step[<<k, f[k - 1]>>] = Visit(k, f[k - 1])
      BY <2>1, <3>1
    <3> HIDE DEF step
    <3> QED BY <3>2, <1>5 DEF Recursive
  <2>3. \A k \in 0..n : f[k] = IF k = 0 THEN bmp ELSE Visit(k, f[k - 1])
    BY <1>1, <2>1, <2>2
  <2> QED BY <2>1, <2>3
<1>7. PICK g : Rec(g) /\ BlitChar(bmp, ch, ox, oy) = g[n]
  <2> DEFINE g == CHOOSE r : Rec(r)
  <2>1. Rec(g)
    BY <1>6
  <2>2. BlitChar(bmp, ch, ox, oy) = g[n]
    BY DEF BlitChar, n, Visit
  <2> HIDE DEF g
  <2> QED BY <2>1, <2>2
<1>8. g[0] = bmp /\ \A k \in 1..n : g[k] = Visit(k, g[k - 1])
  <2>1. \A k \in 0..n : g[k] = IF k = 0 THEN bmp ELSE Visit(k, g[k - 1])
    BY <1>7
  <2> QED BY <1>1, <2>1
<1> DEFINE S == {k \in Nat : k <= n =>
                    /\ g[k] \in V
                    /\ Shining(g[k]) = Shining(bmp) \cup (Placed(Inked(ch, k), ox, oy) \cap Pixels(w, h))}
<1>9. 0 \in S
  <2>1. Placed(Inked(ch, 0), ox, oy) = {}
    BY EveryCell DEF Placed
  <2> QED BY <1>4, <1>8, <2>1
<1>10. ASSUME NEW k \in Nat, k \in S PROVE k + 1 \in S
  <2> SUFFICES ASSUME k + 1 <= n
               PROVE  /\ g[k + 1] \in V
                      /\ Shining(g[k + 1]) = Shining(bmp)
                            \cup (Placed(Inked(ch, k + 1), ox, oy) \cap Pixels(w, h))
    OBVIOUS
  <2>1. k + 1 \in 1..n /\ (k + 1) - 1 = k /\ k <= n
    BY <1>1
  <2>2. /\ g[k] \in V
        /\ Shining(g[k]) = Shining(bmp) \cup (Placed(Inked(ch, k), ox, oy) \cap Pixels(w, h))
    BY <1>10, <2>1
  <2>3. g[k + 1] = Visit(k + 1, g[k])
    BY <1>8, <2>1
  <2>4. Inked(ch, k + 1) = Inked(ch, k) \cup (IF Cell(k + 1) \in Ink(ch) THEN {Cell(k + 1)} ELSE {})
    <3>1. 1..(k + 1) = 1..k \cup {k + 1}
      OBVIOUS
    <3> QED BY <3>1 DEF Inked
  <2>5. Placed(Inked(ch, k + 1), ox, oy) = Placed(Inked(ch, k), ox, oy)
           \cup (IF Cell(k + 1) \in Ink(ch) THEN Placed({Cell(k + 1)}, ox, oy) ELSE {})
    BY <2>4 DEF Placed
  <2>6. k + 1 \in Nat \ {0}
    OBVIOUS
  <2>7. /\ Visit(k + 1, g[k]) \in V
        /\ Shining(Visit(k + 1, g[k])) = Shining(g[k]) \cup
              ((IF Cell(k + 1) \in Ink(ch) THEN Placed({Cell(k + 1)}, ox, oy) ELSE {}) \cap Pixels(w, h))
    BY <1>2, <2>2, <2>6
  <2> QED BY <2>2, <2>3, <2>5, <2>7
<1> HIDE DEF S
<1>11. n \in S
  BY <1>1, <1>9, <1>10, Induction
<1>12. g[n] \in V
       /\ Shining(g[n]) = Shining(bmp) \cup (Placed(Inked(ch, n), ox, oy) \cap Pixels(w, h))
  BY <1>1, <1>11 DEF S
<1> QED BY <1>7, <1>12, EveryCell DEF n, V

-----------------------------------------------------------------------------
(* Texts.                                                                  *)

\* Numbers of an i32 stay what they are.
LEMMA WithinI32 ==
  ASSUME NEW n \in Int
  PROVE  AsI32(n) \in Int /\ (n \in (-I31)..(I31 - 1) => AsI32(n) = n)
<1>1. PICK d \in Nat : d = I31
  BY PanelAssumption
<1>2. d \in Nat \ {0}
  <2>1. Power[N16] \in Nat \ {0} /\ Power[N16] <= d
    BY <1>1, ByteAssumption, PowerSteps, PanelAssumption
  <2> QED BY <2>1
<1>3. 2 * d \in Nat \ {0}
  BY <1>2
<1>4. (n + d) % (2 * d) \in Int
  BY <1>3
<1>5. ASSUME n \in (-d)..(d - 1) PROVE (n + d) % (2 * d) = n + d
  <2>1. n + d \in 0..(2 * d - 1)
    BY <1>2, <1>5
  <2>2. ((2 * d) * 0 + (n + d)) % (2 * d) = n + d
    BY <1>3, <2>1, ModUnique
  <2>3. (2 * d) * 0 + (n + d) = n + d
    OBVIOUS
  <2> QED BY <2>2, <2>3
<1> QED BY <1>1, <1>4, <1>5 DEF AsI32

\* The row a text begins at is a number.
LEMMA TopRowIsNumber ==
  ASSUME NEW t, IsText(t)
  PROVE  TopRow(t.height, t.layout) \in Int
<1>1. t.height \in Int /\ t.layout.y_offset \in Int /\ CELL_HEIGHT \in Int
  BY PanelAssumption DEF IsText, Centred
<1>2. \A n \in Int : Half(n) \in Int
  BY DEF Half
<1>3. AsI32(t.height) \in Int /\ AsI32(t.layout.y_offset) \in Int
  BY <1>1, WithinI32
<1>4. AsI32(t.height) - CELL_HEIGHT \in Int
  BY <1>1, <1>3
<1> QED BY <1>2, <1>3, <1>4 DEF TopRow

\* A text is drawn character by character.
LEMMA RenderSteps ==
  ASSUME NEW t, IsText(t)
  PROVE  \E g : /\ g[0] = [bmp |-> NewBitmap(t.width, t.height), ox |-> AsI32(t.layout.x_offset)]
                /\ \A k \in 1..Len(t.text) :
                      g[k] = Draw(g[k - 1], t.text[k], TopRow(t.height, t.layout), t.layout)
                /\ \A k \in 0..Len(t.text) :
                      g[k].bmp \in Bitmaps(t.width, t.height) /\ g[k].ox \in Int
                /\ Render(t.text, t.width, t.height, t.layout) = g[Len(t.text)].bmp
<1> DEFINE n == Len(t.text)
<1> DEFINE V == [bmp : Bitmaps(t.width, t.height), ox : Int]
<1> DEFINE oy == TopRow(t.height, t.layout)
<1> DEFINE base == [bmp |-> NewBitmap(t.width, t.height), ox |-> AsI32(t.layout.x_offset)]
<1> DEFINE Rec(f) == f = [k \in 0..n |-> IF k = 0 THEN base ELSE Draw(f[k - 1], t.text[k], oy, t.layout)]
<1> DEFINE step == [a \in (1..n) \X V |-> Draw(a[2], t.text[a[1]], oy, t.layout)]
<1>1. /\ n \in Nat /\ t.width \in Nat /\ t.height \in Nat /\ oy \in Int
      /\ t.layout.x_offset \in Int /\ Advance(t.layout) \in Int
  <2>1. Advance(t.layout) \in Int
    BY PanelAssumption DEF IsText, Advance
  <2> QED BY <2>1, TopRowIsNumber DEF IsText
<1>2. base \in V
  BY <1>1, NewIsDark, WithinI32
<1>3. ASSUME NEW d \in V, NEW ch PROVE Draw(d, ch, oy, t.layout) \in V
  <2>1. d.bmp \in Bitmaps(t.width, t.height) /\ d.ox \in Int
    OBVIOUS
  <2>2. BlitChar(d.bmp, ch, d.ox, oy) \in Bitmaps(t.width, t.height)
    BY <1>1, <2>1, BlitLights
  <2>3. AsI32(d.ox + Advance(t.layout)) \in Int
    BY <1>1, <2>1, WithinI32
  <2> QED BY <2>2, <2>3 DEF Draw
<1> HIDE DEF base, oy
<1>4. step \in [(1..n) \X V -> V]
  BY <1>3
<1>5. PICK f : Recursive(f, n, V, base, step)
  <2> HIDE DEF step, V, n
  <2> QED BY <1>1, <1>2, <1>4, RecursionExists
<1> HIDE DEF n, V
<1>6. Rec(f)
  <2>1. f \in [0..n -> V] /\ f[0] = base
    BY <1>5 DEF Recursive
  <2>2. ASSUME NEW k \in 1..n PROVE f[k] = Draw(f[k - 1], t.text[k], oy, t.layout)
    <3>1. k - 1 \in 0..n
      BY <1>1
    <3>2. step[<<k, f[k - 1]>>] = Draw(f[k - 1], t.text[k], oy, t.layout)
      BY <2>1, <3>1
    <3> HIDE DEF step
    <3> QED BY <3>2, <1>5 DEF Recursive
  <2>3. \A k \in 0..n : f[k] = IF k = 0 THEN base ELSE Draw(f[k - 1], t.text[k], oy, t.layout)
    BY <1>1, <2>1, <2>2
  <2> QED BY <2>1, <2>3
<1>7. PICK g : Rec(g) /\ Render(t.text, t.width, t.height, t.layout) = g[n].bmp
  <2> DEFINE g == CHOOSE r : Rec(r)
  <2>1. Rec(g)
    BY <1>6
  <2>2. Render(t.text, t.width, t.height, t.layout) = g[n].bmp
    BY DEF Render, n, oy, base
  <2> HIDE DEF g
  <2> QED BY <2>1, <2>2
<1>8. g[0] = base /\ \A k \in 1..n : g[k] = Draw(g[k - 1], t.text[k], oy, t.layout)
  <2>1. \A k \in 0..n : g[k] = IF k = 0 THEN base ELSE Draw(g[k - 1], t.text[k], oy, t.layout)
    BY <1>7
  <2> QED BY <1>1, <2>1
<1> DEFINE S == {k \in Nat : k <= n => g[k] \in V}
<1>9. 0 \in S
  BY <1>2, <1>8
<1>10. ASSUME NEW k \in Nat, k \in S PROVE k + 1 \in S
  <2> SUFFICES ASSUME k + 1 <= n PROVE g[k + 1] \in V
    OBVIOUS
  <2>1. k + 1 \in 1..n /\ (k + 1) - 1 = k /\ k <= n
    BY <1>1
  <2>2. g[k] \in V
    BY <1>10, <2>1
  <2>3. g[k + 1] = Draw(g[k], t.text[k + 1], oy, t.layout)
    BY <1>8, <2>1
  <2> QED BY <1>3, <2>2, <2>3
<1> HIDE DEF S
<1>11. \A k \in 0..n : g[k] \in V
  <2>1. Nat \subseteq S
    BY <1>9, <1>10, Induction
  <2> QED BY <2>1 DEF S
<1>12. \A k \in 0..n : g[k].bmp \in Bitmaps(t.width, t.height) /\ g[k].ox \in Int
  BY <1>11 DEF V
<1> QED BY <1>7, <1>8, <1>12 DEF n, base, oy

\* The bytes of a panel.
LEMMA PayloadIsBytes ==
  ASSUME NEW t, IsText(t)
  PROVE  LET bmp == Render(t.text, t.width, t.height, t.layout) IN
         /\ bmp \in Bitmaps(t.width, t.height) /\ bmp.bits \in Seq(Byte)
         /\ ToPayload(bmp) \in Seq(Byte)
<1> DEFINE bmp == Render(t.text, t.width, t.height, t.layout)
<1>1. bmp \in Bitmaps(t.width, t.height)
  <2>1. Len(t.text) \in 0..Len(t.text)
    BY DEF IsText
  <2> QED BY <2>1, RenderSteps
<1> HIDE DEF bmp
<1>2. t.width \in Nat /\ t.height \in Nat /\ N16 \in Nat
  BY ByteAssumption DEF IsText
<1>3. bmp.width \in Nat /\ bmp.height \in Nat /\ bmp.bits \in Seq(Byte)
  <2>1. /\ bmp.width = t.width /\ bmp.height = t.height
        /\ bmp.bits \in [1..(StrideFor(t.width) * t.height) -> Byte]
    BY <1>1 DEF Bitmaps
  <2>2. PICK n \in Nat : n = StrideFor(t.width) * t.height
    <3>1. StrideFor(t.width) \in Nat
      BY <1>2, StrideFacts
    <3> QED BY <1>2, <3>1
  <2>3. bmp.bits \in [1..n -> Byte]
    BY <2>1, <2>2
  <2>4. bmp.bits \in Seq(Byte)
    BY <2>3
  <2> QED BY <1>2, <2>1, <2>4
<1>4. Le(bmp.width, N16) \in Seq(Byte) /\ Le(bmp.height, N16) \in Seq(Byte)
  BY <1>2, <1>3, LeFacts
<1>5. ToPayload(bmp) \in Seq(Byte)
  BY <1>3, <1>4 DEF ToPayload
<1> QED BY <1>1, <1>3, <1>5 DEF bmp

\* The column of character i, and what the first k of a text ask for.
ColumnOf(t, i) == t.layout.x_offset + (i - 1) * Advance(t.layout)
AskedBy(t, k, top) ==
  {at \in Pixels(t.width, t.height) :
     \E i \in 1..k : at \in Placed(Ink(t.text[i]), ColumnOf(t, i), top)}

\* No column is further to the right than the text is long.
LEMMA ColumnsWithin ==
  ASSUME NEW t, IsText(t), NEW i \in 1..Len(t.text)
  PROVE  /\ ColumnOf(t, i) \in Nat /\ ColumnOf(t, i) + CELL_WIDTH <= Measure(t.text, t.layout)
         /\ ColumnOf(t, i + 1) = ColumnOf(t, i) + Advance(t.layout)
         /\ Measure(t.text, t.layout) \in Nat
<1>1. PICK n \in Nat, x \in Nat, s \in Nat, w \in Nat \ {0} :
         n = Len(t.text) /\ x = t.layout.x_offset /\ s = t.layout.letter_spacing /\ w = CELL_WIDTH
  BY PanelAssumption DEF IsText
<1>2. PICK j \in Nat : j = i - 1 /\ i = j + 1
  BY <1>1
<1>3. PICK e \in Nat : n = j + 1 + e
  <2>1. n - j - 1 \in Nat /\ n = j + 1 + (n - j - 1)
    BY <1>1, <1>2
  <2> QED BY <2>1
<1>4. t.text # <<>>
  <2>1. n # 0
    BY <1>3
  <2>2. Len(<<>>) = 0
    OBVIOUS
  <2> QED BY <1>1, <2>1, <2>2
<1>5. Measure(t.text, t.layout) = x + n * w + (n - 1) * s
  BY <1>1, <1>4 DEF Measure
<1>6. n * w = j * w + w + e * w /\ (n - 1) * s = j * s + e * s
  BY <1>3
<1>7. j * w \in Nat /\ e * w \in Nat /\ j * s \in Nat /\ e * s \in Nat
  OBVIOUS
<1>8. j * (w + s) = j * w + j * s /\ (j + 1) * (w + s) = j * (w + s) + (w + s)
  OBVIOUS
<1>9. ColumnOf(t, i) = x + j * (w + s)
  BY <1>1, <1>2 DEF ColumnOf, Advance
<1>10. (i + 1) - 1 = j + 1
  BY <1>2
<1>11. ColumnOf(t, i + 1) = x + (j + 1) * (w + s) /\ Advance(t.layout) = w + s
  BY <1>1, <1>10 DEF ColumnOf, Advance
<1>12. ColumnOf(t, i) = x + j * w + j * s /\ ColumnOf(t, i) \in Nat
  BY <1>7, <1>8, <1>9
<1>13. Measure(t.text, t.layout) = x + j * w + w + e * w + j * s + e * s
  BY <1>5, <1>6, <1>7
<1>14. ColumnOf(t, i) + w <= Measure(t.text, t.layout) /\ Measure(t.text, t.layout) \in Nat
  <2>1. PICK a \in Nat, b \in Nat, c \in Nat, d \in Nat :
           a = j * w /\ b = e * w /\ c = j * s /\ d = e * s
    BY <1>7
  <2> QED BY <1>12, <1>13, <2>1
<1>15. ColumnOf(t, i + 1) = ColumnOf(t, i) + Advance(t.layout)
  <2>1. PICK a \in Nat : a = j * (w + s)
    OBVIOUS
  <2> QED BY <1>8, <1>9, <1>11, <2>1
<1> QED BY <1>1, <1>12, <1>14, <1>15

\* What a text lights is what it asks for, where its columns stay themselves as i32.
LEMMA RenderLights ==
  ASSUME NEW t, IsText(t), Measure(t.text, t.layout) < I31
  PROVE  Shining(Render(t.text, t.width, t.height, t.layout))
           = AskedBy(t, Len(t.text), TopRow(t.height, t.layout))
<1> DEFINE n == Len(t.text)
<1> DEFINE oy == TopRow(t.height, t.layout)
<1>1. PICK g : /\ g[0] = [bmp |-> NewBitmap(t.width, t.height), ox |-> AsI32(t.layout.x_offset)]
               /\ \A k \in 1..n : g[k] = Draw(g[k - 1], t.text[k], oy, t.layout)
               /\ \A k \in 0..n : g[k].bmp \in Bitmaps(t.width, t.height) /\ g[k].ox \in Int
               /\ Render(t.text, t.width, t.height, t.layout) = g[n].bmp
  BY RenderSteps
<1>2. /\ n \in Nat /\ oy \in Int /\ t.width \in Nat /\ t.height \in Nat
      /\ t.layout.x_offset \in Nat /\ I31 \in Nat
  BY TopRowIsNumber, PanelAssumption DEF IsText
<1> HIDE DEF n, oy
<1>3. ASSUME NEW k \in 1..n
      PROVE  /\ ColumnOf(t, k) \in Nat /\ AsI32(ColumnOf(t, k)) = ColumnOf(t, k)
             /\ ColumnOf(t, k + 1) = ColumnOf(t, k) + Advance(t.layout)
  <2>1. /\ ColumnOf(t, k) \in Nat /\ ColumnOf(t, k) + CELL_WIDTH <= Measure(t.text, t.layout)
        /\ ColumnOf(t, k + 1) = ColumnOf(t, k) + Advance(t.layout)
        /\ Measure(t.text, t.layout) \in Nat
    BY ColumnsWithin DEF n
  <2>2. CELL_WIDTH \in Nat
    BY PanelAssumption
  <2>3. ColumnOf(t, k) \in (-I31)..(I31 - 1) /\ ColumnOf(t, k) \in Int
    BY <1>2, <2>1, <2>2
  <2> QED BY <2>1, <2>3, WithinI32
<1> DEFINE S == {k \in Nat : k <= n => /\ k < n => g[k].ox = ColumnOf(t, k + 1)
                                       /\ Shining(g[k].bmp) = AskedBy(t, k, oy)}
<1>4. 0 \in S
  <2>1. g[0].bmp = NewBitmap(t.width, t.height) /\ g[0].ox = AsI32(t.layout.x_offset)
    BY <1>1
  <2>2. Shining(g[0].bmp) = {} /\ AskedBy(t, 0, oy) = {}
    BY <1>2, <2>1, NewIsDark DEF AskedBy
  <2>3. ASSUME 0 < n PROVE g[0].ox = ColumnOf(t, 0 + 1)
    <3>1. 1 \in 1..n /\ 0 + 1 = 1
      BY <1>2, <2>3
    <3>2. ColumnOf(t, 1) = t.layout.x_offset
      <4>1. PICK a \in Int : a = Advance(t.layout)
        BY PanelAssumption DEF Advance, IsText
      <4> QED BY <1>2, <4>1 DEF ColumnOf
    <3> QED BY <1>3, <2>1, <3>1, <3>2
  <2> QED BY <2>2, <2>3
<1>5. ASSUME NEW k \in Nat, k \in S PROVE k + 1 \in S
  <2> SUFFICES ASSUME k + 1 <= n
               PROVE  /\ k + 1 < n => g[k + 1].ox = ColumnOf(t, k + 1 + 1)
                      /\ Shining(g[k + 1].bmp) = AskedBy(t, k + 1, oy)
    OBVIOUS
  <2>1. k + 1 \in 1..n /\ (k + 1) - 1 = k /\ k < n /\ k <= n /\ k \in 0..n
    BY <1>2
  <2>2. g[k].ox = ColumnOf(t, k + 1) /\ Shining(g[k].bmp) = AskedBy(t, k, oy)
    BY <1>5, <2>1
  <2>3. g[k + 1] = Draw(g[k], t.text[k + 1], oy, t.layout)
    BY <1>1, <2>1
  <2>4. /\ g[k + 1].ox = AsI32(g[k].ox + Advance(t.layout))
        /\ g[k + 1].bmp = BlitChar(g[k].bmp, t.text[k + 1], g[k].ox, oy)
    BY <2>3 DEF Draw
  <2>5. ASSUME k + 1 < n PROVE g[k + 1].ox = ColumnOf(t, k + 1 + 1)
    <3>1. k + 1 + 1 \in 1..n
      BY <1>2, <2>5
    <3> QED BY <1>3, <2>1, <2>2, <2>4, <3>1
  <2>6. Shining(g[k + 1].bmp) = AskedBy(t, k, oy)
          \cup (Placed(Ink(t.text[k + 1]), ColumnOf(t, k + 1), oy) \cap Pixels(t.width, t.height))
    <3>1. g[k].bmp \in Bitmaps(t.width, t.height) /\ g[k].ox \in Int
      BY <1>1, <2>1
    <3> QED BY <1>2, <2>2, <2>4, <3>1, BlitLights
  <2>7. 1..(k + 1) = 1..k \cup {k + 1}
    OBVIOUS
  <2>8. AskedBy(t, k + 1, oy) = AskedBy(t, k, oy)
          \cup (Placed(Ink(t.text[k + 1]), ColumnOf(t, k + 1), oy) \cap Pixels(t.width, t.height))
    BY <2>7 DEF AskedBy
  <2> QED BY <2>5, <2>6, <2>8
<1> HIDE DEF S
<1>6. n \in S
  BY <1>2, <1>4, <1>5, Induction
<1>7. Shining(g[n].bmp) = AskedBy(t, n, oy)
  BY <1>2, <1>6 DEF S
<1> QED BY <1>1, <1>7 DEF n, oy

\* Those are the pixels asked for, none past the measure.
LEMMA AskedIsAsked ==
  ASSUME NEW t, IsText(t), NEW top \in Int
  PROVE  /\ AskedBy(t, Len(t.text), top) = Asked(t, top)
         /\ \A at \in Asked(t, top) : at[1] < Measure(t.text, t.layout)
<1>1. DOMAIN t.text = 1..Len(t.text) /\ Len(t.text) \in Nat
  BY DEF IsText
<1>2. ASSUME NEW at \in Pixels(t.width, t.height), NEW i \in 1..Len(t.text)
      PROVE  at \in Placed(Ink(t.text[i]), ColumnOf(t, i), top)
               <=> \E cell \in Ink(t.text[i]) :
                      /\ at[1] = t.layout.x_offset + (i - 1) * Advance(t.layout) + cell[1]
                      /\ at[2] = top + cell[2]
  <2>1. PICK x, y : at = <<x, y>>
    BY DEF Pixels
  <2> QED BY <2>1 DEF Placed, ColumnOf
<1>3. AskedBy(t, Len(t.text), top) = Asked(t, top)
  BY <1>1, <1>2 DEF AskedBy, Asked, Pixels
<1>4. ASSUME NEW at \in Asked(t, top) PROVE at[1] < Measure(t.text, t.layout)
  <2>0. PICK i \in 1..Len(t.text) : \E cell \in Ink(t.text[i]) : at[1] = ColumnOf(t, i) + cell[1]
    BY <1>1, <1>4 DEF Asked, ColumnOf
  <2>1. PICK cell \in Ink(t.text[i]) : at[1] = ColumnOf(t, i) + cell[1]
    BY <2>0
  <2>2. cell[1] \in 0..(CELL_WIDTH - 1) /\ CELL_WIDTH \in Nat
    BY PanelAssumption DEF Ink
  <2>3. /\ ColumnOf(t, i) \in Nat /\ ColumnOf(t, i) + CELL_WIDTH <= Measure(t.text, t.layout)
        /\ Measure(t.text, t.layout) \in Nat
    BY ColumnsWithin
  <2> QED BY <2>1, <2>2, <2>3
<1> QED BY <1>3, <1>4

\* The row a text begins at is one of those it may begin at.
LEMMA TopRowIsTop ==
  ASSUME NEW t, IsText(t), PanelFits(t.width, t.height), t.layout.y_offset < I31
  PROVE  TopRow(t.height, t.layout) \in Tops(t)
<1>1. PICK h \in Nat, c \in Nat, d \in Nat : h = t.height /\ c = CELL_HEIGHT /\ d = I31 /\ h < d
  <2>1. t.height < Power[N16] /\ Power[N16] <= I31 /\ I31 \in Nat /\ Power[N16] \in Nat
    BY ByteAssumption, PowerSteps, PanelAssumption DEF PanelFits
  <2> QED BY <2>1, PanelAssumption DEF IsText
<1>2. CASE t.layout.y_offset = Centred
  <2>1. AsI32(h) = h
    <3>1. h \in (-I31)..(I31 - 1) /\ h \in Int
      BY <1>1
    <3> QED BY <3>1, WithinI32
  <2>2. TopRow(t.height, t.layout) = Half(h - c)
    BY <1>1, <1>2, <2>1 DEF TopRow
  <2>3. /\ Half(h - c) \in (-c)..h
        /\ 2 * Half(h - c) - (h - c) \in -1..1
    <3>1. CASE h - c >= 0
      BY <3>1 DEF Half
    <3>2. CASE ~(h - c >= 0)
      BY <3>2 DEF Half
    <3> QED BY <3>1, <3>2
  <2> QED BY <1>1, <1>2, <2>2, <2>3 DEF Tops
<1>3. CASE t.layout.y_offset # Centred
  <2>1. PICK y \in Nat : y = t.layout.y_offset /\ y < d
    BY <1>1, <1>3 DEF IsText
  <2>2. AsI32(y) = y
    <3>1. y \in (-I31)..(I31 - 1) /\ y \in Int
      BY <1>1, <2>1
    <3> QED BY <3>1, WithinI32
  <2> QED BY <1>3, <2>1, <2>2 DEF TopRow, Tops
<1> QED BY <1>2, <1>3

\* Whoever reads the payload of a panel sees its bitmap.
LEMMA PayloadShows ==
  ASSUME NEW w \in 0..(Power[N16] - 1), NEW h \in 0..(Power[N16] - 1), NEW bmp \in Bitmaps(w, h),
         bmp.bits \in Seq(Byte)
  PROVE  Shown(ToPayload(bmp)) = Shining(bmp)
<1>1. bmp.width = w /\ bmp.height = h /\ bmp.stride = StrideFor(w) /\ N16 \in Nat \ {0}
  BY ByteAssumption DEF Bitmaps
<1>2. PICK a \in Seq(Byte) : a = Le(w, N16) /\ Len(a) = N16 /\ FromLe(a) = w
  BY <1>1, FieldBytes
<1>3. PICK b \in Seq(Byte) : b = Le(h, N16) /\ Len(b) = N16 /\ FromLe(b) = h
  BY <1>1, FieldBytes
<1>4. PICK c \in Seq(Byte) : c = bmp.bits
  OBVIOUS
<1>5. ToPayload(bmp) = (a \o b) \o c
  BY <1>1, <1>2, <1>3, <1>4 DEF ToPayload
<1>6. PICK ab \in Seq(Byte) : /\ ab = a \o b /\ Len(ab) = N16 + N16
                              /\ SubSeq(ab, 1, Len(a)) = a
                              /\ SubSeq(ab, Len(a) + 1, Len(a) + Len(b)) = b
  <2>1. /\ a \o b \in Seq(Byte) /\ Len(a \o b) = Len(a) + Len(b)
        /\ SubSeq(a \o b, 1, Len(a)) = a /\ SubSeq(a \o b, Len(a) + 1, Len(a) + Len(b)) = b
    BY Parts
  <2>2. Len(a) + Len(b) = N16 + N16
    BY <1>2, <1>3
  <2> QED BY <2>1, <2>2
<1>7. /\ Len(ab \o c) = Len(ab) + Len(c)
      /\ SubSeq(ab \o c, Len(ab) + 1, Len(ab) + Len(c)) = c
  BY <1>6, Parts
<1> DEFINE z == ab \o c
<1>8. SubSeq(z, 1, N16) = SubSeq(ab, 1, N16)
      /\ SubSeq(z, N16 + 1, 2 * N16) = SubSeq(ab, N16 + 1, N16 + N16)
  BY <1>1, <1>6
<1>9. SubSeq(z, 1, N16) = a /\ SubSeq(z, N16 + 1, 2 * N16) = b
  BY <1>2, <1>3, <1>6, <1>8
<1>10. SubSeq(z, 2 * N16 + 1, Len(z)) = c
  <2>1. Len(ab) = 2 * N16
    BY <1>1, <1>6
  <2> QED BY <1>7, <2>1
<1>11. ToPayload(bmp) = z
  BY <1>5, <1>6
<1> HIDE DEF z
<1>12. Shown(z) = {at \in Room(w, h) : Lit(c, StrideFor(w), at[1], at[2])}
  BY <1>2, <1>3, <1>9, <1>10 DEF Shown, Room
<1> QED BY <1>1, <1>4, <1>11, <1>12 DEF Shining

\* A text on a panel is what was asked for.
THEOREM TextIsShown ==
  ASSUME NEW t, IsText(t), PanelFits(t.width, t.height), Moderate(t)
  PROVE  LET payload == ToPayload(Render(t.text, t.width, t.height, t.layout)) IN
         /\ \E top \in Tops(t) : Shown(payload) = Asked(t, top)
         /\ \A at \in Shown(payload) : at[1] < Measure(t.text, t.layout)
<1> DEFINE bmp == Render(t.text, t.width, t.height, t.layout)
<1> DEFINE top == TopRow(t.height, t.layout)
<1>1. bmp \in Bitmaps(t.width, t.height) /\ bmp.bits \in Seq(Byte)
  BY PayloadIsBytes
<1>2. t.width \in 0..(Power[N16] - 1) /\ t.height \in 0..(Power[N16] - 1)
  <2>1. N16 \in Nat /\ Power[N16] \in Nat
    BY ByteAssumption, PowerSteps
  <2> QED BY <2>1 DEF PanelFits, IsText
<1>3. Measure(t.text, t.layout) < I31 /\ t.layout.y_offset < I31
  BY DEF Moderate
<1>4. top \in Tops(t) /\ top \in Int
  BY <1>3, TopRowIsTop, TopRowIsNumber
<1>5. Shining(bmp) = Asked(t, top)
  BY <1>3, <1>4, RenderLights, AskedIsAsked
<1> HIDE DEF bmp, top
<1>6. Shown(ToPayload(bmp)) = Asked(t, top)
  BY <1>1, <1>2, <1>5, PayloadShows
<1>7. \A at \in Asked(t, top) : at[1] < Measure(t.text, t.layout)
  BY <1>4, AskedIsAsked
<1> QED BY <1>4, <1>6, <1>7 DEF bmp

-----------------------------------------------------------------------------
(* The inductive invariant.                                                *)

Kept == /\ native \in BOOLEAN /\ refused \in BOOLEAN /\ failed \in BOOLEAN
        /\ pipe \in Seq(Byte) /\ buf \in Seq(Byte)
        /\ items \in Seq(Range(items)) /\ got \in Seq(Range(got))
        /\ Len(got) <= Len(items) /\ Len(items) <= MaxItems

\* All that was sent means what was meant.
AllReadable == \A i \in 1..Len(items) : Readable(native, items[i])

\* The stream from the buffer on is what is still to be read.
InStep == buf \o pipe = FlattenSeq(Pending(items, Len(got)))

\* What was read is what was meant.
InOrder == \A i \in 1..Len(got) : got[i] = items[i].means

\* What goes along with a text is the payload that it makes.
MeansText(text, means) ==
  text # <<>> => \E t \in Texts :
     /\ text = <<t>> /\ PanelFits(t.width, t.height)
     /\ means = Native(RealtimeText, ToPayload(Render(t.text, t.width, t.height, t.layout)))
TextsMeant == \A i \in 1..Len(items) : MeansText(items[i].text, items[i].means)

IInv == Kept /\ AllReadable /\ InStep /\ InOrder /\ TextsMeant

\* What was sent is bytes.
LEMMA SentBytes ==
  ASSUME Kept, AllReadable
  PROVE  AllBytes(items)
<1>1. \A i \in 1..Len(items) : items[i].bytes \in Seq(Byte)
  BY DEF AllReadable, Readable
<1> QED BY <1>1 DEF Kept, AllBytes

\* It holds at the start.
LEMMA Starts == Init => IInv
<1> SUFFICES ASSUME Init PROVE IInv
  OBVIOUS
<1>1. <<>> \in Seq(Range(<<>>)) /\ <<>> \in Seq(Byte) /\ Len(<<>>) = 0
  OBVIOUS
<1>2. Kept
  <2>1. /\ items = <<>> /\ got = <<>> /\ pipe = <<>> /\ buf = <<>>
        /\ native \in BOOLEAN /\ refused = FALSE /\ failed = FALSE
    BY DEF Init
  <2>2. items \in Seq(Range(items)) /\ got \in Seq(Range(got))
    BY <1>1, <2>1
  <2>3. Len(got) <= Len(items) /\ Len(items) <= MaxItems
    BY <1>1, <2>1, StreamAssumption
  <2>4. pipe \in Seq(Byte) /\ buf \in Seq(Byte)
    BY <1>1, <2>1
  <2> QED BY <2>1, <2>2, <2>3, <2>4 DEF Kept
<1>3. AllReadable
  BY <1>1 DEF Init, AllReadable
<1>4. InOrder /\ TextsMeant
  BY <1>1 DEF Init, InOrder, TextsMeant
<1>5. InStep
  <2>1. AllBytes(items)
    BY <1>2, <1>3, SentBytes
  <2>2. FlattenSeq(Pending(items, Len(items))) = <<>>
    BY <2>1, PendingNone
  <2>3. buf \o pipe = <<>> /\ Len(items) = Len(got)
    BY <1>1 DEF Init
  <2> QED BY <2>2, <2>3 DEF InStep
<1> QED BY <1>2, <1>3, <1>4, <1>5 DEF IInv

\* Sending keeps it, if what is sent means what is meant.
LEMMA SentKeeps ==
  ASSUME IInv, CanSend, NEW bytes, NEW means, NEW text,
         Readable(native, Item(bytes, means, text)), MeansText(text, means),
         SentText(bytes, means, text)
  PROVE  IInv'
<1> DEFINE item == Item(bytes, means, text)
<1>1. /\ items' = Append(items, item) /\ pipe' = pipe \o bytes
      /\ UNCHANGED <<native, refused, buf, got, failed>>
  BY DEF SentText, Item
<1>2. /\ item.bytes = bytes /\ item.means = means /\ item.bytes \in Seq(Byte) /\ bytes \in Seq(Byte)
      /\ Readable(native, item) /\ MeansText(item.text, item.means)
  BY DEF Item, Readable
<1> HIDE DEF item
<1>3. Kept /\ AllReadable /\ InStep /\ InOrder /\ TextsMeant
  BY DEF IInv
<1>4. /\ items' \in Seq(Range(items')) /\ Len(items') = Len(items) + 1 /\ Len(items) \in Nat
      /\ \A i \in 1..Len(items) : items'[i] = items[i]
      /\ items'[Len(items) + 1] = item
  BY <1>1, <1>3, OneMore DEF Kept
<1>5. Len(got) \in Nat /\ Len(got) <= Len(items) /\ Len(items) < MaxItems /\ MaxItems \in Nat
  BY <1>3, StreamAssumption DEF Kept, CanSend
<1>6. Kept'
  <2>1. pipe' \in Seq(Byte)
    BY <1>1, <1>2, <1>3 DEF Kept
  <2>2. Len(got') <= Len(items') /\ Len(items') <= MaxItems
    BY <1>1, <1>4, <1>5
  <2> QED BY <1>1, <1>3, <1>4, <2>1, <2>2 DEF Kept
<1>7. AllReadable'
  <2>1. ASSUME NEW i \in 1..Len(items') PROVE Readable(native', items'[i])
    <3>1. i \in 1..Len(items) \/ i = Len(items) + 1
      BY <1>4
    <3>2. CASE i \in 1..Len(items)
      BY <1>1, <1>3, <1>4, <3>2 DEF AllReadable
    <3>3. CASE i = Len(items) + 1
      BY <1>1, <1>2, <1>4, <3>3
    <3> QED BY <3>1, <3>2, <3>3
  <2> QED BY <2>1 DEF AllReadable
<1>8. InStep'
  <2>1. AllBytes(items)
    BY <1>3, SentBytes
  <2>2. FlattenSeq(Pending(Append(items, item), Len(got))) = FlattenSeq(Pending(items, Len(got))) \o bytes
    BY <1>2, <1>5, <2>1, PendingMore
  <2>3. buf \o (pipe \o bytes) = (buf \o pipe) \o bytes
    BY <1>2, <1>3, Associative DEF Kept
  <2>4. buf' \o pipe' = FlattenSeq(Pending(items', Len(got')))
    BY <1>1, <1>3, <2>2, <2>3 DEF InStep
  <2> QED BY <2>4 DEF InStep
<1>9. InOrder'
  <2>1. \A i \in 1..Len(got) : i \in 1..Len(items)
    BY <1>4, <1>5
  <2>2. \A i \in 1..Len(got) : got[i] = items'[i].means
    BY <1>3, <1>4, <2>1 DEF InOrder
  <2> QED BY <1>1, <2>2 DEF InOrder
<1>10. TextsMeant'
  <2>1. ASSUME NEW i \in 1..Len(items') PROVE MeansText(items'[i].text, items'[i].means)
    <3>1. i \in 1..Len(items) \/ i = Len(items) + 1
      BY <1>4
    <3>2. CASE i \in 1..Len(items)
      BY <1>3, <1>4, <3>2 DEF TextsMeant
    <3>3. CASE i = Len(items) + 1
      BY <1>2, <1>4, <3>3
    <3> QED BY <3>1, <3>2, <3>3
  <2> QED BY <2>1 DEF TextsMeant
<1> QED BY <1>6, <1>7, <1>8, <1>9, <1>10 DEF IInv

\* What is refused changes nothing but that.
LEMMA RefusedKeeps ==
  ASSUME IInv, Refused
  PROVE  IInv'
BY DEF IInv, Refused, Kept, AllReadable, InStep, InOrder, TextsMeant

\* Native frames.
LEMMA SendNativeKeeps ==
  ASSUME IInv, SendNative
  PROVE  IInv'
<1>1. CanSend /\ native = TRUE
  BY DEF SendNative, IInv, Kept
<1>2. PICK cmd \in NativeCodes, payload \in Payloads :
         IF NativeFits(payload)
         THEN Sent(NativeEncode(cmd, payload), Native(cmd, payload))
         ELSE Refused
  BY DEF SendNative
<1>3. payload \in Seq(Byte)
  BY PayloadAssumption
<1>4. CASE NativeFits(payload)
  <2>1. SentText(NativeEncode(cmd, payload), Native(cmd, payload), <<>>)
    BY <1>2, <1>4 DEF Sent
  <2>2. Readable(native, Item(NativeEncode(cmd, payload), Native(cmd, payload), <<>>))
    BY <1>1, <1>3, <1>4, NativeReadable
  <2> QED BY <1>1, <2>1, <2>2, SentKeeps DEF MeansText
<1>5. CASE ~NativeFits(payload)
  BY <1>2, <1>5, RefusedKeeps
<1> QED BY <1>4, <1>5

\* Texts.
LEMMA SendTextKeeps ==
  ASSUME IInv, SendText
  PROVE  IInv'
<1>1. CanSend /\ native = TRUE
  BY DEF SendText, IInv, Kept
<1>2. PICK t, payload :
         /\ t \in Texts /\ payload = ToPayload(Render(t.text, t.width, t.height, t.layout))
         /\ IF PanelFits(t.width, t.height) /\ NativeFits(payload)
            THEN SentText(NativeEncode(RealtimeText, payload),
                          Native(RealtimeText, payload), <<t>>)
            ELSE Refused
  BY DEF SendText
<1>3. payload \in Seq(Byte) /\ RealtimeText \in NativeCodes
  <2>1. IsText(t)
    BY <1>2, PayloadAssumption
  <2> QED BY <1>2, <2>1, PayloadIsBytes, PanelAssumption
<1>4. CASE PanelFits(t.width, t.height) /\ NativeFits(payload)
  <2>1. SentText(NativeEncode(RealtimeText, payload), Native(RealtimeText, payload), <<t>>)
    BY <1>2, <1>4
  <2>2. Readable(native, Item(NativeEncode(RealtimeText, payload), Native(RealtimeText, payload), <<t>>))
    BY <1>1, <1>3, <1>4, NativeReadable
  <2>3. MeansText(<<t>>, Native(RealtimeText, payload))
    BY <1>2, <1>4 DEF MeansText
  <2> QED BY <1>1, <2>1, <2>2, <2>3, SentKeeps
<1>5. CASE ~(PanelFits(t.width, t.height) /\ NativeFits(payload))
  BY <1>2, <1>5, RefusedKeeps
<1> QED BY <1>4, <1>5

\* Damaged frames.
LEMMA SendDamagedKeeps ==
  ASSUME IInv, SendDamaged
  PROVE  IInv'
<1>1. CanSend /\ native = TRUE
  BY DEF SendDamaged, IInv, Kept
<1>2. PICK cmd \in NativeCodes, payload \in {p \in Payloads : NativeFits(p)} :
         \E at \in DOMAIN NativeEncode(cmd, payload) \ 3..(2 + N16), change \in Noise :
            Sent([NativeEncode(cmd, payload) EXCEPT ![at] = (@ + change) % B], Unreadable)
  BY DEF SendDamaged
<1>3. PICK at \in DOMAIN NativeEncode(cmd, payload) \ 3..(2 + N16), change \in Noise :
         Sent([NativeEncode(cmd, payload) EXCEPT ![at] = (@ + change) % B], Unreadable)
  BY <1>2
<1>4. payload \in Seq(Byte) /\ NativeFits(payload)
  BY PayloadAssumption
<1>5. Readable(TRUE, Item([NativeEncode(cmd, payload) EXCEPT ![at] = (@ + change) % B],
                          Unreadable, <<>>))
  BY <1>4, DamagedReadable
<1> DEFINE b == [NativeEncode(cmd, payload) EXCEPT ![at] = (@ + change) % B]
<1>6. Readable(native, Item(b, Unreadable, <<>>))
  BY <1>1, <1>5
<1>7. SentText(b, Unreadable, <<>>)
  BY <1>3 DEF Sent
<1> HIDE DEF b
<1> QED BY <1>1, <1>6, <1>7, SentKeeps DEF MeansText

\* Frames of files.
LEMMA SendFileKeeps ==
  ASSUME IInv, SendFile
  PROVE  IInv'
<1>1. CanSend /\ native = FALSE
  BY DEF SendFile, IInv, Kept
<1>2. PICK f, payload :
         /\ f \in Bodies /\ payload = Payload(f[1], f[2])
         /\ IF ~(Encodable(f[1], f[2]) /\ CodecFits(payload)) THEN Refused
            ELSE \/ Sent(CodecEncode(f[1], payload), f)
                 \/ \E k \in 0..(Len(payload) - 1) :
                       Sent(CodecEncode(f[1], SubSeq(payload, 1, k)), Unreadable)
                 \/ /\ CodecFits(Append(payload, 0))
                    /\ Sent(CodecEncode(f[1], Append(payload, 0)), f)
  BY DEF SendFile
<1>3. CASE ~(Encodable(f[1], f[2]) /\ CodecFits(payload))
  BY <1>2, <1>3, RefusedKeeps
<1>4. CASE Encodable(f[1], f[2]) /\ CodecFits(payload)
  <2>1. /\ Readable(FALSE, Item(CodecEncode(f[1], payload), f, <<>>))
        /\ \A k \in 0..(Len(payload) - 1) :
              Readable(FALSE, Item(CodecEncode(f[1], SubSeq(payload, 1, k)), Unreadable, <<>>))
        /\ CodecFits(Append(payload, 0))
           => Readable(FALSE, Item(CodecEncode(f[1], Append(payload, 0)), f, <<>>))
    BY <1>2, <1>4, SentFilesReadable
  <2>2. CASE Sent(CodecEncode(f[1], payload), f)
    <3>1. SentText(CodecEncode(f[1], payload), f, <<>>)
      BY <2>2 DEF Sent
    <3>2. Readable(native, Item(CodecEncode(f[1], payload), f, <<>>))
      BY <1>1, <2>1
    <3> QED BY <1>1, <3>1, <3>2, SentKeeps DEF MeansText
  <2>3. CASE \E k \in 0..(Len(payload) - 1) : Sent(CodecEncode(f[1], SubSeq(payload, 1, k)), Unreadable)
    <3>1. PICK k \in 0..(Len(payload) - 1) : SentText(CodecEncode(f[1], SubSeq(payload, 1, k)), Unreadable, <<>>)
      BY <2>3 DEF Sent
    <3>2. Readable(native, Item(CodecEncode(f[1], SubSeq(payload, 1, k)), Unreadable, <<>>))
      BY <1>1, <2>1
    <3> QED BY <1>1, <3>1, <3>2, SentKeeps DEF MeansText
  <2>4. CASE CodecFits(Append(payload, 0)) /\ Sent(CodecEncode(f[1], Append(payload, 0)), f)
    <3>1. SentText(CodecEncode(f[1], Append(payload, 0)), f, <<>>)
      BY <2>4 DEF Sent
    <3>2. Readable(native, Item(CodecEncode(f[1], Append(payload, 0)), f, <<>>))
      BY <1>1, <2>1, <2>4
    <3> QED BY <1>1, <3>1, <3>2, SentKeeps DEF MeansText
  <2> QED BY <1>2, <1>4, <2>2, <2>3, <2>4
<1> QED BY <1>3, <1>4

\* Other frames.
LEMMA SendOtherKeeps ==
  ASSUME IInv, SendOther
  PROVE  IInv'
<1>1. CanSend /\ native = FALSE
  BY DEF SendOther, IInv, Kept
<1>2. PICK payload \in Payloads :
         IF CodecFits(payload)
         THEN Sent(CodecEncode("Heartbeat", payload), <<"Heartbeat", payload>>)
         ELSE Refused
  BY DEF SendOther
<1>3. payload \in Seq(Byte)
  BY PayloadAssumption
<1>4. CASE CodecFits(payload)
  <2>1. SentText(CodecEncode("Heartbeat", payload), <<"Heartbeat", payload>>, <<>>)
    BY <1>2, <1>4 DEF Sent
  <2>2. Readable(native, Item(CodecEncode("Heartbeat", payload), <<"Heartbeat", payload>>, <<>>))
    BY <1>1, <1>3, <1>4, OtherReadable
  <2> QED BY <1>1, <2>1, <2>2, SentKeeps DEF MeansText
<1>5. CASE ~CodecFits(payload)
  BY <1>2, <1>5, RefusedKeeps
<1> QED BY <1>4, <1>5

\* Bytes of another sender.
LEMMA SendStrayKeeps ==
  ASSUME IInv, SendStray
  PROVE  IInv'
<1>1. CanSend /\ native = FALSE
  BY DEF SendStray, IInv, Kept
<1>2. PICK bytes \in Strays : SentText(bytes, Unreadable, <<>>)
  BY DEF SendStray, Sent
<1>3. Readable(native, Item(bytes, Unreadable, <<>>))
  BY <1>1, StrayReadable
<1> QED BY <1>1, <1>2, <1>3, SentKeeps DEF MeansText

\* The network's deliveries.
LEMMA DeliverKeeps ==
  ASSUME IInv, Deliver
  PROVE  IInv'
<1>1. PICK n \in 1..Len(pipe) : /\ buf' = buf \o SubSeq(pipe, 1, n)
                                /\ pipe' = SubSeq(pipe, n + 1, Len(pipe))
  BY DEF Deliver
<1>2. UNCHANGED <<native, items, refused, got, failed>>
  BY DEF Deliver
<1>3. pipe \in Seq(Byte) /\ buf \in Seq(Byte)
  BY DEF IInv, Kept
<1>4. PICK x \in Seq(Byte), y \in Seq(Byte) :
         x = SubSeq(pipe, 1, n) /\ y = SubSeq(pipe, n + 1, Len(pipe)) /\ x \o y = pipe
  <2>1. n \in 0..Len(pipe)
    BY <1>3
  <2> QED BY <1>3, <2>1, CutInTwo
<1>5. buf' \in Seq(Byte) /\ pipe' \in Seq(Byte)
  BY <1>1, <1>3, <1>4
<1>6. buf' \o pipe' = buf \o pipe
  <2>1. (buf \o x) \o y = buf \o (x \o y)
    BY <1>3, Associative
  <2> QED BY <1>1, <1>4, <2>1
<1>7. Kept'
  BY <1>2, <1>5 DEF IInv, Kept
<1>8. AllReadable' /\ InOrder' /\ TextsMeant'
  BY <1>2 DEF IInv, AllReadable, InOrder, TextsMeant
<1>9. InStep'
  BY <1>2, <1>6 DEF IInv, InStep
<1> QED BY <1>7, <1>8, <1>9 DEF IInv

\* What the decoder finds in the buffer is the first of what is still to be read.
LEMMA FindsFirst ==
  ASSUME IInv, Decode.verdict # "more"
  PROVE  /\ Len(got) \in Nat /\ Len(got) < Len(items) /\ AllBytes(items)
         /\ items[Len(got) + 1].bytes \in Seq(Byte)
         /\ Readable(native, items[Len(got) + 1])
         /\ Decode = DecodeOf(native, items[Len(got) + 1].bytes)
<1>1. Kept /\ AllReadable /\ InStep
  BY DEF IInv
<1>2. Decode = DecodeOf(native, buf)
  BY DEF Decode, DecodeOf
<1>3. AllBytes(items)
  BY <1>1, SentBytes
<1>4. Len(got) \in Nat /\ Len(items) \in Nat /\ Len(got) <= Len(items)
  BY <1>1 DEF Kept
<1>5. native \in BOOLEAN /\ buf \in Seq(Byte) /\ pipe \in Seq(Byte)
  BY <1>1 DEF Kept
<1>6. DecodeOf(native, buf \o pipe) = DecodeOf(native, buf)
  BY <1>2, <1>5, NothingBehind
<1>7. Len(got) < Len(items)
  <2> SUFFICES ASSUME Len(got) = Len(items) PROVE FALSE
    BY <1>4
  <2>1. buf \o pipe = <<>>
    BY <1>1, <1>3, PendingNone DEF InStep
  <2>2. DecodeOf(native, <<>>).verdict = "more"
    BY <1>5, WithinBuffer
  <2> QED BY <1>2, <1>6, <2>1, <2>2
<1> DEFINE first == items[Len(got) + 1]
<1> DEFINE rest == FlattenSeq(Pending(items, Len(got) + 1))
<1>8. /\ rest \in Seq(Byte) /\ first.bytes \in Seq(Byte)
      /\ buf \o pipe = first.bytes \o rest
  BY <1>1, <1>3, <1>4, <1>7, PendingFirst DEF InStep
<1>9. Readable(native, first)
  <2>1. Len(got) + 1 \in 1..Len(items)
    BY <1>4, <1>7
  <2> QED BY <1>1, <2>1 DEF AllReadable
<1>10. DecodeOf(native, first.bytes).verdict # "more"
  BY <1>9 DEF Readable
<1> HIDE DEF first, rest
<1>11. DecodeOf(native, first.bytes \o rest) = DecodeOf(native, first.bytes)
  BY <1>5, <1>8, <1>10, NothingBehind
<1>12. Decode = DecodeOf(native, first.bytes)
  BY <1>2, <1>6, <1>8, <1>11
<1> QED BY <1>3, <1>4, <1>7, <1>8, <1>9, <1>12 DEF first

\* Taking a frame.
LEMMA TakeFrameKeeps ==
  ASSUME IInv, TakeFrame
  PROVE  IInv'
<1>1. /\ Decode.verdict = "frame"
      /\ got' = Append(got, Meaning(Decode.cmd, Decode.payload))
      /\ buf' = SubSeq(buf, Decode.used + 1, Len(buf))
      /\ UNCHANGED <<native, items, refused, pipe, failed>>
  BY DEF TakeFrame
<1>2. Kept /\ AllReadable /\ InStep /\ InOrder /\ TextsMeant
  BY DEF IInv
<1> DEFINE first == items[Len(got) + 1]
<1>3. /\ Len(got) \in Nat /\ Len(got) < Len(items) /\ AllBytes(items)
      /\ first.bytes \in Seq(Byte) /\ Readable(native, first)
      /\ Decode = DecodeOf(native, first.bytes)
  <2>1. Decode.verdict # "more"
    BY <1>1
  <2> QED BY <2>1, FindsFirst
<1>4. Decode.used = Len(first.bytes) /\ Means(native, Decode) = first.means
  BY <1>1, <1>3 DEF Readable
<1>5. Meaning(Decode.cmd, Decode.payload) = first.means
  BY <1>4 DEF Meaning, Means
<1>6. Decode.used <= Len(buf)
  <2>1. Decode = DecodeOf(native, buf)
    BY DEF Decode, DecodeOf
  <2> QED BY <1>1, <1>2, <2>1, WithinBuffer DEF Kept
<1> DEFINE rest == FlattenSeq(Pending(items, Len(got) + 1))
<1>7. rest \in Seq(Byte) /\ buf \o pipe = first.bytes \o rest
  BY <1>2, <1>3, PendingFirst DEF InStep
<1> HIDE DEF rest
<1>8. buf' \in Seq(Byte) /\ buf' \o pipe = rest
  <2> HIDE DEF first
  <2>1. buf \in Seq(Byte) /\ pipe \in Seq(Byte)
    BY <1>2 DEF Kept
  <2>2. Len(first.bytes) <= Len(buf)
    BY <1>4, <1>6
  <2>3. /\ SubSeq(buf, Len(first.bytes) + 1, Len(buf)) \in Seq(Byte)
        /\ SubSeq(buf, Len(first.bytes) + 1, Len(buf)) \o pipe = rest
    BY <1>3, <1>7, <2>1, <2>2, Cancel
  <2>4. buf' = SubSeq(buf, Len(first.bytes) + 1, Len(buf))
    BY <1>1, <1>4
  <2> QED BY <2>3, <2>4
<1>9. /\ got' \in Seq(Range(got')) /\ Len(got') = Len(got) + 1
      /\ \A i \in 1..Len(got) : got'[i] = got[i]
      /\ got'[Len(got) + 1] = first.means
  <2> HIDE DEF first
  <2>1. got' = Append(got, first.means)
    BY <1>1, <1>5
  <2>2. got \in Seq(Range(got))
    BY <1>2 DEF Kept
  <2> QED BY <2>1, <2>2, OneMore
<1>10. Kept'
  <2>1. Len(items) \in Nat
    BY <1>2 DEF Kept
  <2>2. Len(got') <= Len(items')
    BY <1>1, <1>3, <1>9, <2>1
  <2> QED BY <1>1, <1>2, <1>8, <1>9, <2>2 DEF Kept
<1>11. AllReadable' /\ TextsMeant'
  BY <1>1, <1>2 DEF AllReadable, TextsMeant
<1>12. InStep'
  BY <1>1, <1>8, <1>9 DEF InStep, rest
<1>13. InOrder'
  <2>1. ASSUME NEW i \in 1..Len(got') PROVE got'[i] = items[i].means
    <3>1. i \in 1..Len(got) \/ i = Len(got) + 1
      BY <1>3, <1>9
    <3> QED BY <1>2, <1>9, <3>1 DEF InOrder
  <2> QED BY <1>1, <2>1 DEF InOrder
<1> QED BY <1>10, <1>11, <1>12, <1>13 DEF IInv

\* An error.
LEMMA FailKeeps ==
  ASSUME IInv, Fail
  PROVE  IInv'
<1>1. failed' = TRUE /\ buf' = buf /\ UNCHANGED <<native, items, refused, pipe, got>>
  BY DEF Fail, After
<1> QED BY <1>1 DEF IInv, Kept, AllReadable, InStep, InOrder, TextsMeant

-----------------------------------------------------------------------------
(* Theorems.                                                               *)

\* The stream from the buffer on is always what is still to be read, and all that
\* was sent can be told from what is behind it.
THEOREM StreamInductive == Spec => []IInv
<1>1. ASSUME IInv, [Next]_vars PROVE IInv'
  <2>1. CASE SendNative
    BY <1>1, <2>1, SendNativeKeeps
  <2>2. CASE SendText
    BY <1>1, <2>2, SendTextKeeps
  <2>3. CASE SendDamaged
    BY <1>1, <2>3, SendDamagedKeeps
  <2>4. CASE SendFile
    BY <1>1, <2>4, SendFileKeeps
  <2>5. CASE SendOther
    BY <1>1, <2>5, SendOtherKeeps
  <2>6. CASE SendStray
    BY <1>1, <2>6, SendStrayKeeps
  <2>7. CASE Deliver
    BY <1>1, <2>7, DeliverKeeps
  <2>8. CASE TakeFrame
    BY <1>1, <2>8, TakeFrameKeeps
  <2>9. CASE Fail
    BY <1>1, <2>9, FailKeeps
  <2>10. CASE UNCHANGED vars
    BY <1>1, <2>10 DEF IInv, Kept, AllReadable, InStep, InOrder, TextsMeant, vars
  <2> QED BY <1>1, <2>1, <2>2, <2>3, <2>4, <2>5, <2>6, <2>7, <2>8, <2>9, <2>10 DEF Next, Send
<1> QED BY <1>1, Starts, PTL DEF Spec

\* The encoders put nothing but bytes on the stream, and no more is taken from it
\* than was sent.
THEOREM StreamTypes == Spec => []TypeOK
<1>1. IInv => TypeOK
  <2> SUFFICES ASSUME IInv PROVE TypeOK
    OBVIOUS
  <2>1. Kept /\ AllBytes(items)
    BY SentBytes DEF IInv
  <2> QED BY <2>1 DEF TypeOK, Kept, AllBytes
<1> QED BY <1>1, StreamInductive, PTL

\* The buffer begins at a frame, wherever the network cut the stream, whatever was
\* refused and whatever error was met.
THEOREM BufferAtBoundary == Spec => []AtBoundary
<1>1. IInv => AtBoundary
  BY DEF IInv, InStep, AtBoundary, Pending
<1> QED BY <1>1, StreamInductive, PTL

\* Every frame arrives as what was sent, in order, and what means nothing never
\* arrives as something else.
THEOREM FramesArriveAsSent == Spec => []FramesArrive
<1>1. IInv => FramesArrive
  <2> SUFFICES ASSUME IInv PROVE FramesArrive
    OBVIOUS
  <2>1. DOMAIN got = 1..Len(got)
    BY DEF IInv, Kept
  <2> QED BY <2>1 DEF IInv, InOrder, FramesArrive
<1> QED BY <1>1, StreamInductive, PTL

\* A frame that is there is taken without waiting for what comes behind it.
THEOREM FramesAreNotHeldBack == Spec => []NeverWaits
<1>1. IInv => NeverWaits
  <2> SUFFICES ASSUME IInv, Len(got) + 1 \in DOMAIN items, items[Len(got) + 1].means # Unreadable,
                      Len(buf) >= Len(items[Len(got) + 1].bytes)
               PROVE  Decode.verdict = "frame"
    BY DEF NeverWaits
  <2> DEFINE first == items[Len(got) + 1]
  <2>1. Kept /\ AllReadable /\ InStep
    BY DEF IInv
  <2>2. AllBytes(items) /\ native \in BOOLEAN /\ buf \in Seq(Byte) /\ pipe \in Seq(Byte)
    BY <2>1, SentBytes DEF Kept
  <2>3. Len(got) \in Nat /\ Len(items) \in Nat /\ Len(got) < Len(items)
    <3>1. DOMAIN items = 1..Len(items) /\ Len(got) \in Nat /\ Len(items) \in Nat
      BY <2>1 DEF Kept
    <3> QED BY <3>1
  <2>4. Readable(native, first)
    <3>1. Len(got) + 1 \in 1..Len(items)
      BY <2>3
    <3> QED BY <2>1, <3>1 DEF AllReadable
  <2> DEFINE rest == FlattenSeq(Pending(items, Len(got) + 1))
  <2>5. rest \in Seq(Byte) /\ first.bytes \in Seq(Byte) /\ buf \o pipe = first.bytes \o rest
    BY <2>1, <2>2, <2>3, PendingFirst DEF InStep
  <2>6. first.means # Unreadable /\ Len(first.bytes) <= Len(buf)
    <3>1. Len(first.bytes) \in Nat /\ Len(buf) \in Nat
      BY <2>2, <2>5
    <3> QED BY <3>1
  <2> HIDE DEF first, rest
  <2>7. PICK more \in Seq(Byte) : buf = first.bytes \o more
    <3>1. Len(first.bytes) \in 0..Len(buf)
      BY <2>2, <2>5, <2>6
    <3>2. PICK x \in Seq(Byte), more \in Seq(Byte) :
             /\ x \o more = buf /\ Len(x) = Len(first.bytes)
             /\ \A i \in 1..Len(first.bytes) : x[i] = buf[i]
      BY <2>2, <3>1, CutInTwo
    <3>3. \A i \in 1..Len(first.bytes) : x[i] = first.bytes[i]
      <4>1. ASSUME NEW i \in 1..Len(first.bytes) PROVE x[i] = first.bytes[i]
        <5>1. i \in 1..Len(buf)
          BY <3>1
        <5>2. (buf \o pipe)[i] = buf[i]
          BY <2>2, <5>1, Parts
        <5>3. (first.bytes \o rest)[i] = first.bytes[i]
          BY <2>5, Parts
        <5>4. x[i] = buf[i]
          BY <3>2
        <5> QED BY <2>5, <5>2, <5>3, <5>4
      <4> QED BY <4>1
    <3>4. x = first.bytes
      BY <2>5, <3>2, <3>3, SameBytes
    <3> QED BY <3>2, <3>4
  <2>8. DecodeOf(native, first.bytes).verdict = "frame"
    BY <2>4, <2>6 DEF Readable
  <2>9. DecodeOf(native, first.bytes \o more) = DecodeOf(native, first.bytes)
    BY <2>2, <2>5, <2>8, NothingBehind
  <2>10. Decode = DecodeOf(native, buf)
    BY DEF Decode, DecodeOf
  <2> QED BY <2>7, <2>8, <2>9, <2>10
<1> QED BY <1>1, StreamInductive, PTL

\* A panel that takes a realtime frame lights exactly the pixels of the text, and none
\* past its measure, whatever else is sent and however the stream is cut.
THEOREM PanelsShowTexts == Spec => []PanelShowsText
<1>1. IInv => PanelShowsText
  <2> SUFFICES ASSUME IInv, NEW i \in DOMAIN got, NEW t \in ToSet(items[i].text), Moderate(t)
               PROVE  LET pixels == Shown(Tail(got[i][2])) IN
                      /\ \E top \in Tops(t) : pixels = Asked(t, top)
                      /\ \A at \in pixels : at[1] < Measure(t.text, t.layout)
    BY DEF PanelShowsText
  <2>1. i \in 1..Len(got) /\ i \in 1..Len(items)
    <3>1. got \in Seq(Range(got)) /\ Len(got) <= Len(items) /\ items \in Seq(Range(items))
      BY DEF IInv, Kept
    <3> QED BY <3>1
  <2>2. got[i] = items[i].means /\ MeansText(items[i].text, items[i].means)
    BY <2>1 DEF IInv, InOrder, TextsMeant
  <2>3. items[i].text # <<>>
    BY DEF ToSet
  <2>4. PICK u \in Texts :
           /\ items[i].text = <<u>> /\ PanelFits(u.width, u.height)
           /\ items[i].means
                = Native(RealtimeText, ToPayload(Render(u.text, u.width, u.height, u.layout)))
    BY <2>2, <2>3 DEF MeansText
  <2>5. t = u
    BY <2>4 DEF ToSet
  <2>6. IsText(t) /\ t \in Texts
    BY <2>5, PayloadAssumption
  <2>7. PICK payload \in Seq(Byte) : payload = ToPayload(Render(t.text, t.width, t.height, t.layout))
    BY <2>6, PayloadIsBytes
  <2>8. Tail(got[i][2]) = payload
    <3>1. got[i][2] = <<RealtimeText>> \o payload
      BY <2>2, <2>4, <2>5, <2>7 DEF Native
    <3>2. Tail(<<RealtimeText>> \o payload) = payload
      OBVIOUS
    <3> QED BY <3>1, <3>2
  <2> QED BY <2>4, <2>5, <2>6, <2>7, <2>8, TextIsShown
<1> QED BY <1>1, StreamInductive, PTL
=============================================================================
