----------------------------- MODULE CodecProofs -----------------------------
(***************************************************************************)
(* What KeyCodec and TimeConverter compute, for every Base of a byte and   *)
(* every value: that decoding is the inverse of encoding, that the order   *)
(* of the bytes is the order of the values, that Groonga's time unpacks as *)
(* it was packed, and that gmtime() and its inverse fit together.          *)
(*                                                                         *)
(* The numbers have up to eight bytes; an induction over bytes or digits is*)
(* one up to a bound, on a set of naturals (BoundedInduction).             *)
(***************************************************************************)
EXTENDS KeyCodec, TimeConverter, TLAPS, WellFoundedInduction, SequenceTheorems

-----------------------------------------------------------------------------
(* Arithmetic. *)

\* A nonempty set of naturals has a least element.
LEMMA LeastNat ==
    ASSUME NEW T \in SUBSET Nat, T # {}
    PROVE  \E x \in T : \A y \in T : x <= y
<1> DEFINE R == {ss \in Nat \X Nat : ss[1] < ss[2]}
<1>1. IsWellFoundedOn(R, Nat)  BY NatLessThanWellFounded DEF OpToRel
<1> HIDE DEF R
<1>2. PICK x \in T : \A y \in T : ~(<<y, x>> \in R)
  BY <1>1, WFMin
<1>3. ASSUME NEW y \in T PROVE x <= y
  <2>1. x \in Nat /\ y \in Nat  OBVIOUS
  <2>2. ~(<<y, x>> \in R)  BY <1>2
  <2>3. ~(y < x)  BY <2>1, <2>2 DEF R
  <2> QED  BY <2>1, <2>3
<1> QED  BY <1>3

\* Induction up to n.
LEMMA BoundedInduction ==
    ASSUME NEW n \in Nat, NEW S, 0 \in S, \A k \in 0 .. n - 1 : k \in S => k + 1 \in S
    PROVE  \A k \in 0 .. n : k \in S
<1> DEFINE T == (0 .. n) \ S
<1>1. SUFFICES ASSUME T # {} PROVE FALSE  OBVIOUS
<1>2. T \in SUBSET Nat  OBVIOUS
<1> HIDE DEF T
<1>3. PICK x \in T : \A y \in T : x <= y  BY <1>1, <1>2, LeastNat
<1>4. x \in 0 .. n /\ x \notin S  BY DEF T
<1>5. x # 0  BY <1>4
<1>6. x - 1 \in 0 .. n - 1 /\ x - 1 \notin T /\ (x - 1) + 1 = x  BY <1>3, <1>4, <1>5
<1>7. x - 1 \in S  BY <1>6 DEF T
<1> QED  BY <1>4, <1>6, <1>7

\* A number is the divisor times the quotient, and a rest below the divisor.
LEMMA DivMod ==
    ASSUME NEW v \in Int, NEW p \in Nat \ {0}
    PROVE  /\ v \div p \in Int /\ v % p \in 0 .. p - 1
           /\ v = p * (v \div p) + (v % p)
OBVIOUS

\* The quotient is the one number with a rest below the divisor.
LEMMA DivUnique ==
    ASSUME NEW p \in Nat \ {0}, NEW q \in Int, NEW r \in 0 .. p - 1
    PROVE  (p * q + r) \div p = q /\ (p * q + r) % p = r
OBVIOUS

\* A product grows with its factor.
LEMMA MulMono ==
    ASSUME NEW a \in Int, NEW b \in Int, NEW p \in Nat, a <= b
    PROVE  p * a <= p * b
OBVIOUS

\* A smaller quotient is that of a smaller number.
LEMMA DivMono ==
    ASSUME NEW v \in Int, NEW w \in Int, NEW p \in Nat \ {0}, v \div p < w \div p
    PROVE  v < w
<1> DEFINE a == v \div p  b == w \div p
<1>1. a \in Int /\ b \in Int /\ a + 1 <= b  BY DivMod
<1>2. v = p * a + (v % p) /\ v % p \in 0 .. p - 1 /\ w = p * b + (w % p) /\ w % p \in 0 .. p - 1
  BY DivMod
<1> HIDE DEF a, b
<1>3. p * (a + 1) <= p * b  BY <1>1, MulMono
<1>4. p * (a + 1) = p * a + p  BY <1>1
<1> QED  BY <1>1, <1>2, <1>3, <1>4

\* Dividing twice is dividing by the product.
LEMMA DivDiv ==
    ASSUME NEW v \in Int, NEW p \in Nat \ {0}, NEW c \in Nat \ {0}
    PROVE  (v \div p) \div c = v \div (c * p)
<1> DEFINE q == v \div p  r == v % p  x == q \div c  y == q % c
<1>1. q \in Int /\ r \in 0 .. p - 1 /\ v = p * q + r  BY DivMod
<1>2. x \in Int /\ y \in 0 .. c - 1 /\ q = c * x + y
  <2> HIDE DEF q
  <2> QED  BY DivMod, <1>1
<1> HIDE DEF q, r, x, y
<1>3. v = (c * p) * x + (p * y + r)
  <2>1. p * q = p * (c * x) + p * y  BY <1>1, <1>2
  <2>2. p * (c * x) = (c * p) * x  BY <1>2
  <2> QED  BY <1>1, <1>2, <2>1, <2>2
<1>4. p * y + r \in 0 .. c * p - 1
  <2>1. p * y <= p * (c - 1)  BY <1>2, MulMono
  <2>2. p * (c - 1) = c * p - p  OBVIOUS
  <2>3. p * y \in Nat  BY <1>2
  <2> QED  BY <1>1, <1>2, <2>1, <2>2, <2>3
<1>5. c * p \in Nat \ {0}  OBVIOUS
<1>6. v \div (c * p) = x  BY <1>2, <1>3, <1>4, <1>5, DivUnique
<1> QED  BY <1>6 DEF x, q

-----------------------------------------------------------------------------
(* Bytes and powers of Base. *)

\* A byte has an even number of values, its top bit is half of them.
LEMMA BaseFacts ==
    /\ Base \in Nat \ {0} /\ Base >= 2
    /\ Half \in Nat \ {0} /\ Base = 2 * Half
    /\ MaxByte \in Nat /\ MaxByte = Base - 1
BY BaseAssumption DEF Half, MaxByte

\* One more byte multiplies the number of values by Base.
LEMMA PowerStep ==
    ASSUME NEW n \in 0 .. 7
    PROVE  Base ^ (n + 1) = Base * Base ^ n
BY PowerAssumption

\* The number of values of up to eight bytes is a positive number.
LEMMA PowerNat ==
    ASSUME NEW n \in 0 .. 8
    PROVE  Base ^ n \in Nat \ {0}
<1> DEFINE T == {i \in 0 .. 8 : Base ^ i \notin Nat \ {0}}
<1>1. SUFFICES T = {}  OBVIOUS
<1>2. SUFFICES ASSUME T # {} PROVE FALSE  OBVIOUS
<1>3. PICK x \in T : \A y \in T : x <= y  BY <1>2, LeastNat
<1>4. x # 0  BY PowerAssumption
<1>5. x - 1 \in 0 .. 7 /\ x - 1 \notin T  BY <1>3, <1>4
<1>6. Base ^ (x - 1) \in Nat \ {0}  BY <1>5
<1>7. Base ^ ((x - 1) + 1) = Base * Base ^ (x - 1)  BY <1>5, PowerStep
<1>8. (x - 1) + 1 = x  BY <1>5
<1>9. Base * Base ^ (x - 1) \in Nat \ {0}  BY <1>6, BaseFacts
<1> QED  BY <1>3, <1>7, <1>8, <1>9

\* The values of n bytes are those of i bytes, times those of the others.
LEMMA PowerSplit ==
    ASSUME NEW n \in 0 .. 8, NEW i \in 0 .. n
    PROVE  Base ^ n = Base ^ (n - i) * Base ^ i
<1> DEFINE T == {k \in 0 .. n : Base ^ n # Base ^ (n - k) * Base ^ k}
<1>1. SUFFICES T = {}  OBVIOUS
<1>2. SUFFICES ASSUME T # {} PROVE FALSE  OBVIOUS
<1>3. PICK x \in T : \A y \in T : x <= y  BY <1>2, LeastNat
<1>4. x # 0
  <2>1. Base ^ n = Base ^ (n - 0) * Base ^ 0
    <3>1. n - 0 = n /\ Base ^ n \in Nat  BY PowerNat
    <3> QED  BY <3>1, PowerAssumption
  <2> QED  BY <2>1
<1>5. x - 1 \in 0 .. 7 /\ n - x \in 0 .. 7 /\ x - 1 \notin T /\ x - 1 \in 0 .. n  BY <1>3, <1>4
<1>6. Base ^ n = Base ^ (n - (x - 1)) * Base ^ (x - 1)  BY <1>5
<1>7. n - (x - 1) = (n - x) + 1 /\ (x - 1) + 1 = x  BY <1>5
<1>8. Base ^ ((n - x) + 1) = Base * Base ^ (n - x)  BY <1>5, PowerStep
<1>9. Base ^ ((x - 1) + 1) = Base * Base ^ (x - 1)  BY <1>5, PowerStep
<1>10. Base ^ (n - x) \in Nat /\ Base ^ (x - 1) \in Nat /\ Base \in Nat  BY <1>5, PowerNat, BaseFacts
<1>11. Base ^ n = (Base * Base ^ (n - x)) * Base ^ (x - 1)  BY <1>6, <1>7, <1>8
<1>12. (Base * Base ^ (n - x)) * Base ^ (x - 1) = Base ^ (n - x) * (Base * Base ^ (x - 1))
  BY <1>10
<1>13. Base ^ n = Base ^ (n - x) * Base ^ x  BY <1>7, <1>9, <1>11, <1>12
<1> QED  BY <1>3, <1>13

\* The values of the ends of a sequence of n bytes, from each byte on.
ValueFrom(n, b, w) ==
    /\ n \in Nat /\ b \in [1 .. n -> Int] /\ w \in [1 .. n + 1 -> Int]
    /\ w[n + 1] = 0
    /\ \A i \in 1 .. n : w[i] = b[i] + Base * w[i + 1]

\* HostUnsigned() yields the number that w[i] builds up from byte i on.
LEMMA HostUnsignedIs ==
    ASSUME NEW n, NEW b, NEW w, ValueFrom(n, b, w)
    PROVE  HostUnsigned(b) = w[1]
<1>0. /\ n \in Nat /\ b \in [1 .. n -> Int] /\ w \in [1 .. n + 1 -> Int]
      /\ w[n + 1] = 0
      /\ \A i \in 1 .. n : w[i] = b[i] + Base * w[i + 1]
  BY DEF ValueFrom
<1> DEFINE F(g) == [i \in 1 .. Len(b) + 1 |->
                      IF i = Len(b) + 1 THEN 0 ELSE b[i] + Base * g[i + 1]]
           v == CHOOSE g : g = F(g)
<1>1. Len(b) = n  BY <1>0
<1>2. w = F(w)  BY <1>0, <1>1
<1>3. v = F(v)
  <2>1. \E g : g = F(g)  BY <1>2
  <2> HIDE DEF F
  <2> QED  BY <2>1
<1>4. HostUnsigned(b) = v[1]  BY DEF HostUnsigned
<1> HIDE DEF v
<1>5. v[n + 1] = 0 /\ \A i \in 1 .. n : v[i] = b[i] + Base * v[i + 1]
  <2>1. v = [i \in 1 .. n + 1 |-> IF i = n + 1 THEN 0 ELSE b[i] + Base * v[i + 1]]
    BY <1>1, <1>3
  <2> QED  BY <1>0, <2>1
<1> DEFINE S == {k \in 0 .. n : v[n + 1 - k] = w[n + 1 - k]}
<1>6. 0 \in S
  <2>1. n + 1 - 0 = n + 1 /\ n \in Nat  BY <1>0
  <2> QED  BY <1>0, <1>5, <2>1
<1>7. ASSUME NEW k \in 0 .. n - 1, k \in S PROVE k + 1 \in S
  <2>1. v[n + 1 - k] = w[n + 1 - k]  BY <1>7
  <2>2. n - k \in 1 .. n /\ (n - k) + 1 = n + 1 - k /\ n + 1 - (k + 1) = n - k  BY <1>0
  <2>3. v[n - k] = w[n - k]  BY <1>0, <1>5, <2>1, <2>2
  <2>4. k + 1 \in 0 .. n  BY <1>0
  <2> QED  BY <2>2, <2>3, <2>4
<1>8. \A k \in 0 .. n : k \in S
  <2> HIDE DEF S
  <2> QED  BY <1>0, <1>6, <1>7, BoundedInduction
<1>9. v[1] = w[1]
  <2>1. n \in S /\ n + 1 - n = 1  BY <1>0, <1>8
  <2> QED  BY <2>1
<1> QED  BY <1>4, <1>9

\* A multiple of the divisor changes the quotient and not the rest.
LEMMA DivAdd ==
    ASSUME NEW v \in Int, NEW p \in Nat \ {0}, NEW k \in Int
    PROVE  (v + k * p) \div p = (v \div p) + k /\ (v + k * p) % p = v % p
<1> DEFINE q == v \div p  r == v % p
<1>1. q \in Int /\ r \in 0 .. p - 1 /\ v = p * q + r  BY DivMod
<1> HIDE DEF q, r
<1>2. v + k * p = p * (q + k) + r  BY <1>1
<1>3. q + k \in Int  BY <1>1
<1>4. (p * (q + k) + r) \div p = q + k /\ (p * (q + k) + r) % p = r  BY <1>1, <1>3, DivUnique
<1> QED  BY <1>2, <1>4 DEF q, r

\* A number between two multiples of p has its quotient between the factors.
LEMMA DivBound ==
    ASSUME NEW v \in Int, NEW p \in Nat \ {0}, NEW a \in Int, NEW b \in Int,
           a * p <= v, v < b * p
    PROVE  v \div p \in a .. b - 1
<1> DEFINE q == v \div p  r == v % p
<1>1. q \in Int /\ r \in 0 .. p - 1 /\ v = p * q + r  BY DivMod
<1> HIDE DEF q, r
<1>2. ~(q < a)
  <2>1. SUFFICES ASSUME q + 1 <= a PROVE FALSE  BY <1>1
  <2>2. p * (q + 1) <= p * a  BY <1>1, <2>1, MulMono
  <2>3. p * (q + 1) = p * q + p /\ p * a = a * p  BY <1>1
  <2> QED  BY <1>1, <2>2, <2>3
<1>3. ~(b <= q)
  <2>1. SUFFICES ASSUME b <= q PROVE FALSE  BY <1>1
  <2>2. p * b <= p * q  BY <1>1, <2>1, MulMono
  <2>3. p * b = b * p  OBVIOUS
  <2> QED  BY <1>1, <2>2, <2>3
<1> QED  BY <1>1, <1>2, <1>3 DEF q

\* A number below the divisor is its own rest.
LEMMA DivSmall ==
    ASSUME NEW p \in Nat \ {0}, NEW q \in 0 .. p - 1
    PROVE  q \div p = 0 /\ q % p = q
<1>1. q = p * 0 + q  OBVIOUS
<1> QED  BY <1>1, DivUnique

\* The rest of a negative number above minus the divisor.
LEMMA ModNegative ==
    ASSUME NEW p \in Nat \ {0}, NEW q \in -p .. -1
    PROVE  q % p = q + p
<1>1. q = p * (-1) + (q + p) /\ q + p \in 0 .. p - 1 /\ -1 \in Int  OBVIOUS
<1>2. (p * (-1) + (q + p)) % p = q + p  BY <1>1, DivUnique
<1> QED  BY <1>1, <1>2

\* The quotient of a number within a multiple of the divisor.
LEMMA DivWithin ==
    ASSUME NEW h \in Nat, NEW p \in Nat \ {0}, NEW v \in 0 .. h * p - 1
    PROVE  v \div p \in 0 .. h - 1
<1>1. 0 * p <= v /\ v < h * p /\ 0 \in Int /\ h \in Int /\ v \in Int  OBVIOUS
<1>2. v \div p \in 0 .. h - 1  BY <1>1, DivBound
<1> QED  BY <1>2

\* The quotients of the negative numbers down to -h * p.
LEMMA DivWithinNegative ==
    ASSUME NEW h \in Nat, NEW p \in Nat \ {0}, NEW v \in -(h * p) .. -1
    PROVE  v \div p \in -h .. -1
<1>1. (-h) * p <= v /\ v < 0 * p /\ -h \in Int /\ 0 \in Int /\ v \in Int  OBVIOUS
<1>2. v \div p \in -h .. 0 - 1  BY <1>1, DivBound
<1> QED  BY <1>2

\* The bytes of a number, as the server keeps them.
LEMMA HostBytesAt ==
    ASSUME NEW n \in 0 .. 8, NEW v \in Int
    PROVE  /\ HostBytes(v, n) \in [1 .. n -> 0 .. MaxByte]
           /\ HostBytes(v, n) \in Seq(Int) /\ Len(HostBytes(v, n)) = n
           /\ \A i \in 1 .. n : HostBytes(v, n)[i] = (v \div Base ^ (i - 1)) % Base
<1>1. \A i \in 1 .. n : (v \div Base ^ (i - 1)) % Base \in 0 .. MaxByte
  <2>1. TAKE i \in 1 .. n
  <2>2. Base ^ (i - 1) \in Nat \ {0}  BY PowerNat
  <2>3. v \div Base ^ (i - 1) \in Int  BY <2>2, DivMod
  <2>4. (v \div Base ^ (i - 1)) % Base \in 0 .. Base - 1  BY <2>3, DivMod, BaseFacts
  <2> QED  BY <2>4, BaseFacts
<1>2. HostBytes(v, n) \in [1 .. n -> 0 .. MaxByte]  BY <1>1 DEF HostBytes
<1>3. HostBytes(v, n) \in Seq(Int) /\ Len(HostBytes(v, n)) = n
  <2>1. n \in Nat  OBVIOUS
  <2>2. 0 .. MaxByte \subseteq Int  OBVIOUS
  <2> QED  BY <1>2, <2>1, <2>2
<1> QED  BY <1>2, <1>3 DEF HostBytes

\* A byte of a number in the order of the host.
LEMMA HostByteAt ==
    ASSUME NEW n \in 0 .. 8, NEW v \in Int, NEW i \in 1 .. n
    PROVE  /\ HostBytes(v, n)[i] = (v \div Base ^ (i - 1)) % Base
           /\ HostBytes(v, n)[i] \in 0 .. MaxByte
BY HostBytesAt

\* What is left of a number after i bytes, from what was left before.
LEMMA QuotientStep ==
    ASSUME NEW i \in 1 .. 8, NEW v \in Int
    PROVE  v \div Base ^ (i - 1) = ((v \div Base ^ (i - 1)) % Base) + Base * (v \div Base ^ i)
<1> DEFINE p == Base ^ (i - 1)  q == v \div p
<1>1. p \in Nat \ {0} /\ q \in Int
  <2>1. p \in Nat \ {0}  BY PowerNat
  <2> QED  BY <2>1, DivMod
<1>2. Base ^ i = Base * p
  <2>1. i - 1 \in 0 .. 7 /\ (i - 1) + 1 = i  OBVIOUS
  <2> QED  BY <2>1, PowerStep
<1>3. v \div (Base * p) = q \div Base
  <2> HIDE DEF p
  <2> QED  BY <1>1, DivDiv, BaseFacts DEF q
<1> HIDE DEF q
<1> DEFINE x == q \div Base  y == q % Base
<1>4. q = Base * x + y /\ x \in Int /\ y \in Int
  <2>1. q \in Int /\ Base \in Nat \ {0}  BY <1>1, BaseFacts
  <2>2. x \in Int /\ y \in 0 .. Base - 1 /\ q = Base * x + y  BY <2>1, DivMod
  <2> QED  BY <2>1, <2>2
<1>5. q = y + Base * x
  <2> HIDE DEF x, y
  <2> QED  BY <1>4, BaseFacts
<1> QED  BY <1>2, <1>3, <1>5 DEF q

\* A number in range comes back from its bytes.
LEMMA HostUnsignedBytes ==
    ASSUME NEW n \in 0 .. 8, NEW v \in 0 .. Base ^ n - 1
    PROVE  HostUnsigned(HostBytes(v, n)) = v
<1> DEFINE w == [i \in 1 .. n + 1 |-> v \div Base ^ (i - 1)]  b == HostBytes(v, n)
<1>0. Base ^ n \in Nat \ {0} /\ v \in Int  BY PowerNat
<1>1. \A i \in 1 .. n + 1 : v \div Base ^ (i - 1) \in Int
  <2>1. TAKE i \in 1 .. n + 1
  <2>2. i - 1 \in 0 .. 8  OBVIOUS
  <2>3. Base ^ (i - 1) \in Nat \ {0}  BY <2>2, PowerNat
  <2> QED  BY <1>0, <2>3, DivMod
<1>2. w \in [1 .. n + 1 -> Int]  BY <1>1
<1>3. w[n + 1] = 0
  <2>1. v \div Base ^ n = 0
    <3>1. v = Base ^ n * 0 + v /\ v \in 0 .. Base ^ n - 1  BY <1>0
    <3> QED  BY <1>0, <3>1, DivUnique
  <2>2. (n + 1) - 1 = n  OBVIOUS
  <2> QED  BY <2>1, <2>2
<1>4. \A i \in 1 .. n : w[i] = b[i] + Base * w[i + 1]
  <2>1. TAKE i \in 1 .. n
  <2>2. b[i] = (v \div Base ^ (i - 1)) % Base  BY HostBytesAt, <1>0
  <2>3. w[i] = v \div Base ^ (i - 1) /\ w[i + 1] = v \div Base ^ i  BY (i + 1) - 1 = i
  <2>4. i \in 1 .. 8  OBVIOUS
  <2>5. v \div Base ^ (i - 1) = ((v \div Base ^ (i - 1)) % Base) + Base * (v \div Base ^ i)
    BY <1>0, <2>4, QuotientStep
  <2> QED  BY <2>2, <2>3, <2>5
<1>5. b \in [1 .. n -> Int]
  <2>1. b \in [1 .. n -> 0 .. MaxByte]  BY <1>0, HostBytesAt
  <2> QED  BY <2>1
<1>6. w[1] = v
  <2>1. 1 \in 1 .. n + 1 /\ 1 - 1 = 0  OBVIOUS
  <2>2. w[1] = v \div Base ^ (1 - 1)  BY <2>1
  <2>3. w[1] = v \div 1  BY <2>1, <2>2, PowerAssumption
  <2> QED  BY <1>0, <2>3
<1> HIDE DEF w, b
<1>7. ValueFrom(n, b, w)  BY <1>2, <1>3, <1>4, <1>5 DEF ValueFrom
<1>8. HostUnsigned(b) = w[1]  BY <1>7, HostUnsignedIs
<1> QED  BY <1>6, <1>8 DEF b

\* Two numbers that differ by a multiple of Base^n have the same n bytes.
LEMMA HostBytesShift ==
    ASSUME NEW n \in 0 .. 8, NEW v \in Int, NEW c \in Int
    PROVE  HostBytes(v + c * Base ^ n, n) = HostBytes(v, n)
<1>1. ASSUME NEW i \in 1 .. n
      PROVE  ((v + c * Base ^ n) \div Base ^ (i - 1)) % Base = (v \div Base ^ (i - 1)) % Base
  <2> DEFINE p == Base ^ (i - 1)  k == Base ^ (n - i)  q == v \div p
  <2>1. p \in Nat \ {0} /\ k \in Nat \ {0} /\ q \in Int /\ Base \in Nat \ {0}
    <3>1. i - 1 \in 0 .. 8 /\ n - i \in 0 .. 8  OBVIOUS
    <3>2. p \in Nat \ {0} /\ k \in Nat \ {0}  BY <3>1, PowerNat
    <3> QED  BY <3>2, DivMod, BaseFacts
  <2>2. Base ^ n = (Base * k) * p
    <3>1. i - 1 \in 0 .. n /\ n - (i - 1) = (n - i) + 1 /\ n - i \in 0 .. 7  OBVIOUS
    <3>2. Base ^ n = Base ^ (n - (i - 1)) * Base ^ (i - 1)  BY <3>1, PowerSplit
    <3>3. Base ^ ((n - i) + 1) = Base * Base ^ (n - i)  BY <3>1, PowerStep
    <3> QED  BY <3>1, <3>2, <3>3
  <2> HIDE DEF p, k
  <2>3. c * Base ^ n = (c * (Base * k)) * p
    <3>1. c * ((Base * k) * p) = (c * (Base * k)) * p  BY <2>1
    <3> QED  BY <2>2, <3>1
  <2>4. (v + (c * (Base * k)) * p) \div p = q + c * (Base * k)
    <3>1. c * (Base * k) \in Int  BY <2>1
    <3> QED  BY <2>1, <3>1, DivAdd
  <2>5. (q + (c * k) * Base) % Base = q % Base
    <3>1. c * k \in Int  BY <2>1
    <3> HIDE DEF q
    <3> QED  BY <2>1, <3>1, DivAdd
  <2>6. c * (Base * k) = (c * k) * Base  BY <2>1
  <2>7. ((v + c * Base ^ n) \div p) % Base = (v \div p) % Base  BY <2>3, <2>4, <2>5, <2>6
  <2> QED  BY <2>7 DEF p
<1> QED  BY <1>1 DEF HostBytes

\* The integers of n bytes with a sign.
SignedRange(n) == -(Half * Base ^ (n - 1)) .. Half * Base ^ (n - 1) - 1

\* n bytes hold as many negative numbers as others.
LEMMA SignedRangeFacts ==
    ASSUME NEW n \in 1 .. 8
    PROVE  /\ Base ^ (n - 1) \in Nat \ {0} /\ Base ^ n \in Nat \ {0}
           /\ Half * Base ^ (n - 1) \in Nat \ {0}
           /\ Base ^ n = 2 * (Half * Base ^ (n - 1))
           /\ SignedRange(n) \subseteq Int
<1>1. n - 1 \in 0 .. 7 /\ (n - 1) + 1 = n  OBVIOUS
<1>2. Base ^ (n - 1) \in Nat \ {0} /\ Base ^ n \in Nat \ {0}  BY <1>1, PowerNat
<1>3. Base ^ n = Base * Base ^ (n - 1)  BY <1>1, PowerStep
<1>4. Half * Base ^ (n - 1) \in Nat \ {0}  BY <1>2, BaseFacts
<1>5. Base * Base ^ (n - 1) = 2 * (Half * Base ^ (n - 1))  BY <1>2, BaseFacts
<1> QED  BY <1>2, <1>3, <1>4, <1>5 DEF SignedRange

\* The highest byte says the sign.
LEMMA TopByte ==
    ASSUME NEW n \in 1 .. 8, NEW v \in SignedRange(n)
    PROVE  IF v < 0 THEN HostBytes(v, n)[n] \in Half .. MaxByte
                    ELSE HostBytes(v, n)[n] \in 0 .. Half - 1
<1> DEFINE p == Base ^ (n - 1)  q == v \div p
<1>1. p \in Nat \ {0} /\ v \in Int /\ Half \in Nat /\ Half * p \in Nat
  BY SignedRangeFacts, BaseFacts
<1>2. HostBytes(v, n)[n] = q % Base
  <2>1. n \in 0 .. 8 /\ n \in 1 .. n  OBVIOUS
  <2> QED  BY <1>1, <2>1, HostBytesAt
<1>3. -(Half * p) <= v /\ v < Half * p  BY SignedRangeFacts DEF SignedRange
<1> HIDE DEF p
<1>4. CASE v < 0
  <2>1. v \in -(Half * p) .. -1  BY <1>1, <1>3, <1>4
  <2>2. q \in -Half .. -1  BY <1>1, <2>1, DivWithinNegative
  <2> HIDE DEF q
  <2>3. q \in -Base .. -1  BY <2>2, BaseFacts
  <2>4. q % Base = q + Base  BY <2>3, BaseFacts, ModNegative
  <2> QED  BY <1>2, <1>4, <2>2, <2>4, BaseFacts
<1>5. CASE ~(v < 0)
  <2>1. v \in 0 .. Half * p - 1  BY <1>1, <1>3, <1>5
  <2>2. q \in 0 .. Half - 1  BY <1>1, <2>1, DivWithin
  <2> HIDE DEF q
  <2>3. q \in 0 .. Base - 1  BY <2>2, BaseFacts
  <2>4. q % Base = q  BY <2>3, BaseFacts, DivSmall
  <2> QED  BY <1>2, <1>5, <2>2, <2>4
<1> QED  BY <1>4, <1>5

\* A signed number in range comes back from its bytes.
LEMMA HostSignedBytes ==
    ASSUME NEW n \in 1 .. 8, NEW v \in SignedRange(n)
    PROVE  HostSigned(HostBytes(v, n)) = v
<1> DEFINE b == HostBytes(v, n)  h == Half * Base ^ (n - 1)
<1>1. h \in Nat \ {0} /\ Base ^ n = 2 * h /\ v \in Int /\ v \in -h .. h - 1
  BY SignedRangeFacts DEF SignedRange
<1>2. n \in 0 .. 8 /\ Len(b) = n /\ b # <<>>
  <2>0. n \in 0 .. 8 /\ v \in Int  BY <1>1
  <2>1. n \in 0 .. 8 /\ Len(b) = n  BY <2>0, HostBytesAt
  <2> QED  BY <2>1
<1> HIDE DEF h
<1>3. CASE v < 0
  <2>1. b[n] >= Half  BY <1>3, TopByte, BaseFacts
  <2>2. HostSigned(b) = HostUnsigned(b) - Base ^ n  BY <1>2, <2>1 DEF HostSigned
  <2>3. v + Base ^ n \in 0 .. Base ^ n - 1  BY <1>1, <1>3
  <2>4. HostUnsigned(HostBytes(v + Base ^ n, n)) = v + Base ^ n  BY <1>2, <2>3, HostUnsignedBytes
  <2>5. HostBytes(v + 1 * Base ^ n, n) = b  BY <1>1, <1>2, HostBytesShift
  <2>6. 1 * Base ^ n = Base ^ n  BY <1>1
  <2> QED  BY <1>1, <2>2, <2>4, <2>5, <2>6
<1>4. CASE ~(v < 0)
  <2>1. ~(b[n] >= Half)  BY <1>4, TopByte, BaseFacts
  <2>2. HostSigned(b) = HostUnsigned(b)  BY <1>2, <2>1 DEF HostSigned
  <2>3. v \in 0 .. Base ^ n - 1  BY <1>1, <1>4
  <2> QED  BY <1>2, <2>2, <2>3, HostUnsignedBytes
<1> QED  BY <1>3, <1>4

-----------------------------------------------------------------------------
(* The order of the bytes. *)

\* Two sequences that differ first at i.
DifferAt(b, c, i) ==
    /\ i \in 1 .. Len(b) /\ i \in 1 .. Len(c) /\ Len(b) \in Nat /\ Len(c) \in Nat
    /\ b[i] # c[i]
    /\ \A j \in 1 .. i - 1 : b[j] = c[j]

\* The first byte that differs decides the order of two keys.
LEMMA FirstDifference ==
    ASSUME NEW b, NEW c, NEW i, DifferAt(b, c, i)
    PROVE  ByteLess(b, c) <=> b[i] < c[i]
<1> DEFINE n == IF Len(b) < Len(c) THEN Len(b) ELSE Len(c)
           D == {k \in 1 .. n : b[k] # c[k]}
<1>1. i \in D  BY DEF DifferAt
<1>2. ASSUME NEW k \in D, \A j \in D : k <= j PROVE k = i
  <2>1. k <= i  BY <1>1, <1>2
  <2>2. k \in Nat /\ b[k] # c[k] /\ k >= 1  BY DEF DifferAt
  <2>3. k \notin 1 .. i - 1  BY <2>2 DEF DifferAt
  <2>4. i \in Nat  BY DEF DifferAt
  <2> QED  BY <2>1, <2>2, <2>3, <2>4
<1>3. \A j \in D : i <= j
  <2>1. TAKE j \in D
  <2>2. j \in Nat /\ b[j] # c[j] /\ j >= 1  BY DEF DifferAt
  <2>3. j \notin 1 .. i - 1  BY <2>2 DEF DifferAt
  <2>4. i \in Nat  BY DEF DifferAt
  <2> QED  BY <2>2, <2>3, <2>4
<1> HIDE DEF D
<1>4. (CHOOSE k \in D : \A j \in D : k <= j) = i  BY <1>1, <1>2, <1>3
<1>5. ByteLess(b, c) <=> (IF D = {} THEN Len(b) < Len(c)
                          ELSE LET k == CHOOSE k \in D : \A j \in D : k <= j IN b[k] < c[k])
  BY DEF ByteLess, D
<1> QED  BY <1>1, <1>4, <1>5

\* Without a difference the shorter key is less.
LEMMA NoDifference ==
    ASSUME NEW b, NEW c, Len(b) \in Nat, Len(c) \in Nat,
           \A j \in 1 .. (IF Len(b) < Len(c) THEN Len(b) ELSE Len(c)) : b[j] = c[j]
    PROVE  ByteLess(b, c) <=> Len(b) < Len(c)
BY DEF ByteLess

\* The highest byte in which two numbers differ says which is less.
HighestDifference(v, w, n, j) ==
    /\ j \in 1 .. n
    /\ HostBytes(v, n)[j] # HostBytes(w, n)[j]
    /\ \A i \in j + 1 .. n : HostBytes(v, n)[i] = HostBytes(w, n)[i]
    /\ HostBytes(v, n)[j] < HostBytes(w, n)[j] <=> v < w

\* Two different numbers have a highest byte that differs.
LEMMA HighestDifferenceExists ==
    ASSUME NEW n \in 0 .. 8, NEW v \in 0 .. Base ^ n - 1, NEW w \in 0 .. Base ^ n - 1, v # w
    PROVE  \E j \in 1 .. n : HighestDifference(v, w, n, j)
<1>0. v \in Int /\ w \in Int /\ n \in Nat /\ Base ^ n \in Nat \ {0}  BY PowerNat
<1> DEFINE T == {k \in 0 .. n : v \div Base ^ k = w \div Base ^ k}
<1>1. n \in T
  <2>1. v \div Base ^ n = 0 /\ w \div Base ^ n = 0  BY <1>0, DivSmall
  <2> QED  BY <1>0, <2>1
<1>2. 0 \notin T
  <2>1. v \div 1 = v /\ w \div 1 = w  BY <1>0
  <2> QED  BY <2>1, PowerAssumption
<1>3. PICK j \in T : \A y \in T : j <= y
  <2>1. T \in SUBSET Nat /\ T # {}  BY <1>1
  <2> HIDE DEF T
  <2> QED  BY <2>1, LeastNat
<1>4. j \in 1 .. n /\ j - 1 \in 0 .. n /\ v \div Base ^ j = w \div Base ^ j
  <2>1. j \in 0 .. n /\ j # 0 /\ v \div Base ^ j = w \div Base ^ j  BY <1>2
  <2> QED  BY <2>1
<1>5. v \div Base ^ (j - 1) # w \div Base ^ (j - 1)
  <2>1. j - 1 \notin T  BY <1>3, <1>4
  <2> QED  BY <1>4, <2>1
<1> HIDE DEF T
<1> DEFINE x == v \div Base ^ (j - 1)  y == w \div Base ^ (j - 1)  q == v \div Base ^ j
           d == HostBytes(v, n)[j]  e == HostBytes(w, n)[j]
<1>6. d = x % Base /\ e = y % Base /\ d \in Nat /\ e \in Nat
  <2>1. d = x % Base /\ d \in 0 .. MaxByte  BY <1>0, <1>4, HostByteAt
  <2>2. e = y % Base /\ e \in 0 .. MaxByte  BY <1>0, <1>4, HostByteAt
  <2> QED  BY <2>1, <2>2
<1>7. x = d + Base * q /\ y = e + Base * q
  <2>1. j \in 1 .. 8  BY <1>4
  <2>2. x = (x % Base) + Base * q  BY <1>0, <2>1, QuotientStep
  <2>3. y = (y % Base) + Base * (w \div Base ^ j)  BY <1>0, <2>1, QuotientStep
  <2> QED  BY <1>4, <1>6, <2>2, <2>3
<1>8. q \in Int /\ Base ^ (j - 1) \in Nat \ {0}
  <2>1. j \in 0 .. 8 /\ j - 1 \in 0 .. 8  BY <1>4
  <2>2. Base ^ j \in Nat \ {0} /\ Base ^ (j - 1) \in Nat \ {0}  BY <2>1, PowerNat
  <2> QED  BY <1>0, <2>2, DivMod
<1>9. d # e /\ (d < e => x < y) /\ (e < d => y < x)
  <2> HIDE DEF x, y, d, e, q
  <2>1. Base * q \in Int  BY <1>8, BaseFacts
  <2>2. x # y  BY <1>5 DEF x, y
  <2> QED  BY <1>6, <1>7, <2>1, <2>2
<1>10. (x < y => v < w) /\ (y < x => w < v)  BY <1>0, <1>8, DivMono
<1>11. d < e <=> v < w
  <2> HIDE DEF x, y, d, e
  <2> QED  BY <1>0, <1>6, <1>9, <1>10
<1>12. ASSUME NEW i \in j + 1 .. n PROVE HostBytes(v, n)[i] = HostBytes(w, n)[i]
  <2>1. i \in 1 .. n /\ i - 1 \in 0 .. 8 /\ j \in 0 .. i - 1 /\ (i - 1) - j \in 0 .. 8  BY <1>4
  <2>2. Base ^ (i - 1) = Base ^ ((i - 1) - j) * Base ^ j  BY <2>1, PowerSplit
  <2>3. Base ^ ((i - 1) - j) \in Nat \ {0} /\ Base ^ j \in Nat \ {0}  BY <1>4, <2>1, PowerNat
  <2>4. v \div Base ^ (i - 1) = (v \div Base ^ j) \div Base ^ ((i - 1) - j)
    BY <1>0, <2>2, <2>3, DivDiv
  <2>5. w \div Base ^ (i - 1) = (w \div Base ^ j) \div Base ^ ((i - 1) - j)
    BY <1>0, <2>2, <2>3, DivDiv
  <2>6. HostBytes(v, n)[i] = (v \div Base ^ (i - 1)) % Base  BY <1>0, <2>1, HostBytesAt
  <2>7. HostBytes(w, n)[i] = (w \div Base ^ (i - 1)) % Base  BY <1>0, <2>1, HostBytesAt
  <2> QED  BY <1>4, <2>4, <2>5, <2>6, <2>7
<1> QED  BY <1>4, <1>9, <1>11, <1>12 DEF HighestDifference

\* The n bytes of a number, the highest first.
NetworkBytes(v, n) == host_to_network(HostBytes(v, n))

\* The bytes of a number, the highest one first.
LEMMA NetworkBytesAt ==
    ASSUME NEW n \in 0 .. 8, NEW v \in Int
    PROVE  /\ NetworkBytes(v, n) \in [1 .. n -> 0 .. MaxByte]
           /\ NetworkBytes(v, n) \in Seq(Int) /\ Len(NetworkBytes(v, n)) = n
           /\ \A i \in 1 .. n : NetworkBytes(v, n)[i] = HostBytes(v, n)[(n - i) + 1]
<1> DEFINE b == HostBytes(v, n)
<1>1. b \in [1 .. n -> 0 .. MaxByte] /\ Len(b) = n  BY HostBytesAt
<1> HIDE DEF b
<1>2. NetworkBytes(v, n) = [i \in 1 .. n |-> b[(n - i) + 1]]
  BY <1>1 DEF NetworkBytes, host_to_network, Reverse, b
<1>3. \A i \in 1 .. n : (n - i) + 1 \in 1 .. n  OBVIOUS
<1>4. NetworkBytes(v, n) \in [1 .. n -> 0 .. MaxByte]  BY <1>1, <1>2, <1>3
<1>5. NetworkBytes(v, n) \in Seq(Int) /\ Len(NetworkBytes(v, n)) = n
  <2>1. n \in Nat /\ 0 .. MaxByte \subseteq Int  OBVIOUS
  <2> QED  BY <1>4, <2>1
<1> QED  BY <1>2, <1>4, <1>5 DEF b

\* With the highest byte first, the order of the bytes is that of the numbers.
LEMMA NetworkOrder ==
    ASSUME NEW n \in 0 .. 8, NEW v \in 0 .. Base ^ n - 1, NEW w \in 0 .. Base ^ n - 1
    PROVE  ByteLess(NetworkBytes(v, n), NetworkBytes(w, n)) <=> v < w
<1> DEFINE b == NetworkBytes(v, n)  c == NetworkBytes(w, n)
<1>0. v \in Int /\ w \in Int  BY PowerNat
<1>1. Len(b) = n /\ \A i \in 1 .. n : b[i] = HostBytes(v, n)[(n - i) + 1]  BY <1>0, NetworkBytesAt
<1>2. Len(c) = n /\ \A i \in 1 .. n : c[i] = HostBytes(w, n)[(n - i) + 1]  BY <1>0, NetworkBytesAt
<1>3. CASE v = w
  <2>1. Len(b) \in Nat /\ Len(c) \in Nat /\ b = c /\ ~(Len(b) < Len(c))  BY <1>1, <1>2, <1>3
  <2> HIDE DEF b, c
  <2>2. ByteLess(b, c) <=> Len(b) < Len(c)  BY <2>1, NoDifference
  <2> QED  BY <1>0, <1>3, <2>1, <2>2 DEF b, c
<1>4. CASE v # w
  <2>1. PICK j \in 1 .. n : HighestDifference(v, w, n, j)  BY <1>4, HighestDifferenceExists
  <2> DEFINE i == (n - j) + 1
  <2>2. i \in 1 .. n /\ (n - i) + 1 = j  OBVIOUS
  <2>3. b[i] = HostBytes(v, n)[j] /\ c[i] = HostBytes(w, n)[j]  BY <1>1, <1>2, <2>2
  <2>4. b[i] # c[i] /\ (b[i] < c[i] <=> v < w)  BY <2>1, <2>3 DEF HighestDifference
  <2>5. ASSUME NEW k \in 1 .. i - 1 PROVE b[k] = c[k]
    <3>1. k \in 1 .. n /\ (n - k) + 1 \in j + 1 .. n  OBVIOUS
    <3>2. HostBytes(v, n)[(n - k) + 1] = HostBytes(w, n)[(n - k) + 1]
      BY <2>1, <3>1 DEF HighestDifference
    <3> QED  BY <1>1, <1>2, <3>1, <3>2
  <2> HIDE DEF b, c, i
  <2>6. DifferAt(b, c, i)  BY <1>1, <1>2, <2>2, <2>4, <2>5 DEF DifferAt
  <2>7. ByteLess(b, c) <=> b[i] < c[i]  BY <2>6, FirstDifference
  <2> QED  BY <2>4, <2>7 DEF b, c
<1> QED  BY <1>3, <1>4

\* grn_key[0] ^= 0x80 adds half of the range.
LEMMA FlipTopNetwork ==
    ASSUME NEW n \in 1 .. 8, NEW v \in Int
    PROVE  FlipTop(NetworkBytes(v, n)) = NetworkBytes(v + Half * Base ^ (n - 1), n)
<1> DEFINE b == NetworkBytes(v, n)  h == Half * Base ^ (n - 1)  c == NetworkBytes(v + h, n)
           p == Base ^ (n - 1)
<1>0. p \in Nat \ {0} /\ h \in Nat /\ v + h \in Int /\ n \in 0 .. 8  BY SignedRangeFacts
<1> HIDE DEF h
<1>1. b \in [1 .. n -> 0 .. MaxByte] /\ \A i \in 1 .. n : b[i] = HostBytes(v, n)[(n - i) + 1]
  BY <1>0, NetworkBytesAt
<1>2. c \in [1 .. n -> 0 .. MaxByte] /\ \A i \in 1 .. n : c[i] = HostBytes(v + h, n)[(n - i) + 1]
  BY <1>0, NetworkBytesAt
<1>3. (b[1] + Half) % Base = c[1]
  <2> DEFINE q == v \div p
  <2>1. 1 \in 1 .. n /\ (n - 1) + 1 = n /\ n \in 1 .. n  OBVIOUS
  <2>2. b[1] = q % Base
    <3>1. HostBytes(v, n)[n] = q % Base  BY <1>0, <2>1, HostBytesAt
    <3> QED  BY <1>1, <2>1, <3>1
  <2>3. c[1] = ((v + h) \div p) % Base
    <3>1. HostBytes(v + h, n)[n] = ((v + h) \div p) % Base  BY <1>0, <2>1, HostBytesAt
    <3> QED  BY <1>2, <2>1, <3>1
  <2>4. (v + Half * p) \div p = q + Half /\ q \in Int
    <3> HIDE DEF p
    <3>1. Half \in Int  BY BaseFacts
    <3>2. (v + Half * p) \div p = q + Half  BY <1>0, <3>1, DivAdd
    <3>3. q \in Int  BY <1>0, DivMod
    <3> QED  BY <3>2, <3>3
  <2>5. c[1] = (q + Half) % Base  BY <2>3, <2>4 DEF h
  <2> HIDE DEF q
  <2> DEFINE x == q \div Base  y == q % Base
  <2>6. x \in Int /\ y \in 0 .. Base - 1 /\ q = Base * x + y  BY <2>4, BaseFacts, DivMod
  <2> HIDE DEF x, y
  <2>7. q + Half = (y + Half) + x * Base  BY <2>6, BaseFacts
  <2>8. ((y + Half) + x * Base) % Base = (y + Half) % Base
    <3>1. y + Half \in Int /\ x \in Int /\ Base \in Nat \ {0}  BY <2>6, BaseFacts
    <3> QED  BY <3>1, DivAdd
  <2> QED  BY <2>2, <2>5, <2>7, <2>8 DEF y
<1>4. ASSUME NEW i \in 2 .. n PROVE b[i] = c[i]
  <2> DEFINE j == (n - i) + 1
  <2>1. i \in 1 .. n /\ j \in 1 .. n - 1 /\ j \in 1 .. n /\ n - 1 \in 0 .. 8 /\ j - 1 \in 0 .. 8
    OBVIOUS
  <2>2. HostBytes(v + Half * Base ^ (n - 1), n - 1) = HostBytes(v, n - 1)
    <3>1. Half \in Int  BY BaseFacts
    <3> QED  BY <2>1, <3>1, HostBytesShift
  <2>3. HostBytes(v, n - 1)[j] = (v \div Base ^ (j - 1)) % Base  BY <2>1, HostBytesAt
  <2>4. HostBytes(v + h, n - 1)[j] = ((v + h) \div Base ^ (j - 1)) % Base  BY <1>0, <2>1, HostBytesAt
  <2>5. HostBytes(v, n)[j] = (v \div Base ^ (j - 1)) % Base  BY <1>0, <2>1, HostBytesAt
  <2>6. HostBytes(v + h, n)[j] = ((v + h) \div Base ^ (j - 1)) % Base  BY <1>0, <2>1, HostBytesAt
  <2>7. HostBytes(v + h, n)[j] = HostBytes(v, n)[j]  BY <2>2, <2>3, <2>4, <2>5, <2>6 DEF h
  <2> QED  BY <1>1, <1>2, <2>1, <2>7
<1> HIDE DEF b, c
<1>5. [b EXCEPT ![1] = (b[1] + Half) % Base] = c
  <2>1. \A i \in 1 .. n : [b EXCEPT ![1] = (b[1] + Half) % Base][i] = c[i]
    <3>1. TAKE i \in 1 .. n
    <3>2. CASE i = 1  BY <1>1, <1>3, <3>2
    <3>3. CASE i # 1
      <4>1. i \in 2 .. n  BY <3>3
      <4> QED  BY <1>1, <1>4, <3>3, <4>1
    <3> QED  BY <3>2, <3>3
  <2>2. DOMAIN [b EXCEPT ![1] = (b[1] + Half) % Base] = 1 .. n /\ DOMAIN c = 1 .. n  BY <1>1, <1>2
  <2> QED  BY <1>1, <1>2, <2>1, <2>2
<1> QED  BY <1>5 DEF FlipTop, b, c, h

\* The quotient and the rest of the complement of a number.
LEMMA ComplementDiv ==
    ASSUME NEW x \in Int, NEW p \in Nat \ {0}
    PROVE  (-1 - x) \div p = -1 - (x \div p) /\ (-1 - x) % p = (p - 1) - (x % p)
<1> DEFINE q == x \div p  r == x % p
<1>1. q \in Int /\ r \in 0 .. p - 1 /\ x = p * q + r  BY DivMod
<1> HIDE DEF q, r
<1>2. -1 - x = p * (-1 - q) + ((p - 1) - r)  BY <1>1
<1>3. -1 - q \in Int /\ (p - 1) - r \in 0 .. p - 1  BY <1>1
<1>4. /\ (p * (-1 - q) + ((p - 1) - r)) \div p = -1 - q
      /\ (p * (-1 - q) + ((p - 1) - r)) % p = (p - 1) - r
  BY <1>3, DivUnique
<1> QED  BY <1>2, <1>4 DEF q, r

\* Flipping all the bits makes the complement.
LEMMA FlipAllNetwork ==
    ASSUME NEW n \in 0 .. 8, NEW x \in Int
    PROVE  FlipAll(NetworkBytes(x, n)) = NetworkBytes((Base ^ n - 1) - x, n)
<1> DEFINE y == -1 - x
<1>0. Base ^ n \in Nat /\ (-1 - x) \in Int /\ (Base ^ n - 1) - x \in Int  BY PowerNat
<1>1. HostBytes((Base ^ n - 1) - x, n) = HostBytes(-1 - x, n)
  <2>1. HostBytes((-1 - x) + 1 * Base ^ n, n) = HostBytes(-1 - x, n)  BY <1>0, HostBytesShift
  <2>2. (-1 - x) + 1 * Base ^ n = (Base ^ n - 1) - x  BY <1>0
  <2> QED  BY <2>1, <2>2
<1>2. NetworkBytes((Base ^ n - 1) - x, n) = NetworkBytes(-1 - x, n)  BY <1>1 DEF NetworkBytes
<1> DEFINE b == NetworkBytes(x, n)  c == NetworkBytes(-1 - x, n)
<1>3. b \in [1 .. n -> 0 .. MaxByte] /\ \A i \in 1 .. n : b[i] = HostBytes(x, n)[(n - i) + 1]
  BY NetworkBytesAt
<1>4. c \in [1 .. n -> 0 .. MaxByte] /\ \A i \in 1 .. n : c[i] = HostBytes(-1 - x, n)[(n - i) + 1]
  BY <1>0, NetworkBytesAt
<1>5. ASSUME NEW i \in 1 .. n PROVE MaxByte - b[i] = c[i]
  <2> DEFINE j == (n - i) + 1  q == x \div Base ^ (j - 1)
  <2>1. j \in 1 .. n /\ j - 1 \in 0 .. 8  OBVIOUS
  <2>2. Base ^ (j - 1) \in Nat \ {0}  BY <2>1, PowerNat
  <2>3. q \in Int /\ (-1 - x) \div Base ^ (j - 1) = -1 - q  BY <2>2, DivMod, ComplementDiv
  <2>4. HostBytes(x, n)[j] = q % Base  BY <2>1, HostBytesAt
  <2>5. HostBytes(-1 - x, n)[j] = (-1 - q) % Base  BY <1>0, <2>1, <2>3, HostByteAt
  <2> HIDE DEF q
  <2>6. (-1 - q) % Base = (Base - 1) - (q % Base)  BY <2>3, ComplementDiv, BaseFacts
  <2> QED  BY <1>3, <1>4, <2>4, <2>5, <2>6, BaseFacts
<1> HIDE DEF b, c
<1>6. [i \in DOMAIN b |-> MaxByte - b[i]] = c
  <2>1. DOMAIN b = 1 .. n /\ c = [i \in 1 .. n |-> c[i]]  BY <1>3, <1>4
  <2> QED  BY <1>5, <2>1
<1> QED  BY <1>2, <1>6 DEF FlipAll, b, c

\* encode_number() and encode_long_long_int(): the sign moves the number up.
LEMMA NumberOrder ==
    ASSUME NEW n \in 1 .. 8, NEW v \in SignedRange(n), NEW w \in SignedRange(n)
    PROVE  /\ ByteLess(encode_number(v, n, TRUE), encode_number(w, n, TRUE)) <=> v < w
           /\ ByteLess(encode_long_long_int(v, n), encode_long_long_int(w, n)) <=> v < w
<1> DEFINE h == Half * Base ^ (n - 1)
<1>1. h \in Nat \ {0} /\ Base ^ n = 2 * h /\ v \in Int /\ w \in Int
      /\ v \in -h .. h - 1 /\ w \in -h .. h - 1
  BY SignedRangeFacts DEF SignedRange
<1>2. /\ FlipTop(NetworkBytes(v, n)) = NetworkBytes(v + h, n)
      /\ FlipTop(NetworkBytes(w, n)) = NetworkBytes(w + h, n)
  BY <1>1, FlipTopNetwork
<1> HIDE DEF h
<1>3. v + h \in 0 .. Base ^ n - 1 /\ w + h \in 0 .. Base ^ n - 1 /\ n \in 0 .. 8  BY <1>1
<1>4. ByteLess(NetworkBytes(v + h, n), NetworkBytes(w + h, n)) <=> v + h < w + h
  BY <1>3, NetworkOrder
<1>5. v + h < w + h <=> v < w  BY <1>1
<1>6. ByteLess(FlipTop(NetworkBytes(v, n)), FlipTop(NetworkBytes(w, n))) <=> v < w
  BY <1>2, <1>4, <1>5
<1> QED  BY <1>6 DEF encode_number, encode_long_long_int, NetworkBytes

\* Unsigned numbers and the reversed bytes of a date keep their order.
LEMMA UnsignedOrder ==
    ASSUME NEW n \in 0 .. 8, NEW v \in 0 .. Base ^ n - 1, NEW w \in 0 .. Base ^ n - 1
    PROVE  /\ ByteLess(encode_number(v, n, FALSE), encode_number(w, n, FALSE)) <=> v < w
           /\ ByteLess(Reverse(HostBytes(v, n)), Reverse(HostBytes(w, n))) <=> v < w
BY NetworkOrder DEF encode_number, NetworkBytes, host_to_network

\* The floats of n bytes, without a negative zero, and their order.
FloatRange(n) ==
    {x \in [neg : BOOLEAN, mag : 0 .. Half * Base ^ (n - 1) - 1] : x.neg => x.mag # 0}
FloatRank(x) == IF x.neg THEN -x.mag ELSE x.mag

\* encode_float() keeps the order, also of negative numbers.
LEMMA FloatOrder ==
    ASSUME NEW n \in 1 .. 8, NEW x \in FloatRange(n), NEW y \in FloatRange(n)
    PROVE  ByteLess(encode_float(x, n), encode_float(y, n)) <=> FloatRank(x) < FloatRank(y)
<1> DEFINE h == Half * Base ^ (n - 1)
           Place(z) == IF z.neg THEN (h - 1) - z.mag ELSE z.mag + h
<1>1. h \in Nat \ {0} /\ Base ^ n = 2 * h  BY SignedRangeFacts
<1>2. ASSUME NEW z \in FloatRange(n)
      PROVE  /\ z.neg \in BOOLEAN /\ z.mag \in 0 .. h - 1 /\ (z.neg => z.mag # 0)
             /\ Place(z) \in 0 .. Base ^ n - 1
             /\ encode_float(z, n) = NetworkBytes(Place(z), n)
  <2>1. z.neg \in BOOLEAN /\ z.mag \in 0 .. h - 1 /\ (z.neg => z.mag # 0)  BY DEF FloatRange
  <2>2. z.mag \in Int /\ z.mag + h \in Int  BY <1>1, <2>1
  <2>3. FlipTop(NetworkBytes(z.mag, n)) = NetworkBytes(z.mag + h, n)  BY <2>2, FlipTopNetwork
  <2> HIDE DEF h
  <2>4. FlipAll(NetworkBytes(z.mag + h, n)) = NetworkBytes((Base ^ n - 1) - (z.mag + h), n)
    <3>1. n \in 0 .. 8  OBVIOUS
    <3> QED  BY <2>2, <3>1, FlipAllNetwork
  <2>5. (Base ^ n - 1) - (z.mag + h) = (h - 1) - z.mag  BY <1>1, <2>2
  <2>6. encode_float(z, n) = IF z.neg THEN FlipAll(FlipTop(NetworkBytes(z.mag, n)))
                                      ELSE FlipTop(NetworkBytes(z.mag, n))
    BY DEF encode_float, NetworkBytes
  <2>7. encode_float(z, n) = NetworkBytes(Place(z), n)  BY <2>3, <2>4, <2>5, <2>6
  <2>8. Place(z) \in 0 .. Base ^ n - 1  BY <1>1, <2>1
  <2> QED  BY <2>1, <2>7, <2>8
<1> HIDE DEF h
<1>3. Place(x) < Place(y) <=> FloatRank(x) < FloatRank(y)
  BY <1>1, <1>2 DEF FloatRank
<1> HIDE DEF Place
<1>4. ByteLess(NetworkBytes(Place(x), n), NetworkBytes(Place(y), n)) <=> Place(x) < Place(y)
  BY <1>2, NetworkOrder
<1> QED  BY <1>2, <1>3, <1>4

\* What the encoders make is a sequence of numbers.
LEMMA FlippedBytes ==
    ASSUME NEW n \in 1 .. 8, NEW v \in Int
    PROVE  FlipTop(NetworkBytes(v, n)) \in Seq(Int) /\ FlipAll(FlipTop(NetworkBytes(v, n))) \in Seq(Int)
<1> DEFINE x == v + Half * Base ^ (n - 1)  y == (Base ^ n - 1) - x
<1>1. Base ^ (n - 1) \in Nat \ {0} /\ Half \in Nat \ {0} /\ Base ^ n \in Nat \ {0} /\ n \in 0 .. 8
  BY SignedRangeFacts, BaseFacts
<1>2. x \in Int /\ y \in Int  BY <1>1
<1>3. FlipTop(NetworkBytes(v, n)) = NetworkBytes(x, n)  BY FlipTopNetwork
<1> HIDE DEF x
<1>4. FlipAll(NetworkBytes(x, n)) = NetworkBytes(y, n)  BY <1>1, <1>2, FlipAllNetwork
<1> HIDE DEF y
<1>5. NetworkBytes(x, n) \in Seq(Int) /\ NetworkBytes(y, n) \in Seq(Int)  BY <1>1, <1>2, NetworkBytesAt
<1> QED  BY <1>3, <1>4, <1>5

\* Of two sequences one goes on where the other ends, or they differ first somewhere.
LEMMA DifferOrNot ==
    ASSUME NEW b, NEW c, Len(b) \in Nat, Len(c) \in Nat,
           \E j \in 1 .. Len(b) : j \in 1 .. Len(c) /\ b[j] # c[j]
    PROVE  \E i \in Nat : DifferAt(b, c, i)
<1> DEFINE T == {j \in 1 .. Len(b) : j \in 1 .. Len(c) /\ b[j] # c[j]}
<1>1. T \in SUBSET Nat /\ T # {}  OBVIOUS
<1>2. PICK i \in T : \A y \in T : i <= y
  <2> HIDE DEF T
  <2> QED  BY <1>1, LeastNat
<1>3. i \in 1 .. Len(b) /\ i \in 1 .. Len(c) /\ b[i] # c[i] /\ i \in Nat  OBVIOUS
<1>4. ASSUME NEW j \in 1 .. i - 1 PROVE b[j] = c[j]
  <2>1. j \in 1 .. Len(b) /\ j \in 1 .. Len(c) /\ ~(i <= j)  BY <1>3
  <2>2. j \notin T  BY <1>2, <2>1
  <2> QED  BY <2>1, <2>2
<1> QED  BY <1>3, <1>4 DEF DifferAt

\* The byte that says whether a part may be NULL does not change the order.
LEMMA PrefixedOrder ==
    ASSUME NEW b \in Seq(Int), NEW c \in Seq(Int)
    PROVE  ByteLess(<<0>> \o b, <<0>> \o c) <=> ByteLess(b, c)
<1> DEFINE d == <<0>> \o b  e == <<0>> \o c
<1>1. Len(b) \in Nat /\ Len(c) \in Nat  OBVIOUS
<1>2. Len(d) = Len(b) + 1 /\ d[1] = 0 /\ \A i \in 1 .. Len(b) : d[i + 1] = b[i]  OBVIOUS
<1>3. Len(e) = Len(c) + 1 /\ e[1] = 0 /\ \A i \in 1 .. Len(c) : e[i + 1] = c[i]  OBVIOUS
<1> HIDE DEF d, e
<1>4. CASE \E j \in 1 .. Len(b) : j \in 1 .. Len(c) /\ b[j] # c[j]
  <2>1. PICK i \in Nat : DifferAt(b, c, i)  BY <1>1, <1>4, DifferOrNot
  <2>2. i \in 1 .. Len(b) /\ i \in 1 .. Len(c) /\ b[i] # c[i] /\ \A j \in 1 .. i - 1 : b[j] = c[j]
    BY <2>1 DEF DifferAt
  <2>3. d[i + 1] = b[i] /\ e[i + 1] = c[i]  BY <1>2, <1>3, <2>2
  <2>4. ASSUME NEW j \in 1 .. (i + 1) - 1 PROVE d[j] = e[j]
    <3>1. CASE j = 1  BY <1>2, <1>3, <3>1
    <3>2. CASE j # 1
      <4>1. j - 1 \in 1 .. i - 1 /\ j - 1 \in 1 .. Len(b) /\ j - 1 \in 1 .. Len(c) /\ (j - 1) + 1 = j
        BY <1>1, <2>2, <3>2
      <4>2. d[j] = b[j - 1] /\ e[j] = c[j - 1]  BY <1>2, <1>3, <4>1
      <4> QED  BY <2>2, <4>1, <4>2
    <3> QED  BY <3>1, <3>2
  <2>5. DifferAt(d, e, i + 1)  BY <1>1, <1>2, <1>3, <2>2, <2>3, <2>4 DEF DifferAt
  <2>6. ByteLess(d, e) <=> d[i + 1] < e[i + 1]  BY <2>5, FirstDifference
  <2>7. ByteLess(b, c) <=> b[i] < c[i]  BY <2>1, FirstDifference
  <2> QED  BY <2>3, <2>6, <2>7 DEF d, e
<1>5. CASE ~\E j \in 1 .. Len(b) : j \in 1 .. Len(c) /\ b[j] # c[j]
  <2>1. ByteLess(b, c) <=> Len(b) < Len(c)
    <3>1. \A j \in 1 .. (IF Len(b) < Len(c) THEN Len(b) ELSE Len(c)) : b[j] = c[j]
      BY SMTT(30), <1>1, <1>5
    <3> QED  BY <1>1, <3>1, NoDifference
  <2>2. ByteLess(d, e) <=> Len(d) < Len(e)
    <3>1. ASSUME NEW j \in 1 .. (IF Len(d) < Len(e) THEN Len(d) ELSE Len(e)) PROVE d[j] = e[j]
      <4>1. CASE j = 1  BY <1>2, <1>3, <4>1
      <4>2. CASE j # 1
        <5>1. j - 1 \in 1 .. Len(b) /\ j - 1 \in 1 .. Len(c) /\ (j - 1) + 1 = j
          BY <1>1, <1>2, <1>3, <4>2
        <5>2. d[j] = b[j - 1] /\ e[j] = c[j - 1]  BY <1>2, <1>3, <5>1
        <5> QED  BY <1>5, <5>1, <5>2
      <4> QED  BY <4>1, <4>2
    <3>2. Len(d) \in Nat /\ Len(e) \in Nat  BY <1>1, <1>2, <1>3
    <3> QED  BY <3>1, <3>2, NoDifference
  <2> QED  BY <1>1, <1>2, <1>3, <2>1, <2>2 DEF d, e
<1> QED  BY <1>4, <1>5

\* What a padded string holds.
LEMMA PadAt ==
    ASSUME NEW n \in Nat, NEW b \in Seq(Int), Len(b) <= n, NEW x \in Int
    PROVE  /\ Pad(b, n, x) \in Seq(Int) /\ Len(Pad(b, n, x)) = n
           /\ \A i \in 1 .. Len(b) : Pad(b, n, x)[i] = b[i]
           /\ \A i \in Len(b) + 1 .. n : Pad(b, n, x)[i] = x
<1> DEFINE c == [i \in 1 .. (n - Len(b)) |-> x]
<1>1. Len(b) \in Nat /\ n - Len(b) \in Nat  OBVIOUS
<1>2. c \in Seq(Int) /\ Len(c) = n - Len(b)  BY <1>1
<1>3. \A i \in 1 .. n - Len(b) : c[i] = x  OBVIOUS
<1> HIDE DEF c
<1>4. b \o c \in Seq(Int) /\ Len(b \o c) = n  BY <1>1, <1>2
<1>5. \A i \in 1 .. Len(b) : (b \o c)[i] = b[i]  BY <1>1, <1>2
<1>6. ASSUME NEW i \in Len(b) + 1 .. n PROVE (b \o c)[i] = x
  <2>1. i - Len(b) \in 1 .. n - Len(b) /\ i \in 1 .. Len(b) + Len(c) /\ ~(i <= Len(b))  BY <1>1, <1>2
  <2>2. (b \o c)[i] = c[i - Len(b)]  BY <1>1, <1>2, <2>1
  <2> QED  BY <1>3, <2>1, <2>2
<1> QED  BY <1>4, <1>5, <1>6 DEF Pad, c

\* Texts without the byte 0 keep their order when they are filled up with it.
LEMMA BlobOrder ==
    ASSUME NEW n \in Nat, NEW v \in Seq(1 .. MaxByte), NEW w \in Seq(1 .. MaxByte),
           Len(v) <= n, Len(w) <= n
    PROVE  ByteLess(encode_blob(v, n), encode_blob(w, n)) <=> ByteLess(v, w)
<1> DEFINE x == HostBytes(Len(v), BlobLength)  y == HostBytes(Len(w), BlobLength)
           b == Pad(v, n, 0) \o x  c == Pad(w, n, 0) \o y
<1>0. MaxByte \in Int  BY BaseFacts
<1>1. v \in Seq(Int) /\ w \in Seq(Int) /\ Len(v) \in Nat /\ Len(w) \in Nat
      /\ (\A i \in 1 .. Len(v) : v[i] \in Int /\ v[i] > 0)
      /\ (\A i \in 1 .. Len(w) : w[i] \in Int /\ w[i] > 0)
  <2>1. Len(v) \in Nat /\ Len(w) \in Nat  OBVIOUS
  <2>2. \A i \in 1 .. Len(v) : v[i] \in 1 .. MaxByte  BY ElementOfSeq
  <2>3. \A i \in 1 .. Len(w) : w[i] \in 1 .. MaxByte  BY ElementOfSeq
  <2>4. v \in Seq(Int) /\ w \in Seq(Int)
    <3>1. v = [i \in 1 .. Len(v) |-> v[i]] /\ w = [i \in 1 .. Len(w) |-> w[i]]  OBVIOUS
    <3>2. \A i \in 1 .. Len(v) : v[i] \in Int  BY <2>2
    <3>3. \A i \in 1 .. Len(w) : w[i] \in Int  BY <2>3
    <3>4. v \in [1 .. Len(v) -> Int]  BY <3>1, <3>2
    <3>5. w \in [1 .. Len(w) -> Int]  BY <3>1, <3>3
    <3> QED  BY <2>1, <3>4, <3>5
  <2> QED  BY <1>0, <2>1, <2>2, <2>3, <2>4
<1>2. /\ Pad(v, n, 0) \in Seq(Int) /\ Len(Pad(v, n, 0)) = n
      /\ (\A i \in 1 .. Len(v) : Pad(v, n, 0)[i] = v[i])
      /\ \A i \in Len(v) + 1 .. n : Pad(v, n, 0)[i] = 0
  BY <1>1, PadAt
<1>3. /\ Pad(w, n, 0) \in Seq(Int) /\ Len(Pad(w, n, 0)) = n
      /\ (\A i \in 1 .. Len(w) : Pad(w, n, 0)[i] = w[i])
      /\ \A i \in Len(w) + 1 .. n : Pad(w, n, 0)[i] = 0
  BY <1>1, PadAt
<1>4. BlobLength \in 0 .. 8  BY BlobAssumption
<1>5. x \in Seq(Int) /\ Len(x) = BlobLength /\ y \in Seq(Int) /\ Len(y) = BlobLength
  <2>1. Len(v) \in Int /\ Len(w) \in Int  BY <1>1
  <2> QED  BY <1>4, <2>1, HostBytesAt
<1> HIDE DEF x, y
<1>6. Len(b) = n + BlobLength /\ \A i \in 1 .. n : b[i] = Pad(v, n, 0)[i]
  BY <1>2, <1>4, <1>5
<1>7. Len(c) = n + BlobLength /\ \A i \in 1 .. n : c[i] = Pad(w, n, 0)[i]
  BY <1>3, <1>4, <1>5
<1> HIDE DEF b, c
<1>8. Len(b) \in Nat /\ Len(c) \in Nat /\ n <= Len(b) /\ n <= Len(c) /\ ~(Len(b) < Len(c))
  BY <1>4, <1>6, <1>7
<1>9. CASE \E j \in 1 .. Len(v) : j \in 1 .. Len(w) /\ v[j] # w[j]
  <2>1. PICK i \in Nat : DifferAt(v, w, i)  BY <1>1, <1>9, DifferOrNot
  <2>2. i \in 1 .. Len(v) /\ i \in 1 .. Len(w) /\ v[i] # w[i] /\ \A j \in 1 .. i - 1 : v[j] = w[j]
    BY <2>1 DEF DifferAt
  <2>3. ASSUME NEW j \in 1 .. i PROVE b[j] = v[j] /\ c[j] = w[j]
    <3>1. j \in 1 .. Len(v) /\ j \in 1 .. Len(w) /\ j \in 1 .. n  BY <1>1, <2>2
    <3> QED  BY <1>2, <1>3, <1>6, <1>7, <3>1
  <2>4. b[i] = v[i] /\ c[i] = w[i] /\ \A j \in 1 .. i - 1 : b[j] = c[j]
    <3>1. i \in 1 .. i /\ 1 .. i - 1 \subseteq 1 .. i  BY <1>1, <2>2
    <3> QED  BY <2>2, <2>3, <3>1
  <2>5. DifferAt(b, c, i)  BY <1>1, <1>8, <2>2, <2>4 DEF DifferAt
  <2>6. ByteLess(b, c) <=> b[i] < c[i]  BY <2>5, FirstDifference
  <2>7. ByteLess(v, w) <=> v[i] < w[i]  BY <2>1, FirstDifference
  <2> QED  BY <2>4, <2>6, <2>7 DEF encode_blob, b, c, x, y
<1>10. CASE ~\E j \in 1 .. Len(v) : j \in 1 .. Len(w) /\ v[j] # w[j]
  <2>1. ByteLess(v, w) <=> Len(v) < Len(w)
    <3>1. \A j \in 1 .. (IF Len(v) < Len(w) THEN Len(v) ELSE Len(w)) : v[j] = w[j]  BY <1>1, <1>10
    <3> QED  BY <1>1, <3>1, NoDifference
  <2>2. CASE Len(v) = Len(w)
    <3>1. v = w
      <4>1. \A j \in 1 .. Len(v) : v[j] = w[j]  BY <1>10, <2>2
      <4> QED  BY <2>2, <4>1
    <3>2. b = c  BY <3>1 DEF b, c, x, y
    <3>3. ~ByteLess(b, c)
      <4>1. ByteLess(b, c) <=> Len(b) < Len(c)  BY <1>8, <3>2, NoDifference
      <4> QED  BY <1>8, <4>1
    <3> QED  BY <1>1, <2>1, <2>2, <3>3 DEF encode_blob, b, c, x, y
  <2>3. CASE Len(v) < Len(w)
    <3> DEFINE i == Len(v) + 1
    <3>1. i \in 1 .. Len(w) /\ i \in Len(v) + 1 .. n /\ i \in 1 .. n  BY <1>1, <2>3
    <3>2. b[i] = 0 /\ c[i] = w[i] /\ w[i] > 0  BY <1>1, <1>2, <1>3, <1>6, <1>7, <3>1
    <3>3. ASSUME NEW j \in 1 .. i - 1 PROVE b[j] = c[j]
      <4>1. j \in 1 .. Len(v) /\ j \in 1 .. Len(w) /\ j \in 1 .. n  BY <1>1, <2>3
      <4> QED  BY <1>2, <1>3, <1>6, <1>7, <1>10, <4>1
    <3> HIDE DEF i
    <3>4. DifferAt(b, c, i)  BY <1>1, <1>8, <3>1, <3>2, <3>3 DEF DifferAt
    <3>5. ByteLess(b, c)  BY <3>2, <3>4, FirstDifference
    <3> QED  BY <2>1, <2>3, <3>5 DEF encode_blob, b, c, x, y
  <2>4. CASE Len(w) < Len(v)
    <3> DEFINE i == Len(w) + 1
    <3>1. i \in 1 .. Len(v) /\ i \in Len(w) + 1 .. n /\ i \in 1 .. n  BY <1>1, <2>4
    <3>2. c[i] = 0 /\ b[i] = v[i] /\ v[i] > 0 /\ v[i] \in Int  BY <1>1, <1>2, <1>3, <1>6, <1>7, <3>1
    <3>3. ASSUME NEW j \in 1 .. i - 1 PROVE b[j] = c[j]
      <4>1. j \in 1 .. Len(v) /\ j \in 1 .. Len(w) /\ j \in 1 .. n  BY <1>1, <2>4
      <4> QED  BY <1>2, <1>3, <1>6, <1>7, <1>10, <4>1
    <3> HIDE DEF i
    <3>4. DifferAt(b, c, i)  BY <1>1, <1>8, <3>1, <3>2, <3>3 DEF DifferAt
    <3>5. ~ByteLess(b, c)
      <4>1. ByteLess(b, c) <=> b[i] < c[i]  BY <3>4, FirstDifference
      <4> QED  BY <3>2, <4>1
    <3>6. ~(Len(v) < Len(w))  BY <1>1, <2>4
    <3> QED  BY <2>1, <3>5, <3>6 DEF encode_blob, b, c, x, y
  <2> QED  BY <1>1, <2>2, <2>3, <2>4
<1> QED  BY <1>9, <1>10

\* A key of one part.
LEMMA EncodeOne ==
    ASSUME NEW p, NEW u
    PROVE  encode(<<p>>, <<u>>) = EncodePart(p, u)
<1> DEFINE e == EncodePart(p, u)
           s == [i \in DOMAIN <<u>> |-> EncodePart(<<p>>[i], <<u>>[i])]
           F(g) == [i \in 1 .. Len(s) |-> IF i = 1 THEN s[i] ELSE g[i - 1] \o s[i]]
           f == CHOOSE g : g = F(g)
<1>1. s = <<e>>
  <2>1. DOMAIN <<u>> = 1 .. 1 /\ <<u>>[1] = u /\ <<p>>[1] = p  OBVIOUS
  <2>2. s = [i \in 1 .. 1 |-> e]  BY <2>1
  <2> HIDE DEF e, s
  <2> QED  BY <2>2
<1>2. Len(s) = 1 /\ s[1] = e
  <2> HIDE DEF e, s
  <2> QED  BY <1>1
<1>3. encode(<<p>>, <<u>>) = FlattenSeq(s)  BY DEF encode
<1> HIDE DEF e, s
<1>4. FlattenSeq(s) = f[1]
  <2>1. FlattenSeq(s) = IF Len(s) = 0 THEN s ELSE f[Len(s)]  BY DEF FlattenSeq
  <2> HIDE DEF f
  <2> QED  BY <1>2, <2>1
<1>5. \E g : g = F(g)
  <2> DEFINE g == [i \in 1 .. 1 |-> e]
  <2>1. g = F(g)  BY <1>2
  <2> QED  BY <2>1
<1>6. f = F(f)
  <2> HIDE DEF F
  <2> QED  BY <1>5
<1>7. f[1] = e
  <2> HIDE DEF f
  <2>1. 1 \in 1 .. Len(s)  BY <1>2
  <2> QED  BY <1>2, <1>6, <2>1
<1> QED  BY <1>3, <1>4, <1>7 DEF e

\* The byte for NULL does not change the order, for it is always 0.
LEMMA NullableOrder ==
    ASSUME NEW b \in Seq(Int), NEW c \in Seq(Int), NEW nullable \in BOOLEAN
    PROVE  ByteLess((IF nullable THEN <<0>> ELSE <<>>) \o b, (IF nullable THEN <<0>> ELSE <<>>) \o c)
               <=> ByteLess(b, c)
<1>1. CASE nullable  BY <1>1, PrefixedOrder
<1>2. CASE ~nullable
  <2>1. <<>> \o b = b /\ <<>> \o c = c  OBVIOUS
  <2> QED  BY <1>2, <2>1
<1> QED  BY <1>1, <1>2

-----------------------------------------------------------------------------
(* The order of the keys of an index. *)

\* The key b ends where c goes on.
GoesOn(b, c) == Len(b) < Len(c) /\ \A j \in 1 .. Len(b) : b[j] = c[j]

\* A key is less if it is where it differs first, or if it ends there.
LEMMA ByteLessIs ==
    ASSUME NEW b \in Seq(Int), NEW c \in Seq(Int)
    PROVE  ByteLess(b, c) <=> (\E i \in Nat : DifferAt(b, c, i) /\ b[i] < c[i]) \/ GoesOn(b, c)
<1>0. Len(b) \in Nat /\ Len(c) \in Nat  OBVIOUS
<1>1. CASE \E j \in 1 .. Len(b) : j \in 1 .. Len(c) /\ b[j] # c[j]
  <2>1. PICK i \in Nat : DifferAt(b, c, i)  BY <1>0, <1>1, DifferOrNot
  <2>2. ByteLess(b, c) <=> b[i] < c[i]  BY <2>1, FirstDifference
  <2>3. ~GoesOn(b, c)  BY <1>1 DEF GoesOn
  <2>4. ASSUME NEW k \in Nat, DifferAt(b, c, k) PROVE ByteLess(b, c) <=> b[k] < c[k]
    BY <2>4, FirstDifference
  <2> QED  BY <2>1, <2>2, <2>3, <2>4
<1>2. CASE ~\E j \in 1 .. Len(b) : j \in 1 .. Len(c) /\ b[j] # c[j]
  <2>1. \A j \in 1 .. (IF Len(b) < Len(c) THEN Len(b) ELSE Len(c)) : b[j] = c[j]
    BY SMTT(30), <1>0, <1>2
  <2>2. ByteLess(b, c) <=> Len(b) < Len(c)  BY <1>0, <2>1, NoDifference
  <2>3. ~\E i \in Nat : DifferAt(b, c, i)  BY <1>2 DEF DifferAt
  <2>4. GoesOn(b, c) <=> Len(b) < Len(c)  BY SMTT(30), <1>0, <1>2 DEF GoesOn
  <2> QED  BY <2>2, <2>3, <2>4
<1> QED  BY <1>1, <1>2

\* No key is less than itself, nor than one that is less than it.
LEMMA ByteAsymmetric ==
    ASSUME NEW b \in Seq(Int), NEW c \in Seq(Int), ByteLess(b, c)
    PROVE  ~ByteLess(c, b) /\ b # c
<1>0. Len(b) \in Nat /\ Len(c) \in Nat /\ (\A i \in 1 .. Len(b) : b[i] \in Int)
      /\ (\A i \in 1 .. Len(c) : c[i] \in Int)
  OBVIOUS
<1>1. CASE \E i \in Nat : DifferAt(b, c, i) /\ b[i] < c[i]
  <2>1. PICK i \in Nat : DifferAt(b, c, i) /\ b[i] < c[i]  BY <1>1
  <2>2. DifferAt(c, b, i)  BY <2>1 DEF DifferAt
  <2>3. ByteLess(c, b) <=> c[i] < b[i]  BY <2>2, FirstDifference
  <2>4. b[i] \in Int /\ c[i] \in Int /\ b[i] # c[i]  BY <1>0, <2>1 DEF DifferAt
  <2> QED  BY <2>1, <2>3, <2>4
<1>2. CASE GoesOn(b, c)
  <2>1. ~GoesOn(c, b) /\ b # c  BY <1>0, <1>2 DEF GoesOn
  <2>2. ~\E i \in Nat : DifferAt(c, b, i)  BY <1>2 DEF GoesOn, DifferAt
  <2> QED  BY <2>1, <2>2, ByteLessIs
<1> QED  BY <1>1, <1>2, ByteLessIs

\* Of two keys one is less.
LEMMA ByteTotal ==
    ASSUME NEW b \in Seq(Int), NEW c \in Seq(Int), b # c
    PROVE  ByteLess(b, c) \/ ByteLess(c, b)
<1>0. Len(b) \in Nat /\ Len(c) \in Nat /\ (\A i \in 1 .. Len(b) : b[i] \in Int)
      /\ (\A i \in 1 .. Len(c) : c[i] \in Int)
  OBVIOUS
<1>1. CASE \E j \in 1 .. Len(b) : j \in 1 .. Len(c) /\ b[j] # c[j]
  <2>1. PICK i \in Nat : DifferAt(b, c, i)  BY <1>0, <1>1, DifferOrNot
  <2>2. DifferAt(c, b, i) /\ b[i] \in Int /\ c[i] \in Int /\ b[i] # c[i]
    BY <1>0, <2>1 DEF DifferAt
  <2>3. (ByteLess(b, c) <=> b[i] < c[i]) /\ (ByteLess(c, b) <=> c[i] < b[i])
    BY <2>1, <2>2, FirstDifference
  <2> QED  BY <2>2, <2>3
<1>2. CASE ~\E j \in 1 .. Len(b) : j \in 1 .. Len(c) /\ b[j] # c[j]
  <2>1. Len(b) # Len(c)  BY <1>0, <1>2
  <2>2. GoesOn(b, c) \/ GoesOn(c, b)  BY <1>0, <1>2, <2>1 DEF GoesOn
  <2> QED  BY <2>2, ByteLessIs
<1> QED  BY <1>1, <1>2

\* A key that is less than a second one is less than the third one it is less than.
LEMMA ByteTransitive ==
    ASSUME NEW b \in Seq(Int), NEW c \in Seq(Int), NEW d \in Seq(Int),
           ByteLess(b, c), ByteLess(c, d)
    PROVE  ByteLess(b, d)
<1>0. Len(b) \in Nat /\ Len(c) \in Nat /\ Len(d) \in Nat /\ (\A i \in 1 .. Len(b) : b[i] \in Int)
      /\ (\A i \in 1 .. Len(c) : c[i] \in Int) /\ (\A i \in 1 .. Len(d) : d[i] \in Int)
  OBVIOUS
<1>1. ASSUME NEW i \in Nat, DifferAt(b, c, i), b[i] < c[i],
             NEW k \in Nat, DifferAt(c, d, k), c[k] < d[k]
      PROVE  ByteLess(b, d)
  <2>1. /\ i \in 1 .. Len(b) /\ i \in 1 .. Len(c) /\ k \in 1 .. Len(c) /\ k \in 1 .. Len(d)
        /\ (\A j \in 1 .. i - 1 : b[j] = c[j]) /\ \A j \in 1 .. k - 1 : c[j] = d[j]
    BY <1>1 DEF DifferAt
  <2>2. CASE i < k
    <3>1. DifferAt(b, d, i) /\ b[i] < d[i]
      <4>1. c[i] = d[i] /\ i \in 1 .. Len(d) /\ b[i] \in Int /\ d[i] \in Int
        BY <1>0, <2>1, <2>2
      <4>2. \A j \in 1 .. i - 1 : b[j] = d[j]  BY <1>0, <2>1, <2>2
      <4> QED  BY <1>0, <1>1, <2>1, <4>1, <4>2 DEF DifferAt
    <3> QED  BY <3>1, ByteLessIs
  <2>3. CASE ~(i < k)
    <3>1. DifferAt(b, d, k) /\ b[k] < d[k]
      <4>1. k \in 1 .. Len(b) /\ b[k] \in Int /\ c[k] \in Int /\ d[k] \in Int /\ b[k] <= c[k]
        <5>1. CASE i = k  BY <1>0, <1>1, <2>1, <5>1
        <5>2. CASE i # k
          <6>1. k \in 1 .. i - 1  BY <2>1, <2>3, <5>2
          <6> QED  BY SMTT(30), <1>0, <2>1, <6>1
        <5> QED  BY <5>1, <5>2
      <4>2. \A j \in 1 .. k - 1 : b[j] = d[j]  BY <1>0, <2>1, <2>3
      <4>3. b[k] < d[k]  BY <1>1, <4>1
      <4> QED  BY SMTT(30), <1>0, <2>1, <4>1, <4>2, <4>3 DEF DifferAt
    <3> QED  BY <3>1, ByteLessIs
  <2> QED  BY <2>2, <2>3
<1>2. ASSUME NEW i \in Nat, DifferAt(b, c, i), b[i] < c[i], GoesOn(c, d)
      PROVE  ByteLess(b, d)
  <2>1. DifferAt(b, d, i) /\ b[i] < d[i]  BY <1>0, <1>2 DEF DifferAt, GoesOn
  <2> QED  BY <2>1, ByteLessIs
<1>3. ASSUME GoesOn(b, c), NEW k \in Nat, DifferAt(c, d, k), c[k] < d[k]
      PROVE  ByteLess(b, d)
  <2>1. CASE k \in 1 .. Len(b)
    <3>1. DifferAt(b, d, k) /\ b[k] < d[k]  BY <1>0, <1>3, <2>1 DEF DifferAt, GoesOn
    <3> QED  BY <3>1, ByteLessIs
  <2>2. CASE k \notin 1 .. Len(b)
    <3>1. GoesOn(b, d)  BY <1>0, <1>3, <2>2 DEF DifferAt, GoesOn
    <3> QED  BY <3>1, ByteLessIs
  <2> QED  BY <2>1, <2>2
<1>4. ASSUME GoesOn(b, c), GoesOn(c, d) PROVE ByteLess(b, d)
  <2>1. GoesOn(b, d)  BY <1>0, <1>4 DEF GoesOn
  <2> QED  BY <2>1, ByteLessIs
<1>5. (\E i \in Nat : DifferAt(b, c, i) /\ b[i] < c[i]) \/ GoesOn(b, c)  BY ByteLessIs
<1>6. (\E i \in Nat : DifferAt(c, d, i) /\ c[i] < d[i]) \/ GoesOn(c, d)  BY ByteLessIs
<1> QED  BY <1>1, <1>2, <1>3, <1>4, <1>5, <1>6

-----------------------------------------------------------------------------
(* Keys of several parts. *)

Byte == 0 .. MaxByte

\* Bytes are numbers.
LEMMA BytesAre == \A b \in Seq(Byte) : b \in Seq(Int) /\ Len(b) \in Nat
<1>1. MaxByte \in Nat  BY BaseFacts
<1>2. TAKE b \in Seq(Byte)
<1>3. Len(b) \in Nat /\ b = [i \in 1 .. Len(b) |-> b[i]] /\ \A i \in 1 .. Len(b) : b[i] \in Byte
  OBVIOUS
<1>4. \A i \in 1 .. Len(b) : b[i] \in Int  BY <1>1, <1>3 DEF Byte
<1> QED  BY <1>3, <1>4

\* Flipping the top bit of a byte twice does nothing.
LEMMA FlipByte ==
    ASSUME NEW x \in Byte
    PROVE  /\ (x + Half) % Base = IF x < Half THEN x + Half ELSE x - Half
           /\ (x + Half) % Base \in Byte
           /\ ((x + Half) % Base) < Half <=> ~(x < Half)
           /\ (((x + Half) % Base) + Half) % Base = x
<1>1. /\ Base \in Nat \ {0} /\ Half \in Nat \ {0} /\ Base = 2 * Half /\ MaxByte = Base - 1
      /\ x \in 0 .. Base - 1
  BY BaseFacts DEF Byte
<1>2. ASSUME NEW y \in 0 .. Base - 1 PROVE (y + Half) % Base = IF y < Half THEN y + Half ELSE y - Half
  <2>1. CASE y < Half
    <3>1. y + Half \in 0 .. Base - 1 /\ Base * 0 + (y + Half) = y + Half  BY <1>1, <2>1
    <3>2. (Base * 0 + (y + Half)) % Base = y + Half
      <4>1. 0 \in Int /\ Base \in Nat \ {0} /\ y + Half \in 0 .. Base - 1  BY <1>1, <3>1
      <4> QED  BY SMTT(30), <4>1, DivUnique
    <3> QED  BY <2>1, <3>1, <3>2
  <2>2. CASE ~(y < Half)
    <3>1. y - Half \in 0 .. Base - 1 /\ Base * 1 + (y - Half) = y + Half  BY <1>1, <2>2
    <3>2. 1 \in Int /\ Base \in Nat \ {0} /\ y - Half \in 0 .. Base - 1  BY <1>1, <3>1
    <3>3. (Base * 1 + (y - Half)) % Base = y - Half  BY <3>2, DivUnique
    <3> QED  BY <2>2, <3>1, <3>3
  <2> QED  BY <2>1, <2>2
<1>3. (x + Half) % Base = IF x < Half THEN x + Half ELSE x - Half  BY <1>1, <1>2
<1> DEFINE z == (x + Half) % Base
<1>4. z = (IF x < Half THEN x + Half ELSE x - Half) /\ z \in 0 .. Base - 1  BY <1>1, <1>3
<1> HIDE DEF z
<1>5. (z + Half) % Base = IF z < Half THEN z + Half ELSE z - Half  BY <1>2, <1>4
<1>6. (z < Half <=> ~(x < Half)) /\ (IF z < Half THEN z + Half ELSE z - Half) = x  BY <1>1, <1>4
<1>7. z \in Byte  BY <1>1, <1>4 DEF Byte
<1> QED  BY <1>3, <1>5, <1>6, <1>7 DEF z

\* The top bit of the first byte is flipped, and flipped back.
LEMMA FlipTopTwice ==
    ASSUME NEW n \in Nat \ {0}, NEW b \in [1 .. n -> Byte]
    PROVE  /\ FlipTop(b) \in [1 .. n -> Byte] /\ FlipTop(FlipTop(b)) = b
           /\ FlipTop(b)[1] < Half <=> ~(b[1] < Half)
<1>1. 1 \in 1 .. n /\ b[1] \in Byte  OBVIOUS
<1> DEFINE x == (b[1] + Half) % Base  y == (x + Half) % Base
<1>2. x \in Byte /\ y = b[1] /\ (x < Half <=> ~(b[1] < Half))  BY <1>1, FlipByte
<1>3. FlipTop(b) = [b EXCEPT ![1] = x]  BY DEF FlipTop
<1>4. FlipTop(FlipTop(b)) = [FlipTop(b) EXCEPT ![1] = (FlipTop(b)[1] + Half) % Base]  BY DEF FlipTop
<1> HIDE DEF x
<1>5. FlipTop(b) \in [1 .. n -> Byte] /\ FlipTop(b)[1] = x  BY <1>1, <1>2, <1>3
<1>6. FlipTop(FlipTop(b)) = [FlipTop(b) EXCEPT ![1] = y]  BY <1>4, <1>5
<1>7. FlipTop(FlipTop(b)) = b
  <2> HIDE DEF y
  <2> QED  BY <1>1, <1>2, <1>3, <1>6
<1> QED  BY <1>2, <1>5, <1>7

\* All the bits are flipped, and flipped back.
LEMMA FlipAllTwice ==
    ASSUME NEW n \in Nat \ {0}, NEW b \in [1 .. n -> Byte]
    PROVE  /\ FlipAll(b) \in [1 .. n -> Byte] /\ FlipAll(FlipAll(b)) = b
           /\ FlipAll(b)[1] < Half <=> ~(b[1] < Half)
<1>1. MaxByte \in Nat /\ Half \in Nat \ {0} /\ MaxByte = 2 * Half - 1  BY BaseFacts
<1>2. \A i \in 1 .. n : b[i] \in Int /\ b[i] >= 0 /\ b[i] <= MaxByte  BY <1>1 DEF Byte
<1>3. FlipAll(b) = [i \in 1 .. n |-> MaxByte - b[i]]  BY DEF FlipAll
<1>4. FlipAll(b) \in [1 .. n -> Byte]  BY <1>1, <1>2, <1>3 DEF Byte
<1>5. FlipAll(FlipAll(b)) = [i \in 1 .. n |-> MaxByte - FlipAll(b)[i]]  BY <1>4 DEF FlipAll
<1>6. \A i \in 1 .. n : MaxByte - FlipAll(b)[i] = b[i]  BY <1>1, <1>2, <1>3
<1>7. FlipAll(FlipAll(b)) = b  BY <1>5, <1>6
<1>8. FlipAll(b)[1] < Half <=> ~(b[1] < Half)  BY <1>1, <1>2, <1>3
<1> QED  BY <1>4, <1>7, <1>8

\* The bytes of a number, and the number of the bytes.
LEMMA NetworkTwice ==
    ASSUME NEW n \in 1 .. 8, NEW v \in Int
    PROVE  /\ NetworkBytes(v, n) \in [1 .. n -> Byte]
           /\ network_to_host(NetworkBytes(v, n)) = HostBytes(v, n)
           /\ NetworkBytes(v, n)[1] = HostBytes(v, n)[n]
<1> DEFINE b == HostBytes(v, n)
<1>0. n \in 0 .. 8 /\ n \in Nat  OBVIOUS
<1>1. b \in [1 .. n -> Byte] /\ Len(b) = n  BY <1>0, HostBytesAt DEF Byte
<1>2. NetworkBytes(v, n) \in [1 .. n -> Byte] /\ NetworkBytes(v, n)[1] = b[n]
  <2>1. 1 \in 1 .. n /\ (n - 1) + 1 = n  OBVIOUS
  <2> QED  BY <1>0, <2>1, NetworkBytesAt DEF Byte
<1>3. NetworkBytes(v, n) = Reverse(b)  BY DEF NetworkBytes, host_to_network
<1> HIDE DEF b
<1>4. Reverse(b) = [i \in 1 .. n |-> b[(n - i) + 1]]  BY <1>1 DEF Reverse
<1>5. Len(Reverse(b)) = n  BY <1>0, <1>4
<1>6. Reverse(Reverse(b)) = [i \in 1 .. n |-> Reverse(b)[(n - i) + 1]]
  BY SMTT(30), <1>5 DEF Reverse
<1>7. \A i \in 1 .. n : (n - i) + 1 \in 1 .. n /\ (n - ((n - i) + 1)) + 1 = i  OBVIOUS
<1>8. \A i \in 1 .. n : Reverse(b)[(n - i) + 1] = b[i]  BY <1>4, <1>7
<1>9. Reverse(Reverse(b)) = b  BY <1>1, <1>6, <1>8
<1> QED  BY <1>2, <1>3, <1>9 DEF network_to_host, b

\* Numbers and times come back from their bytes.
LEMMA NumberTwice ==
    ASSUME NEW n \in 1 .. 8, NEW v, NEW signed \in BOOLEAN,
           v \in IF signed THEN SignedRange(n) ELSE 0 .. Base ^ n - 1
    PROVE  /\ encode_number(v, n, signed) \in [1 .. n -> Byte]
           /\ decode_number(encode_number(v, n, signed), signed) = v
<1> DEFINE b == NetworkBytes(v, n)
<1>0. v \in Int /\ n \in 0 .. 8 /\ n \in Nat \ {0}  BY SignedRangeFacts, PowerNat
<1>1. b \in [1 .. n -> Byte] /\ network_to_host(b) = HostBytes(v, n)  BY <1>0, NetworkTwice
<1>2. encode_number(v, n, signed) = IF signed THEN FlipTop(b) ELSE b
  BY DEF encode_number, NetworkBytes
<1> HIDE DEF b
<1>3. FlipTop(b) \in [1 .. n -> Byte] /\ FlipTop(FlipTop(b)) = b  BY <1>0, <1>1, FlipTopTwice
<1>4. CASE signed
  <2>1. HostSigned(HostBytes(v, n)) = v  BY <1>4, HostSignedBytes
  <2> QED  BY <1>1, <1>2, <1>3, <1>4, <2>1 DEF decode_number
<1>5. CASE ~signed
  <2>1. HostUnsigned(HostBytes(v, n)) = v  BY <1>0, <1>5, HostUnsignedBytes
  <2> QED  BY <1>1, <1>2, <1>5, <2>1 DEF decode_number
<1> QED  BY <1>4, <1>5

\* A number of eight bytes in the order of the index, and back.
LEMMA LongLongTwice ==
    ASSUME NEW n \in 1 .. 8, NEW v \in SignedRange(n)
    PROVE  /\ encode_long_long_int(v, n) \in [1 .. n -> Byte]
           /\ decode_long_long_int(encode_long_long_int(v, n)) = v
<1>1. /\ encode_number(v, n, TRUE) \in [1 .. n -> Byte]
      /\ decode_number(encode_number(v, n, TRUE), TRUE) = v
  BY NumberTwice
<1>2. encode_long_long_int(v, n) = encode_number(v, n, TRUE)
  BY DEF encode_long_long_int, encode_number
<1>3. \A b : decode_long_long_int(b) = decode_number(b, TRUE)
  BY DEF decode_long_long_int, decode_number
<1> QED  BY <1>1, <1>2, <1>3

\* The bytes the other way round, twice.
LEMMA ReverseTwice ==
    ASSUME NEW n \in 1 .. 8, NEW v \in 0 .. Base ^ n - 1
    PROVE  /\ Reverse(HostBytes(v, n)) \in [1 .. n -> Byte]
           /\ HostUnsigned(Reverse(Reverse(HostBytes(v, n)))) = v
<1>1. v \in Int /\ n \in 0 .. 8  BY PowerNat
<1>2. HostUnsigned(HostBytes(v, n)) = v  BY <1>1, HostUnsignedBytes
<1> QED  BY <1>1, <1>2, NetworkTwice DEF NetworkBytes, host_to_network, network_to_host

\* A floating point number comes back from its bytes, and so does its sign.
LEMMA FloatTwice ==
    ASSUME NEW n \in 1 .. 8, NEW x \in [neg : BOOLEAN, mag : 0 .. Half * Base ^ (n - 1) - 1]
    PROVE  /\ encode_float(x, n) \in [1 .. n -> Byte]
           /\ decode_float(encode_float(x, n)) = x
<1> DEFINE b == NetworkBytes(x.mag, n)  h == Half * Base ^ (n - 1)
<1>0. /\ h \in Nat \ {0} /\ Base ^ n = 2 * h /\ x.mag \in 0 .. h - 1 /\ x.neg \in BOOLEAN
      /\ x = [neg |-> x.neg, mag |-> x.mag] /\ n \in Nat \ {0} /\ n \in 0 .. 8
  BY SignedRangeFacts
<1>1. x.mag \in Int /\ x.mag \in 0 .. Base ^ n - 1 /\ x.mag \in SignedRange(n) /\ ~(x.mag < 0)
  BY <1>0 DEF SignedRange
<1>2. b \in [1 .. n -> Byte] /\ network_to_host(b) = HostBytes(x.mag, n)
      /\ b[1] = HostBytes(x.mag, n)[n]
  BY <1>1, NetworkTwice
<1>3. HostBytes(x.mag, n)[n] \in 0 .. Half - 1 /\ HostUnsigned(HostBytes(x.mag, n)) = x.mag
  BY <1>0, <1>1, TopByte, HostUnsignedBytes
<1>4. b[1] < Half  BY <1>2, <1>3, BaseFacts
<1>5. encode_float(x, n) = IF x.neg THEN FlipAll(FlipTop(b)) ELSE FlipTop(b)
  BY DEF encode_float, NetworkBytes
<1> HIDE DEF b
<1>6. FlipTop(b) \in [1 .. n -> Byte] /\ FlipTop(FlipTop(b)) = b /\ ~(FlipTop(b)[1] < Half)
  BY <1>0, <1>2, <1>4, FlipTopTwice
<1>7. /\ FlipAll(FlipTop(b)) \in [1 .. n -> Byte] /\ FlipAll(FlipAll(FlipTop(b))) = FlipTop(b)
      /\ FlipAll(FlipTop(b))[1] < Half
  BY <1>0, <1>6, FlipAllTwice
<1>8. decode_float(encode_float(x, n)) = [neg |-> x.neg, mag |-> HostUnsigned(network_to_host(b))]
  <2>1. CASE x.neg = TRUE  BY <1>5, <1>6, <1>7, <2>1 DEF decode_float
  <2>2. CASE x.neg = FALSE  BY <1>5, <1>6, <2>2 DEF decode_float
  <2> QED  BY <1>0, <2>1, <2>2
<1> QED  BY <1>0, <1>2, <1>3, <1>5, <1>6, <1>7, <1>8

\* A value that a part holds.
IsPartValue(p, v) ==
    /\ v # Null
    /\ IF p.type = "BYTE_BLOB"
       THEN v \in Seq(Byte) /\ Len(v) <= p.size /\ Len(v) < Base ^ BlobLength
       ELSE IF p.type \in {"FLOAT", "DOUBLE"}
       THEN v \in [neg : BOOLEAN, mag : 0 .. Half * Base ^ (p.size - 1) - 1]
       ELSE v \in PartRange(p)

\* A string comes back from its bytes without what it was filled up with.
LEMMA BlobTwice ==
    ASSUME NEW n \in Nat, NEW v \in Seq(Byte), Len(v) <= n, Len(v) < Base ^ BlobLength
    PROVE  /\ encode_blob(v, n) \in [1 .. n + BlobLength -> Byte]
           /\ decode_blob(encode_blob(v, n), n) = v
<1> DEFINE l == BlobLength  b == Pad(v, n, 0)  c == HostBytes(Len(v), l)  e == encode_blob(v, n)
<1>0. l \in 1 .. 8 /\ l \in 0 .. 8 /\ Len(v) \in Nat /\ Byte \subseteq Int /\ v \in Seq(Int)
      /\ Base ^ l \in Nat /\ 0 \in Byte
  BY BlobAssumption, PowerNat, BaseFacts DEF Byte
<1>1. /\ b \in Seq(Int) /\ Len(b) = n /\ (\A i \in 1 .. Len(v) : b[i] = v[i])
      /\ \A i \in Len(v) + 1 .. n : b[i] = 0
  BY <1>0, PadAt
<1>2. \A i \in 1 .. n : b[i] \in Byte
  <2>1. TAKE i \in 1 .. n
  <2>2. CASE i \in 1 .. Len(v)  BY <1>1, <2>2
  <2>3. CASE i \in Len(v) + 1 .. n  BY <1>0, <1>1, <2>3
  <2> QED  BY <1>0, <2>2, <2>3
<1>3. c \in [1 .. l -> Byte] /\ Len(c) = l /\ c \in Seq(Int)
  <2>1. \A k \in Int : /\ HostBytes(k, l) \in [1 .. l -> Byte]
                       /\ Len(HostBytes(k, l)) = l /\ HostBytes(k, l) \in Seq(Int)
    BY <1>0, HostBytesAt DEF Byte
  <2> QED  BY <1>0, <2>1
<1>4. HostUnsigned(c) = Len(v)
  <2>1. Len(v) \in 0 .. Base ^ l - 1  BY <1>0
  <2> QED  BY <1>0, <2>1, HostUnsignedBytes
<1>5. e = b \o c  BY DEF encode_blob
<1> HIDE DEF b, c, e
<1>6. /\ e \in Seq(Int) /\ Len(e) = n + l /\ (\A i \in 1 .. n : e[i] = b[i])
      /\ \A i \in 1 .. l : e[n + i] = c[i]
  <2>1. e \in Seq(Int) /\ Len(e) = n + l  BY <1>0, <1>1, <1>3, <1>5
  <2>2. \A i \in 1 .. n : e[i] = b[i]  BY <1>0, <1>1, <1>3, <1>5
  <2>3. ASSUME NEW i \in 1 .. l PROVE e[n + i] = c[i]
    <3>1. n + i \in 1 .. Len(b) + Len(c) /\ ~(n + i <= Len(b)) /\ (n + i) - Len(b) = i
      BY SMTT(30), <1>0, <1>1, <1>3
    <3>2. (b \o c)[n + i] = c[(n + i) - Len(b)]  BY <1>1, <1>3, <3>1
    <3> QED  BY <1>5, <3>1, <3>2
  <2> QED  BY <2>1, <2>2, <2>3
<1>7. \A i \in 1 .. n + l : e[i] \in Byte
  <2>1. TAKE i \in 1 .. n + l
  <2>2. CASE i \in 1 .. n  BY <1>2, <1>6, <2>2
  <2>3. CASE i \notin 1 .. n
    <3>1. i - n \in 1 .. l /\ n + (i - n) = i  BY <1>0, <2>3
    <3> QED  BY <1>3, <1>6, <3>1
  <2> QED  BY <2>2, <2>3
<1>8. e \in [1 .. n + l -> Byte]
  <2>1. e = [i \in 1 .. n + l |-> e[i]]  BY <1>0, <1>6
  <2> QED  BY <1>7, <2>1
<1>9. SubSeq(e, n + 1, n + l) = c
  <2>1. SubSeq(e, n + 1, n + l) = [i \in 1 .. (n + l) - (n + 1) + 1 |-> e[i + (n + 1) - 1]]
    BY <1>0, <1>6
  <2>2. (n + l) - (n + 1) + 1 = l /\ \A i \in 1 .. l : i + (n + 1) - 1 = n + i  BY <1>0
  <2>3. SubSeq(e, n + 1, n + l) = [i \in 1 .. l |-> c[i]]  BY <1>6, <2>1, <2>2
  <2> QED  BY <1>3, <2>3
<1>10. SubSeq(e, 1, Len(v)) = v
  <2>1. SubSeq(e, 1, Len(v)) = [i \in 1 .. Len(v) |-> v[i]]
    <3>1. SubSeq(e, 1, Len(v)) = [i \in 1 .. Len(v) - 1 + 1 |-> e[i + 1 - 1]]  BY <1>0, <1>6
    <3>2. Len(v) - 1 + 1 = Len(v) /\ \A i \in 1 .. Len(v) : i + 1 - 1 = i /\ i \in 1 .. n  BY <1>0
    <3> QED  BY <1>1, <1>6, <3>1, <3>2
  <2> QED  BY <1>0, <2>1
<1>11. decode_blob(e, n) = SubSeq(e, 1, HostUnsigned(SubSeq(e, n + 1, n + l)))  BY DEF decode_blob
<1> QED  BY <1>4, <1>8, <1>9, <1>10, <1>11 DEF e

\* The byte in front of a part that may be NULL is dropped again.
LEMMA NullByte ==
    ASSUME NEW n \in Nat, NEW b \in [1 .. n -> Byte], NEW nullable \in BOOLEAN
    PROVE  LET e == (IF nullable THEN <<0>> ELSE <<>>) \o b
           IN  /\ e \in [1 .. (IF nullable THEN 1 ELSE 0) + n -> Byte]
               /\ (IF nullable THEN Tail(e) ELSE e) = b
<1>0. 0 \in Byte /\ b \in Seq(Byte) /\ Len(b) = n  BY BaseFacts DEF Byte
<1>1. CASE nullable
  <2> DEFINE e == <<0>> \o b
  <2>1. <<0>> \in Seq(Byte) /\ Len(<<0>>) = 1  BY <1>0
  <2>2. e \in Seq(Byte) /\ Len(e) = 1 + n  BY <1>0, <2>1
  <2>3. \A i \in 1 .. n : e[i + 1] = b[i]  BY <1>0
  <2> HIDE DEF e
  <2>4. Tail(e) \in Seq(Byte) /\ Len(Tail(e)) = n /\ \A i \in 1 .. n : Tail(e)[i] = e[i + 1]
    <3>1. e # <<>> /\ Len(e) - 1 = n  BY <2>2
    <3> QED  BY <2>2, <3>1
  <2>5. Tail(e) = b  BY <1>0, <2>3, <2>4
  <2>6. e \in [1 .. 1 + n -> Byte]  BY <2>2
  <2> QED  BY <1>1, <2>5, <2>6 DEF e
<1>2. CASE ~nullable
  <2>1. <<>> \o b = b /\ 0 + n = n  BY <1>0
  <2> QED  BY <1>2, <2>1
<1> QED  BY <1>1, <1>2

\* A value comes back from the bytes of its part.
LEMMA PartTwice ==
    ASSUME NEW p, IsPart(p), NEW v, IsPartValue(p, v)
    PROVE  /\ PartSize(p) \in Nat \ {0}
           /\ EncodePart(p, v) \in [1 .. PartSize(p) -> Byte]
           /\ DecodePart(p, EncodePart(p, v)) = v
<1> DEFINE n == IF p.type = "BYTE_BLOB" THEN p.size + BlobLength ELSE p.size
           pre == IF p.nullable THEN <<0>> ELSE <<>>
           Back(e) == IF p.nullable THEN Tail(e) ELSE e
           Holds(b) == /\ b \in [1 .. n -> Byte] /\ EncodePart(p, v) = pre \o b
                       /\ \A e : Back(e) = b => DecodePart(p, e) = v
<1>0. v # Null /\ p.nullable \in BOOLEAN /\ n \in Nat \ {0}
  BY BlobAssumption DEF IsPart, IsPartValue
<1>1. ASSUME p.type = "NUMBER" PROVE \E b : Holds(b)
  <2>1. p.size \in 1 .. 8 /\ p.signed \in BOOLEAN /\ n = p.size  BY <1>1 DEF IsPart
  <2>2. v \in IF p.signed THEN SignedRange(p.size) ELSE 0 .. Base ^ p.size - 1
    BY <1>1, <2>1 DEF IsPartValue, PartRange, SignedRange
  <2>3. /\ encode_number(v, p.size, p.signed) \in [1 .. n -> Byte]
        /\ decode_number(encode_number(v, p.size, p.signed), p.signed) = v
    BY <2>1, <2>2, NumberTwice
  <2>4. EncodePart(p, v) = pre \o encode_number(v, p.size, p.signed)  BY <1>0, <1>1 DEF EncodePart
  <2>5. \A e : DecodePart(p, e) = decode_number(Back(e), p.signed)  BY <1>1 DEF DecodePart
  <2>6. Holds(encode_number(v, p.size, p.signed))  BY <2>3, <2>4, <2>5
  <2> QED  BY <2>6
<1>2. ASSUME p.type \in {"DATETIME", "DATETIME2"} PROVE \E b : Holds(b)
  <2>1. p.size \in 1 .. 8 /\ n = p.size  BY <1>2 DEF IsPart
  <2>2. v \in SignedRange(p.size)  BY <1>2, <2>1 DEF IsPartValue, PartRange, SignedRange
  <2>3. /\ encode_long_long_int(v, p.size) \in [1 .. n -> Byte]
        /\ decode_long_long_int(encode_long_long_int(v, p.size)) = v
    BY <2>1, <2>2, LongLongTwice
  <2>4. EncodePart(p, v) = pre \o encode_long_long_int(v, p.size)  BY <1>0, <1>2 DEF EncodePart
  <2>5. \A e : DecodePart(p, e) = decode_long_long_int(Back(e))  BY <1>2 DEF DecodePart
  <2>6. Holds(encode_long_long_int(v, p.size))  BY <2>3, <2>4, <2>5
  <2> QED  BY <2>6
<1>3. ASSUME p.type \in {"FLOAT", "DOUBLE"} PROVE \E b : Holds(b)
  <2>1. p.size \in 1 .. 8 /\ n = p.size  BY <1>3 DEF IsPart
  <2>2. v \in [neg : BOOLEAN, mag : 0 .. Half * Base ^ (p.size - 1) - 1]
    BY <1>3 DEF IsPartValue
  <2>3. encode_float(v, p.size) \in [1 .. n -> Byte] /\ decode_float(encode_float(v, p.size)) = v
    BY <2>1, <2>2, FloatTwice
  <2>4. EncodePart(p, v) = pre \o encode_float(v, p.size)  BY <1>0, <1>3 DEF EncodePart
  <2>5. \A e : DecodePart(p, e) = decode_float(Back(e))  BY <1>3 DEF DecodePart
  <2>6. Holds(encode_float(v, p.size))  BY <2>3, <2>4, <2>5
  <2> QED  BY <2>6
<1>4. ASSUME p.type = "BYTE_REVERSE" PROVE \E b : Holds(b)
  <2>1. p.size \in 1 .. 8 /\ n = p.size  BY <1>4 DEF IsPart
  <2>2. v \in 0 .. Base ^ p.size - 1  BY <1>4 DEF IsPartValue, PartRange
  <2>3. /\ Reverse(HostBytes(v, p.size)) \in [1 .. n -> Byte]
        /\ HostUnsigned(Reverse(Reverse(HostBytes(v, p.size)))) = v
    BY <2>1, <2>2, ReverseTwice
  <2>4. EncodePart(p, v) = pre \o Reverse(HostBytes(v, p.size))  BY <1>0, <1>4 DEF EncodePart
  <2>5. \A e : DecodePart(p, e) = HostUnsigned(Reverse(Back(e)))  BY <1>4 DEF DecodePart
  <2>6. Holds(Reverse(HostBytes(v, p.size)))  BY <2>3, <2>4, <2>5
  <2> QED  BY <2>6
<1>5. ASSUME p.type = "BYTE_BLOB" PROVE \E b : Holds(b)
  <2>1. p.size \in Nat \ {0} /\ n = p.size + BlobLength  BY <1>5 DEF IsPart
  <2>2. v \in Seq(Byte) /\ Len(v) <= p.size /\ Len(v) < Base ^ BlobLength  BY <1>5 DEF IsPartValue
  <2>3. /\ encode_blob(v, p.size) \in [1 .. n -> Byte]
        /\ decode_blob(encode_blob(v, p.size), p.size) = v
    BY <2>1, <2>2, BlobTwice
  <2>4. EncodePart(p, v) = pre \o encode_blob(v, p.size)  BY <1>0, <1>5 DEF EncodePart
  <2>5. \A e : DecodePart(p, e) = decode_blob(Back(e), p.size)  BY <1>5 DEF DecodePart
  <2>6. Holds(encode_blob(v, p.size))  BY <2>3, <2>4, <2>5
  <2> QED  BY <2>6
<1>6. \E b : Holds(b)
  <2> HIDE DEF Holds
  <2> QED  BY <1>1, <1>2, <1>3, <1>4, <1>5 DEF IsPart
<1>7. PICK b : Holds(b)  BY <1>6
<1>8. PartSize(p) = (IF p.nullable THEN 1 ELSE 0) + n
  <2>0. p.size \in Nat /\ BlobLength \in Nat  BY BlobAssumption DEF IsPart
  <2>1. CASE p.type = "BYTE_BLOB"
    <3>1. PartSize(p) = (IF p.nullable THEN 1 ELSE 0) + p.size + BlobLength  BY <2>1 DEF PartSize
    <3> QED  BY <1>0, <2>0, <2>1, <3>1
  <2>2. CASE p.type # "BYTE_BLOB"
    <3>1. PartSize(p) = (IF p.nullable THEN 1 ELSE 0) + p.size + 0  BY <2>2 DEF PartSize
    <3> QED  BY <1>0, <2>0, <2>2, <3>1
  <2> QED  BY <2>1, <2>2
<1> HIDE DEF n
<1>9. PartSize(p) \in Nat \ {0}  BY <1>0, <1>8
<1>10. pre \o b \in [1 .. PartSize(p) -> Byte] /\ Back(pre \o b) = b
  BY <1>0, <1>7, <1>8, NullByte
<1> QED  BY <1>7, <1>9, <1>10

\* Sequences one after the other, up to each of them.
Joined(e, m, f) == f = [i \in 1 .. m |-> IF i = 1 THEN e[i] ELSE f[i - 1] \o e[i]]

\* There is such a sequence of sequences.
LEMMA JoinedExists ==
    ASSUME NEW e, NEW m \in Nat \ {0}
    PROVE  \E f : Joined(e, m, f)
<1> DEFINE S == {k \in 0 .. m - 1 : \E f : Joined(e, k + 1, f)}
<1>1. 0 \in S
  <2> DEFINE f == [i \in 1 .. 1 |-> e[1]]
  <2>1. Joined(e, 0 + 1, f)  BY DEF Joined
  <2> QED  BY <2>1
<1>2. ASSUME NEW k \in 0 .. (m - 1) - 1, k \in S PROVE k + 1 \in S
  <2>1. PICK f : Joined(e, k + 1, f)  BY <1>2
  <2> DEFINE x == f[k + 1] \o e[k + 2]
             g == [i \in 1 .. (k + 1) + 1 |-> IF i = k + 2 THEN x ELSE f[i]]
  <2>f. \A i \in 1 .. k + 1 : f[i] = IF i = 1 THEN e[i] ELSE f[i - 1] \o e[i]
    <3> DEFINE G == [i \in 1 .. k + 1 |-> IF i = 1 THEN e[i] ELSE f[i - 1] \o e[i]]
    <3>1. \A i \in 1 .. k + 1 : G[i] = IF i = 1 THEN e[i] ELSE f[i - 1] \o e[i]  OBVIOUS
    <3>2. f = G  BY <2>1 DEF Joined
    <3> HIDE DEF G
    <3> QED  BY <3>1, <3>2
  <2> HIDE DEF x
  <2>g. (k + 1) + 1 = k + 2 /\ k + 2 \in 1 .. (k + 1) + 1 /\ g[k + 2] = x
        /\ \A i \in 1 .. k + 1 : i \in 1 .. (k + 1) + 1 /\ i # k + 2 /\ g[i] = f[i]
    OBVIOUS
  <2>2. \A i \in 1 .. k + 1 : g[i] = f[i] /\ f[i] = IF i = 1 THEN e[i] ELSE f[i - 1] \o e[i]
    BY <2>f, <2>g
  <2> HIDE DEF g
  <2>3. ASSUME NEW i \in 1 .. (k + 1) + 1 PROVE g[i] = IF i = 1 THEN e[i] ELSE g[i - 1] \o e[i]
    <3>1. CASE i = k + 2
      <4>1. i - 1 = k + 1 /\ i # 1 /\ g[i - 1] = f[k + 1] /\ g[i] = f[k + 1] \o e[k + 2]
        <5>1. i - 1 = k + 1 /\ i # 1 /\ k + 1 \in 1 .. k + 1  BY <3>1
        <5>2. g[k + 1] = f[k + 1]  BY <2>g, <5>1
        <5> QED  BY <2>g, <3>1, <5>1, <5>2 DEF x
      <4> QED  BY <3>1, <4>1
    <3>2. CASE i # k + 2
      <4>1. i \in 1 .. k + 1 /\ (i # 1 => i - 1 \in 1 .. k + 1)  BY <3>2
      <4> QED  BY <2>2, <4>1
    <3> QED  BY <3>1, <3>2
  <2>4. Joined(e, (k + 1) + 1, g)
    <3>1. g = [i \in 1 .. (k + 1) + 1 |-> g[i]]  BY DEF g
    <3> QED  BY <2>3, <3>1 DEF Joined
  <2>5. k + 1 \in 0 .. m - 1  OBVIOUS
  <2> QED  BY <2>4, <2>5
<1>3. m - 1 \in S
  <2>1. m - 1 \in Nat  OBVIOUS
  <2> HIDE DEF S
  <2>2. \A k \in 0 .. m - 1 : k \in S  BY <1>1, <1>2, <2>1, BoundedInduction
  <2> QED  BY <2>1, <2>2
<1>4. (m - 1) + 1 = m  OBVIOUS
<1> QED  BY <1>3, <1>4

\* Where each of m sequences begins if they are put one after the other.
Begins(e, m, o) ==
    /\ m \in Nat \ {0} /\ e \in [1 .. m -> Seq(Byte)] /\ o \in [1 .. m + 1 -> Nat]
    /\ o[1] = 0 /\ \A i \in 1 .. m : o[i + 1] = o[i] + Len(e[i])

\* The sequences are found in the whole at their places.
LEMMA FlattenIs ==
    ASSUME NEW e, NEW m, NEW o, Begins(e, m, o)
    PROVE  /\ FlattenSeq(e) \in Seq(Byte) /\ Len(FlattenSeq(e)) = o[m + 1]
           /\ \A i \in 1 .. m : \A x \in 1 .. Len(e[i]) :
                 /\ o[i] + x \in 1 .. o[m + 1]
                 /\ FlattenSeq(e)[o[i] + x] = e[i][x]
<1> DEFINE F(g) == [i \in 1 .. Len(e) |-> IF i = 1 THEN e[i] ELSE g[i - 1] \o e[i]]
           f == CHOOSE g : g = F(g)
           Whole(k) == /\ f[k] \in Seq(Byte) /\ Len(f[k]) = o[k + 1]
                       /\ \A i \in 1 .. k : \A x \in 1 .. Len(e[i]) :
                             o[i] + x \in 1 .. o[k + 1] /\ f[k][o[i] + x] = e[i][x]
           S == {k \in 0 .. m - 1 : Whole(k + 1)}
<1>0. /\ m \in Nat \ {0} /\ (\A i \in 1 .. m : e[i] \in Seq(Byte) /\ Len(e[i]) \in Nat)
      /\ (\A i \in 1 .. m + 1 : o[i] \in Nat)
      /\ o[1] = 0 /\ \A i \in 1 .. m : o[i + 1] = o[i] + Len(e[i])
  BY DEF Begins
<1>1. Len(e) = m /\ Len(e) # 0  BY DEF Begins
<1>2. FlattenSeq(e) = f[m]
  <2>1. FlattenSeq(e) = IF Len(e) = 0 THEN e ELSE f[Len(e)]  BY DEF FlattenSeq
  <2> HIDE DEF f
  <2> QED  BY <1>1, <2>1
<1>3. f = F(f)
  <2>1. \E g : Joined(e, m, g)  BY <1>0, JoinedExists
  <2>2. \E g : g = F(g)  BY <1>1, <2>1 DEF Joined
  <2> HIDE DEF F
  <2> QED  BY <2>2
<1> HIDE DEF f
<1>4. \A i \in 1 .. m : f[i] = IF i = 1 THEN e[i] ELSE f[i - 1] \o e[i]  BY <1>1, <1>3
<1> HIDE DEF F
<1>5. Whole(1)
  <2>1. 1 \in 1 .. m /\ 1 + 1 = 2 /\ f[1] = e[1]  BY <1>0, <1>4
  <2>2. o[2] = Len(e[1]) /\ o[1 + 1] = Len(e[1])  BY <1>0, <2>1
  <2>3. ASSUME NEW i \in 1 .. 1, NEW x \in 1 .. Len(e[i])
        PROVE  o[i] + x \in 1 .. o[1 + 1] /\ f[1][o[i] + x] = e[i][x]
    <3>1. i = 1 /\ o[i] + x = x  BY <1>0
    <3> QED  BY <2>1, <2>2, <3>1
  <2> QED  BY <1>0, <2>1, <2>2, <2>3
<1>6. ASSUME NEW k \in 1 .. m - 1, Whole(k) PROVE Whole(k + 1)
  <2>1. k + 1 \in 1 .. m /\ k + 1 # 1 /\ (k + 1) - 1 = k /\ k \in 1 .. m  BY <1>0
  <2> DEFINE b == f[k]  c == e[k + 1]  d == f[k + 1]
  <2>2. d = b \o c  BY <1>4, <2>1
  <2>3. b \in Seq(Byte) /\ c \in Seq(Byte) /\ Len(b) = o[k + 1] /\ Len(b) \in Nat /\ Len(c) \in Nat
    BY <1>0, <1>6, <2>1
  <2>4. o[(k + 1) + 1] = Len(b) + Len(c)  BY <1>0, <2>1, <2>3
  <2>5. d \in Seq(Byte) /\ Len(d) = Len(b) + Len(c)
    <3> HIDE DEF b, c, d
    <3> QED  BY <2>2, <2>3, ConcatProperties
  <2>6. ASSUME NEW i \in 1 .. k + 1, NEW x \in 1 .. Len(e[i])
        PROVE  o[i] + x \in 1 .. Len(b) + Len(c) /\ d[o[i] + x] = e[i][x]
    <3>1. CASE i = k + 1
      <4>1. o[i] + x = Len(b) + x /\ e[i] = c /\ x \in 1 .. Len(c)  BY <2>3, <3>1
      <4> HIDE DEF b, c, d
      <4>2. Len(b) + x \in 1 .. Len(b) + Len(c) /\ ~(Len(b) + x <= Len(b)) /\ (Len(b) + x) - Len(b) = x
        BY SMTT(30), <2>3, <4>1
      <4>3. (b \o c)[Len(b) + x] = c[(Len(b) + x) - Len(b)]  BY <2>3, <4>2
      <4> QED  BY <2>2, <4>1, <4>2, <4>3
    <3>2. CASE i # k + 1
      <4>1. i \in 1 .. k  BY <3>2
      <4>2. o[i] + x \in 1 .. Len(b) /\ b[o[i] + x] = e[i][x]  BY <1>6, <2>3, <4>1
      <4> HIDE DEF b, c, d
      <4>3. (b \o c)[o[i] + x] = b[o[i] + x]  BY <2>3, <4>2
      <4> QED  BY <2>2, <2>3, <4>2, <4>3
    <3> QED  BY <3>1, <3>2
  <2> QED  BY <2>4, <2>5, <2>6
<1>7. m - 1 \in S
  <2>1. m - 1 \in Nat /\ 0 \in 0 .. m - 1 /\ 0 + 1 = 1  BY <1>0
  <2>2. 0 \in S  BY <1>5, <2>1
  <2>3. ASSUME NEW k \in 0 .. (m - 1) - 1, k \in S PROVE k + 1 \in S
    <3>1. k + 1 \in 1 .. m - 1 /\ k + 1 \in 0 .. m - 1  BY <1>0
    <3>2. Whole(k + 1)  BY <2>3
    <3> HIDE DEF Whole
    <3> QED  BY <1>6, <3>1, <3>2
  <2> HIDE DEF S
  <2>4. \A k \in 0 .. m - 1 : k \in S  BY <2>1, <2>2, <2>3, BoundedInduction
  <2> QED  BY <2>1, <2>4
<1>8. Whole(m)
  <2>1. (m - 1) + 1 = m  BY <1>0
  <2> HIDE DEF Whole
  <2> QED  BY <1>7, <2>1
<1> QED  BY <1>2, <1>8

\* The sizes of the parts summed up, before each of the first k parts.
Summed(parts, k, g) == g = [i \in 1 .. k |-> IF i = 1 THEN 0 ELSE g[i - 1] + PartSize(parts[i - 1])]

\* There are such sums.
LEMMA SummedExists ==
    ASSUME NEW parts, NEW m \in Nat \ {0}
    PROVE  \E f : Summed(parts, m, f)
<1> DEFINE S == {k \in 0 .. m - 1 : \E f : Summed(parts, k + 1, f)}
<1>1. 0 \in S
  <2> DEFINE f == [i \in 1 .. 1 |-> 0]
  <2>1. Summed(parts, 0 + 1, f)  BY DEF Summed
  <2> QED  BY <2>1
<1>2. ASSUME NEW k \in 0 .. (m - 1) - 1, k \in S PROVE k + 1 \in S
  <2>1. PICK f : Summed(parts, k + 1, f)  BY <1>2
  <2> DEFINE x == f[k + 1] + PartSize(parts[k + 1])
             g == [i \in 1 .. (k + 1) + 1 |-> IF i = k + 2 THEN x ELSE f[i]]
  <2>2. \A i \in 1 .. k + 1 : f[i] = IF i = 1 THEN 0 ELSE f[i - 1] + PartSize(parts[i - 1])
    <3> DEFINE G == [i \in 1 .. k + 1 |-> IF i = 1 THEN 0 ELSE f[i - 1] + PartSize(parts[i - 1])]
    <3>1. \A i \in 1 .. k + 1 : G[i] = IF i = 1 THEN 0 ELSE f[i - 1] + PartSize(parts[i - 1])
      OBVIOUS
    <3>2. f = G  BY <2>1 DEF Summed
    <3> HIDE DEF G
    <3> QED  BY <3>1, <3>2
  <2> HIDE DEF x
  <2>3. (k + 1) + 1 = k + 2 /\ k + 2 \in 1 .. (k + 1) + 1 /\ g[k + 2] = x
        /\ \A i \in 1 .. k + 1 : i \in 1 .. (k + 1) + 1 /\ i # k + 2 /\ g[i] = f[i]
    OBVIOUS
  <2>4. g = [i \in 1 .. (k + 1) + 1 |-> g[i]]  OBVIOUS
  <2> HIDE DEF g
  <2>5. ASSUME NEW i \in 1 .. (k + 1) + 1
        PROVE  g[i] = IF i = 1 THEN 0 ELSE g[i - 1] + PartSize(parts[i - 1])
    <3>1. CASE i = k + 2
      <4>1. i - 1 = k + 1 /\ i # 1 /\ k + 1 \in 1 .. k + 1  BY <3>1
      <4>2. g[k + 1] = f[k + 1]  BY <2>3, <4>1
      <4> QED  BY <2>3, <3>1, <4>1, <4>2 DEF x
    <3>2. CASE i # k + 2
      <4>1. i \in 1 .. k + 1 /\ (i # 1 => i - 1 \in 1 .. k + 1)  BY <3>2
      <4> QED  BY <2>2, <2>3, <4>1
    <3> QED  BY <3>1, <3>2
  <2>6. Summed(parts, (k + 1) + 1, g)  BY <2>4, <2>5 DEF Summed
  <2>7. k + 1 \in 0 .. m - 1  OBVIOUS
  <2> QED  BY <2>6, <2>7
<1>3. m - 1 \in S
  <2>1. m - 1 \in Nat  OBVIOUS
  <2> HIDE DEF S
  <2>2. \A k \in 0 .. m - 1 : k \in S  BY <1>1, <1>2, <2>1, BoundedInduction
  <2> QED  BY <2>1, <2>2
<1>4. (m - 1) + 1 = m  OBVIOUS
<1> QED  BY <1>3, <1>4

\* Offset() is where a part begins: where the one before it ends.
LEMMA OffsetIs ==
    ASSUME NEW n \in Nat, NEW parts, \A i \in 1 .. n : PartSize(parts[i]) \in Nat
    PROVE  /\ Offset(parts, 1) = 0
           /\ \A i \in 1 .. n + 1 : Offset(parts, i) \in Nat
           /\ \A i \in 1 .. n : Offset(parts, i + 1) = Offset(parts, i) + PartSize(parts[i])
<1> DEFINE sums == CHOOSE f : Summed(parts, n + 1, f)
           V(i) == CHOOSE f : f = [j \in 1 .. i |->
                                     IF j = 1 THEN 0 ELSE f[j - 1] + PartSize(parts[j - 1])]
<1>1. Summed(parts, n + 1, sums)
  <2>1. \E f : Summed(parts, n + 1, f)
    <3>1. n + 1 \in Nat \ {0}  OBVIOUS
    <3> QED  BY <3>1, SummedExists
  <2> QED  BY <2>1
<1>2. ASSUME NEW i \in 1 .. n + 1 PROVE Summed(parts, i, V(i)) /\ Offset(parts, i) = V(i)[i]
  <2>1. \E f : Summed(parts, i, f)
    <3>1. i \in Nat \ {0}  OBVIOUS
    <3> QED  BY <3>1, SummedExists
  <2>2. V(i) = CHOOSE f : Summed(parts, i, f)  BY DEF Summed
  <2>3. Offset(parts, i) = V(i)[i]  BY DEF Offset
  <2> HIDE DEF V
  <2> QED  BY <2>1, <2>2, <2>3
<1> HIDE DEF sums, V
<1>3. ASSUME NEW k \in 1 .. n + 1, NEW f, Summed(parts, k, f), NEW j \in 1 .. k
      PROVE  f[j] = IF j = 1 THEN 0 ELSE f[j - 1] + PartSize(parts[j - 1])
  <2> DEFINE G == [i \in 1 .. k |-> IF i = 1 THEN 0 ELSE f[i - 1] + PartSize(parts[i - 1])]
  <2>1. G[j] = IF j = 1 THEN 0 ELSE f[j - 1] + PartSize(parts[j - 1])  OBVIOUS
  <2>2. f = G  BY <1>3 DEF Summed
  <2> HIDE DEF G
  <2> QED  BY <2>1, <2>2
<1>4. ASSUME NEW i \in 1 .. n + 1 PROVE V(i)[i] = sums[i]
  <2> DEFINE S == {k \in 0 .. i - 1 : V(i)[k + 1] = sums[k + 1]}
  <2>1. 0 \in S
    <3>1. 1 \in 1 .. i /\ 1 \in 1 .. n + 1 /\ n + 1 \in 1 .. n + 1 /\ 0 \in 0 .. i - 1 /\ 0 + 1 = 1
      OBVIOUS
    <3>2. V(i)[1] = 0  BY <1>2, <1>3, <3>1
    <3>3. sums[1] = 0  BY <1>1, <1>3, <3>1
    <3> QED  BY <3>1, <3>2, <3>3
  <2>2. ASSUME NEW k \in 0 .. (i - 1) - 1, k \in S PROVE k + 1 \in S
    <3>1. /\ k + 2 \in 1 .. i /\ k + 2 \in 1 .. n + 1 /\ n + 1 \in 1 .. n + 1 /\ k + 2 # 1
          /\ (k + 2) - 1 = k + 1 /\ (k + 1) + 1 = k + 2 /\ k + 1 \in 0 .. i - 1
      OBVIOUS
    <3>2. V(i)[k + 2] = V(i)[k + 1] + PartSize(parts[k + 1])  BY <1>2, <1>3, <3>1
    <3>3. sums[k + 2] = sums[k + 1] + PartSize(parts[k + 1])  BY <1>1, <1>3, <3>1
    <3> QED  BY <2>2, <3>1, <3>2, <3>3
  <2>3. i - 1 \in S
    <3>1. i - 1 \in Nat /\ i - 1 \in 0 .. i - 1  OBVIOUS
    <3> HIDE DEF S
    <3>2. \A k \in 0 .. i - 1 : k \in S  BY <2>1, <2>2, <3>1, BoundedInduction
    <3> QED  BY <3>1, <3>2
  <2>4. (i - 1) + 1 = i  OBVIOUS
  <2> QED  BY <2>3, <2>4
<1>5. ASSUME NEW i \in 1 .. n + 1 PROVE Offset(parts, i) = sums[i]  BY <1>2, <1>4
<1>6. sums[1] = 0
  <2>1. 1 \in 1 .. n + 1 /\ n + 1 \in 1 .. n + 1  OBVIOUS
  <2> QED  BY <1>1, <1>3, <2>1
<1>7. ASSUME NEW i \in 1 .. n PROVE sums[i + 1] = sums[i] + PartSize(parts[i])
  <2>1. i + 1 \in 1 .. n + 1 /\ n + 1 \in 1 .. n + 1 /\ i + 1 # 1 /\ (i + 1) - 1 = i  OBVIOUS
  <2> QED  BY <1>1, <1>3, <2>1
<1>8. \A i \in 1 .. n + 1 : sums[i] \in Nat
  <2> DEFINE S == {k \in 0 .. n : sums[k + 1] \in Nat}
  <2>1. 0 \in S  BY <1>6
  <2>2. ASSUME NEW k \in 0 .. n - 1, k \in S PROVE k + 1 \in S
    <3>1. k + 1 \in 1 .. n /\ k + 1 \in 0 .. n  OBVIOUS
    <3>2. sums[(k + 1) + 1] = sums[k + 1] + PartSize(parts[k + 1]) /\ PartSize(parts[k + 1]) \in Nat
      BY <1>7, <3>1
    <3> QED  BY <2>2, <3>1, <3>2
  <2> HIDE DEF S
  <2>3. \A k \in 0 .. n : k \in S  BY <2>1, <2>2, BoundedInduction
  <2>4. TAKE i \in 1 .. n + 1
  <2>5. i - 1 \in 0 .. n /\ (i - 1) + 1 = i  OBVIOUS
  <2> QED  BY <2>3, <2>5 DEF S
<1>9. 1 \in 1 .. n + 1 /\ \A i \in 1 .. n : i \in 1 .. n + 1 /\ i + 1 \in 1 .. n + 1  OBVIOUS
<1> QED  BY <1>5, <1>6, <1>7, <1>8, <1>9

\* A key of the values of the first m of n parts.
IsKey(parts, n, key, m) ==
    /\ n \in Nat \ {0} /\ m \in 1 .. n
    /\ DOMAIN parts = 1 .. n /\ \A i \in 1 .. n : IsPart(parts[i])
    /\ DOMAIN key = 1 .. m /\ \A i \in 1 .. m : IsPartValue(parts[i], key[i])

\* A part has a size.
LEMMA PartSizeIs ==
    ASSUME NEW p, IsPart(p)
    PROVE  PartSize(p) \in Nat
<1>1. p.nullable \in BOOLEAN /\ p.size \in Nat /\ BlobLength \in Nat
  BY BlobAssumption DEF IsPart
<1>2. CASE p.type = "BYTE_BLOB"
  <2>1. PartSize(p) = (IF p.nullable THEN 1 ELSE 0) + p.size + BlobLength  BY <1>2 DEF PartSize
  <2> QED  BY <1>1, <2>1
<1>3. CASE p.type # "BYTE_BLOB"
  <2>1. PartSize(p) = (IF p.nullable THEN 1 ELSE 0) + p.size + 0  BY <1>3 DEF PartSize
  <2> QED  BY <1>1, <2>1
<1> QED  BY <1>2, <1>3

\* The bytes of the parts are found in the key from their offsets on.
LEMMA EncodeIs ==
    ASSUME NEW parts, NEW n, NEW key, NEW m, IsKey(parts, n, key, m)
    PROVE  /\ encode(parts, key) \in Seq(Byte) /\ Len(encode(parts, key)) = Offset(parts, m + 1)
           /\ \A i \in 1 .. m :
                 /\ Offset(parts, i) \in Nat /\ PartSize(parts[i]) \in Nat \ {0}
                 /\ Offset(parts, i) + PartSize(parts[i]) <= Offset(parts, m + 1)
                 /\ SubSeq(encode(parts, key), Offset(parts, i) + 1,
                           Offset(parts, i) + PartSize(parts[i])) = EncodePart(parts[i], key[i])
<1> DEFINE e == [i \in 1 .. m |-> EncodePart(parts[i], key[i])]
           o == [i \in 1 .. m + 1 |-> Offset(parts, i)]
           b == encode(parts, key)
<1>0. m \in Nat \ {0} /\ n \in Nat /\ (\A i \in 1 .. m : i \in 1 .. n)  BY DEF IsKey
<1>1. \A i \in 1 .. n : PartSize(parts[i]) \in Nat
  <2>1. \A i \in 1 .. n : IsPart(parts[i])  BY DEF IsKey
  <2> QED  BY <2>1, PartSizeIs
<1>2. ASSUME NEW i \in 1 .. m
      PROVE  PartSize(parts[i]) \in Nat \ {0} /\ EncodePart(parts[i], key[i]) \in [1 .. PartSize(parts[i]) -> Byte]
  <2>1. IsPart(parts[i]) /\ IsPartValue(parts[i], key[i])  BY SMTT(30), <1>0 DEF IsKey
  <2> QED  BY <2>1, PartTwice
<1>3. ASSUME NEW i \in 1 .. m PROVE e[i] \in Seq(Byte) /\ Len(e[i]) = PartSize(parts[i])
  <2>1. e[i] = EncodePart(parts[i], key[i])  OBVIOUS
  <2> HIDE DEF e
  <2> QED  BY SMTT(30), <1>2, <2>1
<1>4. /\ Offset(parts, 1) = 0 /\ \A i \in 1 .. m + 1 : Offset(parts, i) \in Nat
  <2>1. \A i \in 1 .. m + 1 : i \in 1 .. n + 1  BY <1>0
  <2> QED  BY <1>0, <1>1, <2>1, OffsetIs
<1>5. \A i \in 1 .. m : Offset(parts, i + 1) = Offset(parts, i) + PartSize(parts[i])
  BY <1>0, <1>1, OffsetIs
<1>6. Begins(e, m, o)
  <2>1. o \in [1 .. m + 1 -> Nat]  BY <1>4
  <2>2. e \in [1 .. m -> Seq(Byte)]
    <3>1. e = [i \in 1 .. m |-> e[i]]  OBVIOUS
    <3> HIDE DEF e
    <3> QED  BY <1>3, <3>1
  <2>3. o[1] = 0
    <3>1. 1 \in 1 .. m + 1  BY <1>0
    <3> QED  BY <1>4, <3>1
  <2>4. ASSUME NEW i \in 1 .. m PROVE o[i + 1] = o[i] + Len(e[i])
    <3>1. i \in 1 .. m + 1 /\ i + 1 \in 1 .. m + 1  BY <1>0
    <3>2. o[i] = Offset(parts, i) /\ o[i + 1] = Offset(parts, i + 1)  BY <3>1
    <3> HIDE DEF o, e
    <3> QED  BY <1>3, <1>5, <3>2
  <2> HIDE DEF e, o
  <2> QED  BY <1>0, <2>1, <2>2, <2>3, <2>4 DEF Begins
<1>7. b = FlattenSeq(e)
  <2>1. DOMAIN key = 1 .. m  BY DEF IsKey
  <2> QED  BY <2>1 DEF encode
<1>8. o[m + 1] = Offset(parts, m + 1) /\ \A i \in 1 .. m : o[i] = Offset(parts, i)
  BY <1>0
<1>9. \A i \in 1 .. m : e[i] = EncodePart(parts[i], key[i])  OBVIOUS
<1> HIDE DEF e, o, b
<1>10. /\ b \in Seq(Byte) /\ Len(b) = o[m + 1]
       /\ \A i \in 1 .. m : \A x \in 1 .. Len(e[i]) :
             o[i] + x \in 1 .. o[m + 1] /\ b[o[i] + x] = e[i][x]
  BY <1>6, <1>7, FlattenIs
<1>11. ASSUME NEW i \in 1 .. m
       PROVE  /\ Offset(parts, i) + PartSize(parts[i]) <= Offset(parts, m + 1)
              /\ SubSeq(b, Offset(parts, i) + 1, Offset(parts, i) + PartSize(parts[i]))
                   = EncodePart(parts[i], key[i])
  <2> DEFINE s == PartSize(parts[i])  z == Offset(parts, i)  t == Offset(parts, m + 1)  c == e[i]
  <2>1. s \in Nat \ {0} /\ z \in Nat /\ t \in Nat /\ c \in [1 .. s -> Byte] /\ Len(c) = s
        /\ c = EncodePart(parts[i], key[i])
    <3>1. i \in 1 .. m + 1 /\ m + 1 \in 1 .. m + 1  BY <1>0
    <3> QED  BY <1>2, <1>3, <1>4, <1>9, <3>1
  <2>2. \A x \in 1 .. s : z + x \in 1 .. t /\ b[z + x] = c[x]  BY <1>8, <1>10, <2>1
  <2>3. b \in Seq(Byte) /\ Len(b) = t  BY <1>8, <1>10
  <2> HIDE DEF s, z, t, c
  <2>4. z + s <= t
    <3>1. s \in 1 .. s  BY <2>1
    <3> QED  BY <2>1, <2>2, <3>1
  <2>5. SubSeq(b, z + 1, z + s) = [x \in 1 .. (z + s) - (z + 1) + 1 |-> b[x + (z + 1) - 1]]
    BY <2>1, <2>3, <2>4
  <2>6. (z + s) - (z + 1) + 1 = s /\ \A x \in 1 .. s : x + (z + 1) - 1 = z + x  BY <2>1
  <2>7. SubSeq(b, z + 1, z + s) = [x \in 1 .. s |-> c[x]]  BY <2>2, <2>5, <2>6
  <2>8. SubSeq(b, z + 1, z + s) = c  BY <2>1, <2>7
  <2> QED  BY <2>1, <2>4, <2>8 DEF s, z, t
<1>12. \A i \in 1 .. m : Offset(parts, i) \in Nat  BY <1>0, <1>4
<1> QED  BY <1>2, <1>8, <1>10, <1>11, <1>12 DEF b

\* decode() gives back what encode() was given, whatever the types of the parts.
THEOREM DecodeEncode ==
    ASSUME NEW parts, NEW n, NEW key, IsKey(parts, n, key, n)
    PROVE  decode(parts, encode(parts, key)) = [i \in 1 .. n |-> key[i]]
<1> DEFINE b == encode(parts, key)
           S(i) == SubSeq(b, Offset(parts, i) + 1, Offset(parts, i) + PartSize(parts[i]))
<1>1. ASSUME NEW i \in 1 .. n PROVE DecodePart(parts[i], S(i)) = key[i]
  <2>1. S(i) = EncodePart(parts[i], key[i])  BY EncodeIs
  <2>2. IsPart(parts[i]) /\ IsPartValue(parts[i], key[i])  BY DEF IsKey
  <2> HIDE DEF S
  <2> QED  BY <2>1, <2>2, PartTwice
<1>2. decode(parts, b) = [i \in 1 .. n |-> DecodePart(parts[i], S(i))]  BY DEF decode, IsKey
<1> HIDE DEF S, b
<1> QED  BY <1>1, <1>2 DEF b

\* Keys with the same bytes for the first m parts have the same values there.
LEMMA SameBytes ==
    ASSUME NEW parts, NEW n, NEW v, NEW m, IsKey(parts, n, v, m), NEW w, IsKey(parts, n, w, n),
           \A j \in 1 .. Len(encode(parts, v)) : encode(parts, w)[j] = encode(parts, v)[j]
    PROVE  \A i \in 1 .. m : w[i] = v[i]
<1> DEFINE b == encode(parts, v)  c == encode(parts, w)
<1>1. TAKE i \in 1 .. m
<1>2. i \in 1 .. n /\ m \in 1 .. n /\ n \in Nat  BY DEF IsKey
<1> DEFINE z == Offset(parts, i)  s == PartSize(parts[i])
<1>3. /\ b \in Seq(Byte) /\ Len(b) = Offset(parts, m + 1) /\ z \in Nat /\ s \in Nat \ {0} /\ z + s <= Len(b)
      /\ SubSeq(b, z + 1, z + s) = EncodePart(parts[i], v[i])
  BY EncodeIs
<1>4. /\ c \in Seq(Byte) /\ z + s <= Len(c)
      /\ SubSeq(c, z + 1, z + s) = EncodePart(parts[i], w[i])
  BY <1>2, EncodeIs
<1>5. \A j \in 1 .. Len(b) : c[j] = b[j]  OBVIOUS
<1>6. IsPart(parts[i]) /\ IsPartValue(parts[i], v[i]) /\ IsPartValue(parts[i], w[i])
  BY <1>2 DEF IsKey
<1> HIDE DEF b, c, z, s
<1>7. SubSeq(b, z + 1, z + s) = SubSeq(c, z + 1, z + s)
  <2>1. SubSeq(b, z + 1, z + s) = [x \in 1 .. (z + s) - (z + 1) + 1 |-> b[x + (z + 1) - 1]]
    BY <1>3
  <2>2. SubSeq(c, z + 1, z + s) = [x \in 1 .. (z + s) - (z + 1) + 1 |-> c[x + (z + 1) - 1]]
    BY <1>3, <1>4
  <2>3. \A x \in 1 .. (z + s) - (z + 1) + 1 : x + (z + 1) - 1 \in 1 .. Len(b)  BY <1>3
  <2> QED  BY <1>5, <2>1, <2>2, <2>3
<1>8. EncodePart(parts[i], v[i]) = EncodePart(parts[i], w[i])  BY <1>3, <1>4, <1>7
<1>9. /\ DecodePart(parts[i], EncodePart(parts[i], v[i])) = v[i]
      /\ DecodePart(parts[i], EncodePart(parts[i], w[i])) = w[i]
  BY <1>6, PartTwice
<1> QED  BY <1>8, <1>9

\* The keys from the least to the greatest one with given first values have them.
LEMMA BetweenKeys ==
    ASSUME NEW parts, NEW n, NEW v, NEW m, IsKey(parts, n, v, m), NEW w, IsKey(parts, n, w, n),
           ByteLeq(LeastKey(parts, v), encode(parts, w)),
           ByteLeq(encode(parts, w), GreatestKey(parts, v))
    PROVE  \A i \in 1 .. m : w[i] = v[i]
<1> DEFINE b == encode(parts, v)  c == encode(parts, w)  l == LeastKey(parts, v)
           g == GreatestKey(parts, v)  t == size(parts)
<1>1. m \in 1 .. n /\ n \in Nat \ {0} /\ Len(parts) = n  BY DEF IsKey
<1>2. b \in Seq(Byte) /\ Len(b) = Offset(parts, m + 1)  BY EncodeIs
<1>3. c \in Seq(Byte) /\ Len(c) = t  BY <1>1, EncodeIs DEF size
<1>4. Len(b) <= t
  <2>1. Offset(parts, m + 1) <= Offset(parts, n + 1)
    <3>1. CASE m = n  
      <4>1. Len(b) \in Nat  BY <1>2
      <4> QED  BY <1>2, <3>1, <4>1
    <3>2. CASE m # n
      <4>1. m + 1 \in 1 .. n  BY <1>1, <3>2
      <4>2. \A i \in 1 .. n : /\ Offset(parts, i) \in Nat /\ PartSize(parts[i]) \in Nat \ {0}
                              /\ Offset(parts, i) + PartSize(parts[i]) <= Offset(parts, n + 1)
        BY EncodeIs
      <4>3. Len(c) \in Nat /\ Len(c) = Offset(parts, n + 1)  BY <1>1, <1>3 DEF size
      <4> QED  BY <4>1, <4>2, <4>3
    <3> QED  BY <3>1, <3>2
  <2> QED  BY <1>1, <1>2, <2>1 DEF size
<1>5. Byte \subseteq Int /\ 0 \in Byte /\ MaxByte \in Byte  BY BaseFacts DEF Byte
<1>6. t \in Nat /\ Len(b) \in Nat /\ b \in Seq(Int) /\ c \in Seq(Int)
  BY <1>2, <1>3, BytesAre
<1>7. /\ l \in Seq(Int) /\ Len(l) = t /\ \A i \in 1 .. Len(b) : l[i] = b[i]
      /\ g \in Seq(Int) /\ Len(g) = t /\ \A i \in 1 .. Len(b) : g[i] = b[i]
  <2>1. l = Pad(b, t, 0) /\ g = Pad(b, t, MaxByte)  BY DEF LeastKey, GreatestKey
  <2>2. 0 \in Int /\ MaxByte \in Int  BY <1>5
  <2> HIDE DEF b, t, l, g
  <2>3. \A x \in Int : /\ Pad(b, t, x) \in Seq(Int) /\ Len(Pad(b, t, x)) = t
                      /\ \A i \in 1 .. Len(b) : Pad(b, t, x)[i] = b[i]
    BY <1>4, <1>6, PadAt
  <2> QED  BY <2>1, <2>2, <2>3
<1>8. ByteLeq(l, c) /\ ByteLeq(c, g)  OBVIOUS
<1> HIDE DEF b, c, l, g, t
<1>9. \A j \in 1 .. Len(b) : c[j] = b[j]
  <2> DEFINE T == {j \in 1 .. Len(b) : c[j] # b[j]}
  <2>1. SUFFICES ASSUME T # {} PROVE FALSE  OBVIOUS
  <2>2. T \in SUBSET Nat  BY <1>6
  <2>3. PICK j \in T : \A k \in T : j <= k
    <3> HIDE DEF T
    <3> QED  BY <2>1, <2>2, LeastNat
  <2>4. /\ j \in 1 .. Len(b) /\ j \in 1 .. t /\ j \in Nat /\ c[j] # b[j]
        /\ \A k \in 1 .. j - 1 : k \in 1 .. Len(b) /\ c[k] = b[k]
    <3>1. j \in 1 .. Len(b) /\ c[j] # b[j]  BY <2>3
    <3>2. j \in 1 .. t /\ j \in Nat  BY <1>4, <1>6, <3>1
    <3>3. ASSUME NEW k \in 1 .. j - 1 PROVE k \in 1 .. Len(b) /\ c[k] = b[k]
      <4>1. k \in 1 .. Len(b) /\ ~(j <= k)  BY <1>6, <3>1, <3>2
      <4> QED  BY <2>3, <4>1
    <3> QED  BY <3>1, <3>2, <3>3
  <2>5. DifferAt(l, c, j) /\ DifferAt(c, g, j)  BY <1>3, <1>7, <2>4 DEF DifferAt
  <2>6. (ByteLess(l, c) <=> l[j] < c[j]) /\ (ByteLess(c, g) <=> c[j] < g[j])
    BY <2>5, FirstDifference
  <2>7. l # c /\ c # g  BY <1>7, <2>4
  <2>8. ByteLess(l, c) /\ ByteLess(c, g)  BY <1>8, <2>7 DEF ByteLeq
  <2>9. b[j] \in Int /\ c[j] \in Int /\ l[j] = b[j] /\ g[j] = b[j]
    BY <1>3, <1>6, <1>7, <2>4
  <2> QED  BY <2>6, <2>8, <2>9
<1> QED  BY <1>9, SameBytes DEF b, c

\* The bytes of a part in the key.
LEMMA PartBytes ==
    ASSUME NEW parts, NEW n, NEW v, NEW m, IsKey(parts, n, v, m), NEW i \in 1 .. m
    PROVE  /\ Offset(parts, i) \in Nat /\ PartSize(parts[i]) \in Nat \ {0}
           /\ Offset(parts, i) + PartSize(parts[i]) <= Len(encode(parts, v))
           /\ EncodePart(parts[i], v[i]) \in Seq(Byte) /\ Len(EncodePart(parts[i], v[i])) = PartSize(parts[i])
           /\ \A x \in 1 .. PartSize(parts[i]) :
                 encode(parts, v)[Offset(parts, i) + x] = EncodePart(parts[i], v[i])[x]
<1> DEFINE b == encode(parts, v)  z == Offset(parts, i)  s == PartSize(parts[i])
           e == EncodePart(parts[i], v[i])
<1>1. /\ b \in Seq(Byte) /\ z \in Nat /\ s \in Nat \ {0} /\ z + s <= Len(b)
      /\ SubSeq(b, z + 1, z + s) = e
  BY EncodeIs
<1> HIDE DEF b, z, s, e
<1>2. SubSeq(b, z + 1, z + s) = [x \in 1 .. (z + s) - (z + 1) + 1 |-> b[x + (z + 1) - 1]]
  BY <1>1
<1>3. (z + s) - (z + 1) + 1 = s /\ \A x \in 1 .. s : x + (z + 1) - 1 = z + x /\ z + x \in 1 .. Len(b)
  BY <1>1
<1>4. e = [x \in 1 .. s |-> b[z + x]]  BY <1>1, <1>2, <1>3
<1>5. \A x \in 1 .. s : b[z + x] \in Byte  BY <1>1, <1>3
<1>6. e \in Seq(Byte) /\ Len(e) = s  BY <1>1, <1>4, <1>5
<1>7. \A x \in 1 .. s : b[z + x] = e[x]  BY <1>4
<1> QED  BY <1>1, <1>6, <1>7 DEF b, z, s, e

\* Keys with the same first values have the same bytes there.
LEMMA SameStart ==
    ASSUME NEW parts, NEW n, NEW v, NEW m, IsKey(parts, n, v, m), NEW w, NEW l, IsKey(parts, n, w, l),
           NEW k \in Nat, k <= m, k <= l, \A j \in 1 .. k : v[j] = w[j]
    PROVE  /\ Offset(parts, k + 1) \in Nat
           /\ Offset(parts, k + 1) <= Len(encode(parts, v)) /\ Offset(parts, k + 1) <= Len(encode(parts, w))
           /\ \A x \in 1 .. Offset(parts, k + 1) : encode(parts, v)[x] = encode(parts, w)[x]
<1> DEFINE b == encode(parts, v)  c == encode(parts, w)
           Same(j) == /\ Offset(parts, j + 1) \in Nat
                      /\ Offset(parts, j + 1) <= Len(b) /\ Offset(parts, j + 1) <= Len(c)
                      /\ \A x \in 1 .. Offset(parts, j + 1) : b[x] = c[x]
           S == {j \in 0 .. k : Same(j)}
<1>0. m \in 1 .. n /\ l \in 1 .. n /\ n \in Nat \ {0}  BY DEF IsKey
<1>1. Len(b) \in Nat /\ Len(c) \in Nat
  <2>1. b \in Seq(Byte) /\ c \in Seq(Byte)  BY EncodeIs
  <2> QED  BY <2>1, BytesAre
<1>2. ASSUME NEW i \in 1 .. k
      PROVE  /\ Offset(parts, i) \in Nat /\ PartSize(parts[i]) \in Nat \ {0}
             /\ Offset(parts, i + 1) = Offset(parts, i) + PartSize(parts[i])
             /\ Offset(parts, i + 1) <= Len(b) /\ Offset(parts, i + 1) <= Len(c)
             /\ \A x \in 1 .. PartSize(parts[i]) : b[Offset(parts, i) + x] = c[Offset(parts, i) + x]
  <2>1. i \in 1 .. m /\ i \in 1 .. l /\ i \in 1 .. n /\ v[i] = w[i]  BY <1>0
  <2>2. \A j \in 1 .. i : PartSize(parts[j]) \in Nat
    <3>1. TAKE j \in 1 .. i
    <3>2. j \in 1 .. m  BY <2>1, <1>0
    <3> QED  BY <3>2, PartBytes
  <2>3. Offset(parts, i + 1) = Offset(parts, i) + PartSize(parts[i])
    <3>1. i \in Nat /\ i \in 1 .. i  BY <2>1
    <3> QED  BY <2>2, <3>1, OffsetIs
  <2>4. /\ Offset(parts, i) \in Nat /\ PartSize(parts[i]) \in Nat \ {0}
        /\ Offset(parts, i) + PartSize(parts[i]) <= Len(b)
        /\ \A x \in 1 .. PartSize(parts[i]) : b[Offset(parts, i) + x] = EncodePart(parts[i], v[i])[x]
    BY <2>1, PartBytes
  <2>5. /\ Offset(parts, i) + PartSize(parts[i]) <= Len(c)
        /\ \A x \in 1 .. PartSize(parts[i]) : c[Offset(parts, i) + x] = EncodePart(parts[i], w[i])[x]
    BY SMTT(30), <2>1, PartBytes
  <2> HIDE DEF b, c
  <2> QED  BY <2>1, <2>3, <2>4, <2>5
<1> HIDE DEF b, c
<1>3. 0 \in S
  <2>1. Offset(parts, 0 + 1) = 0
    <3>1. \A i \in 1 .. 0 : PartSize(parts[i]) \in Nat /\ 0 \in Nat /\ 0 + 1 = 1  OBVIOUS
    <3> QED  BY <3>1, OffsetIs
  <2> QED  BY <1>1, <2>1
<1>4. ASSUME NEW j \in 0 .. k - 1, j \in S PROVE j + 1 \in S
  <2> DEFINE z == Offset(parts, j + 1)  s == PartSize(parts[j + 1])
  <2>1. j + 1 \in 1 .. k /\ j + 1 \in 0 .. k  OBVIOUS
  <2>2. /\ s \in Nat \ {0} /\ Offset(parts, (j + 1) + 1) = z + s
        /\ z + s <= Len(b) /\ z + s <= Len(c) /\ \A x \in 1 .. s : b[z + x] = c[z + x]
    <3>1. Offset(parts, (j + 1) + 1) = z + s  BY <1>2, <2>1
    <3> QED  BY <1>2, <2>1, <3>1
  <2>3. z \in Nat /\ \A x \in 1 .. z : b[x] = c[x]  BY <1>4
  <2> HIDE DEF z, s
  <2>4. ASSUME NEW x \in 1 .. z + s PROVE b[x] = c[x]
    <3>1. CASE x <= z
      <4>1. x \in 1 .. z  BY <2>2, <2>3, <3>1
      <4> QED  BY <2>3, <4>1
    <3>2. CASE ~(x <= z)
      <4>1. x - z \in 1 .. s /\ z + (x - z) = x  BY <2>2, <2>3, <3>2
      <4> QED  BY <2>2, <4>1
    <3> QED  BY <3>1, <3>2
  <2>5. Same(j + 1)  BY <2>2, <2>3, <2>4
  <2> QED  BY <2>1, <2>5
<1>5. k \in S
  <2> HIDE DEF S
  <2>1. \A j \in 0 .. k : j \in S  BY <1>3, <1>4, BoundedInduction
  <2> QED  BY <2>1
<1> QED  BY <1>5 DEF b, c

\* Bytes that begin with those of a key.
StartsWith(b, e) == b \in Seq(Int) /\ Len(e) <= Len(b) /\ \A x \in 1 .. Len(e) : b[x] = e[x]

\* encode() makes the order of the bytes the order of the columns: of two keys,
\* whatever follows the values they give, the one is less that has the lesser
\* part where they differ first.
THEOREM EncodeKeepsOrder ==
    ASSUME NEW parts, NEW n, NEW v, NEW m, IsKey(parts, n, v, m), NEW w, NEW l, IsKey(parts, n, w, l),
           NEW i \in 1 .. m, i \in 1 .. l, \A j \in 1 .. i - 1 : v[j] = w[j],
           ByteLess(EncodePart(parts[i], v[i]), EncodePart(parts[i], w[i])),
           NEW b, StartsWith(b, encode(parts, v)), NEW c, StartsWith(c, encode(parts, w))
    PROVE  ByteLess(b, c)
<1> DEFINE z == Offset(parts, i)  s == PartSize(parts[i])
           d == EncodePart(parts[i], v[i])  e == EncodePart(parts[i], w[i])
           f == encode(parts, v)  g == encode(parts, w)
<1>0. m \in 1 .. n /\ l \in 1 .. n /\ n \in Nat \ {0}  BY DEF IsKey
<1>1. /\ z \in Nat /\ s \in Nat \ {0} /\ z + s <= Len(f) /\ d \in Seq(Byte) /\ Len(d) = s
      /\ \A x \in 1 .. s : f[z + x] = d[x]
  BY PartBytes
<1>2. z + s <= Len(g) /\ e \in Seq(Byte) /\ Len(e) = s /\ \A x \in 1 .. s : g[z + x] = e[x]
  BY PartBytes
<1>3. \A x \in 1 .. z : f[x] = g[x]
  <2>1. i - 1 \in Nat /\ i - 1 <= m /\ i - 1 <= l /\ (i - 1) + 1 = i  BY <1>0
  <2> HIDE DEF f, g
  <2> QED  BY <2>1, SameStart DEF f, g
<1>4. f \in Seq(Byte) /\ g \in Seq(Byte)  BY EncodeIs
<1>5. d \in Seq(Int) /\ e \in Seq(Int) /\ Len(f) \in Nat /\ Len(g) \in Nat  BY <1>1, <1>2, <1>4, BytesAre
<1>6. ByteLess(d, e)  OBVIOUS
<1>7. /\ b \in Seq(Int) /\ Len(b) \in Nat /\ Len(f) <= Len(b) /\ \A x \in 1 .. Len(f) : b[x] = f[x]
      /\ c \in Seq(Int) /\ Len(c) \in Nat /\ Len(g) <= Len(c) /\ \A x \in 1 .. Len(g) : c[x] = g[x]
  BY DEF StartsWith
<1> HIDE DEF z, s, d, e, f, g
<1>8. PICK k \in Nat : DifferAt(d, e, k) /\ d[k] < e[k]
  <2>1. ~GoesOn(d, e)  BY <1>1, <1>2 DEF GoesOn
  <2> QED  BY <1>5, <1>6, <2>1, ByteLessIs
<1>9. k \in 1 .. s /\ d[k] # e[k] /\ \A j \in 1 .. k - 1 : j \in 1 .. s /\ d[j] = e[j]
  BY <1>1, <1>2, <1>8 DEF DifferAt
<1>10. \A x \in 1 .. z + s : x \in 1 .. Len(f) /\ x \in 1 .. Len(g) /\ x \in 1 .. Len(b) /\ x \in 1 .. Len(c)
  BY <1>1, <1>2, <1>5, <1>7
<1>11. \A x \in 1 .. s : z + x \in 1 .. z + s /\ b[z + x] = d[x] /\ c[z + x] = e[x]
  <2>1. \A x \in 1 .. s : z + x \in 1 .. z + s  BY <1>1
  <2> QED  BY <1>1, <1>2, <1>7, <1>10, <2>1
<1>12. \A x \in 1 .. z : b[x] = c[x]
  <2>1. \A x \in 1 .. z : x \in 1 .. z + s  BY <1>1
  <2> QED  BY <1>3, <1>7, <1>10, <2>1
<1>13. \A j \in 1 .. (z + k) - 1 : b[j] = c[j]
  <2>1. TAKE j \in 1 .. (z + k) - 1
  <2>2. CASE j <= z
    <3>1. j \in 1 .. z  BY <1>1, <1>9, <2>2
    <3> QED  BY <1>12, <3>1
  <2>3. CASE ~(j <= z)
    <3>1. j - z \in 1 .. k - 1 /\ z + (j - z) = j  BY <1>1, <1>9, <2>3
    <3> QED  BY <1>9, <1>11, <3>1
  <2> QED  BY <2>2, <2>3
<1>14. DifferAt(b, c, z + k) /\ b[z + k] < c[z + k]
  BY <1>7, <1>8, <1>9, <1>10, <1>11, <1>13 DEF DifferAt
<1> QED  BY <1>14, FirstDifference

\* The least and the greatest key begin with the bytes of the values they are made of.
LEMMA BoundsStart ==
    ASSUME NEW parts, NEW n, NEW v, NEW m, IsKey(parts, n, v, m)
    PROVE  /\ StartsWith(encode(parts, v), encode(parts, v))
           /\ StartsWith(LeastKey(parts, v), encode(parts, v))
           /\ StartsWith(GreatestKey(parts, v), encode(parts, v))
           /\ size(parts) \in Nat /\ Len(encode(parts, v)) <= size(parts)
           /\ Len(LeastKey(parts, v)) = size(parts) /\ Len(GreatestKey(parts, v)) = size(parts)
           /\ \A x \in Len(encode(parts, v)) + 1 .. size(parts) :
                 LeastKey(parts, v)[x] = 0 /\ GreatestKey(parts, v)[x] = MaxByte
           /\ m = n => Len(encode(parts, v)) = size(parts)
<1> DEFINE b == encode(parts, v)  t == size(parts)
<1>1. m \in 1 .. n /\ n \in Nat \ {0} /\ Len(parts) = n /\ \A i \in 1 .. n : IsPart(parts[i])
  BY DEF IsKey
<1>2. b \in Seq(Byte) /\ Len(b) = Offset(parts, m + 1)  BY EncodeIs
<1>3. b \in Seq(Int) /\ Len(b) \in Nat  BY <1>2, BytesAre
<1>4. \A i \in 1 .. n : PartSize(parts[i]) \in Nat  BY <1>1, PartSizeIs
<1>5. /\ \A i \in 1 .. n + 1 : Offset(parts, i) \in Nat
      /\ \A i \in 1 .. n : Offset(parts, i + 1) = Offset(parts, i) + PartSize(parts[i])
  BY <1>1, <1>4, OffsetIs
<1>6. t = Offset(parts, n + 1)  BY <1>1 DEF size
<1>7. t \in Nat
  <2>1. n + 1 \in 1 .. n + 1  BY <1>1
  <2> QED  BY <1>5, <1>6, <2>1
<1>8. Len(b) <= t
  <2> DEFINE S == {k \in 0 .. n - m : Offset(parts, m + 1) <= Offset(parts, (m + 1) + k)}
  <2>1. n - m \in Nat /\ \A k \in 0 .. n - m : (m + 1) + k \in 1 .. n + 1  BY <1>1
  <2>2. 0 \in S
    <3>1. (m + 1) + 0 = m + 1 /\ m + 1 \in 1 .. n + 1 /\ 0 \in 0 .. n - m  BY <1>1
    <3>2. Offset(parts, m + 1) <= Offset(parts, m + 1)  BY <1>5, <3>1
    <3> QED  BY <3>1, <3>2
  <2>3. ASSUME NEW k \in 0 .. (n - m) - 1, k \in S PROVE k + 1 \in S
    <3>1. /\ k + 1 \in 0 .. n - m /\ (m + 1) + (k + 1) = ((m + 1) + k) + 1 /\ (m + 1) + k \in 1 .. n
          /\ m + 1 \in 1 .. n + 1 /\ (m + 1) + k \in 1 .. n + 1
      BY <1>1, <2>1
    <3>2. Offset(parts, (m + 1) + (k + 1)) = Offset(parts, (m + 1) + k) + PartSize(parts[(m + 1) + k])
      BY <1>5, <3>1
    <3>3. /\ PartSize(parts[(m + 1) + k]) \in Nat /\ Offset(parts, (m + 1) + k) \in Nat
          /\ Offset(parts, m + 1) \in Nat
      BY <1>4, <1>5, <3>1
    <3>4. Offset(parts, m + 1) <= Offset(parts, (m + 1) + k)  BY <2>3
    <3>5. Offset(parts, m + 1) <= Offset(parts, (m + 1) + (k + 1))  BY <3>2, <3>3, <3>4
    <3> QED  BY <3>1, <3>5
  <2> HIDE DEF S
  <2>4. \A k \in 0 .. n - m : k \in S  BY <2>1, <2>2, <2>3, BoundedInduction
  <2>5. n - m \in 0 .. n - m /\ (m + 1) + (n - m) = n + 1  BY <1>1
  <2> QED  BY <1>2, <1>6, <2>4, <2>5 DEF S
<1>9. 0 \in Int /\ MaxByte \in Int  BY BaseFacts
<1>10. LeastKey(parts, v) = Pad(b, t, 0) /\ GreatestKey(parts, v) = Pad(b, t, MaxByte)
  BY DEF LeastKey, GreatestKey
<1>11. m = n => Len(b) = t  BY <1>2, <1>6
<1> HIDE DEF b, t
<1>12. ASSUME NEW x \in Int
       PROVE  /\ StartsWith(Pad(b, t, x), b) /\ Len(Pad(b, t, x)) = t
              /\ \A i \in Len(b) + 1 .. t : Pad(b, t, x)[i] = x
  BY <1>3, <1>7, <1>8, PadAt DEF StartsWith
<1>13. StartsWith(b, b)  BY <1>3 DEF StartsWith
<1> QED  BY <1>7, <1>8, <1>9, <1>10, <1>11, <1>12, <1>13 DEF b, t

\* The range of keys that storage_encode_multiple_column_key_range() makes of
\* the first values has just the keys that begin with these values.
THEOREM RangeKeysBegin ==
    ASSUME NEW parts, NEW n, NEW v, NEW m, IsKey(parts, n, v, m), NEW w, IsKey(parts, n, w, n)
    PROVE  (\A i \in 1 .. m : w[i] = v[i])
           <=> /\ ByteLeq(LeastKey(parts, v), encode(parts, w))
               /\ ByteLeq(encode(parts, w), GreatestKey(parts, v))
<1> DEFINE b == encode(parts, v)  c == encode(parts, w)  t == size(parts)
           low == LeastKey(parts, v)  high == GreatestKey(parts, v)
<1>1. ASSUME \A i \in 1 .. m : w[i] = v[i] PROVE ByteLeq(low, c) /\ ByteLeq(c, high)
  <2>0. m \in 1 .. n /\ n \in Nat \ {0}  BY DEF IsKey
  <2>1. /\ t \in Nat /\ Len(b) <= t /\ StartsWith(low, b) /\ StartsWith(high, b)
        /\ Len(low) = t /\ Len(high) = t
        /\ \A x \in Len(b) + 1 .. t : low[x] = 0 /\ high[x] = MaxByte
    BY BoundsStart
  <2>2. Len(c) = t  BY BoundsStart
  <2>3. c \in Seq(Byte) /\ b \in Seq(Byte)  BY <2>0, EncodeIs
  <2>4. c \in Seq(Int) /\ Len(b) \in Nat  BY <2>3, BytesAre
  <2>5. \A x \in 1 .. Len(b) : b[x] = c[x]
    <3>1. m \in Nat /\ m <= m /\ m <= n /\ \A j \in 1 .. m : v[j] = w[j]  BY <1>1, <2>0
    <3>2. Len(b) = Offset(parts, m + 1)  BY EncodeIs
    <3>3. \A x \in 1 .. Offset(parts, m + 1) : b[x] = c[x]
      <4> HIDE DEF b, c
      <4> QED  BY <3>1, SameStart DEF b, c
    <3> QED  BY <3>2, <3>3
  <2>6. low \in Seq(Int) /\ high \in Seq(Int) /\ \A x \in 1 .. Len(b) : low[x] = b[x] /\ high[x] = b[x]
    BY <2>1 DEF StartsWith
  <2> HIDE DEF b, c, low, high, t
  <2>7. \A x \in 1 .. t : low[x] <= c[x] /\ c[x] <= high[x] /\ low[x] \in Int /\ c[x] \in Int /\ high[x] \in Int
    <3>1. TAKE x \in 1 .. t
    <3>2. c[x] \in Byte  BY <2>2, <2>3
    <3>3. c[x] \in Int /\ 0 <= c[x] /\ c[x] <= MaxByte /\ MaxByte \in Int  BY <3>2, BaseFacts DEF Byte
    <3>4. CASE x \in 1 .. Len(b)
      <4>1. low[x] = c[x] /\ high[x] = c[x]  BY <2>5, <2>6, <3>4
      <4> QED  BY <3>3, <4>1
    <3>5. CASE x \notin 1 .. Len(b)
      <4>1. x \in Len(b) + 1 .. t  BY <2>1, <2>4, <3>5
      <4>2. low[x] = 0 /\ high[x] = MaxByte  BY <2>1, <4>1
      <4> QED  BY <3>3, <4>2
    <3> QED  BY <3>4, <3>5
  <2>8. ASSUME NEW d \in Seq(Int), NEW e \in Seq(Int), Len(d) = t, Len(e) = t,
               \A x \in 1 .. t : d[x] <= e[x] /\ d[x] \in Int /\ e[x] \in Int
        PROVE  ByteLeq(d, e)
    <3>1. CASE d = e  BY <3>1 DEF ByteLeq
    <3>2. CASE d # e
      <4>1. SUFFICES ASSUME ByteLess(e, d) PROVE FALSE  BY <3>2, ByteTotal DEF ByteLeq
      <4>2. ~GoesOn(e, d)  BY <2>1, <2>8 DEF GoesOn
      <4>3. PICK k \in Nat : DifferAt(e, d, k) /\ e[k] < d[k]  BY <4>1, <4>2, ByteLessIs
      <4>4. k \in 1 .. t  BY <2>8, <4>3 DEF DifferAt
      <4> QED  BY <2>8, <4>3, <4>4
    <3> QED  BY <3>1, <3>2
  <2>9. ByteLeq(low, c)  BY <2>1, <2>2, <2>4, <2>6, <2>7, <2>8
  <2>10. ByteLeq(c, high)  BY <2>1, <2>2, <2>4, <2>6, <2>7, <2>8
  <2> QED  BY <2>9, <2>10
<1>2. ASSUME ByteLeq(low, c), ByteLeq(c, high) PROVE \A i \in 1 .. m : w[i] = v[i]
  BY <1>2, BetweenKeys
<1>3. (\A i \in 1 .. m : w[i] = v[i]) <=> ByteLeq(low, c) /\ ByteLeq(c, high)
  <2> HIDE DEF low, c, high
  <2> QED  BY <1>1, <1>2
<1> QED  BY <1>3
-----------------------------------------------------------------------------
(* Times. *)

\* The time units are positive.
LEMMA ClockFacts == SecPerHour \in Nat \ {0} /\ SecPerHour <= 100 /\ UsecPerSec \in Nat \ {0}
BY ClockAssumption

\* Packing what was unpacked gives back the Groonga time.
LEMMA PackUnpack ==
    ASSUME NEW t \in Int
    PROVE  /\ GRN_TIME_UNPACK(t).sec \in Int /\ GRN_TIME_UNPACK(t).usec \in Int
           /\ GRN_TIME_PACK(GRN_TIME_UNPACK(t).sec, GRN_TIME_UNPACK(t).usec) = t
<1> DEFINE s == TruncDiv(t, UsecPerSec)
<1>1. s \in Int
  <2>1. t \div UsecPerSec \in Int /\ (-t) \div UsecPerSec \in Int  BY ClockFacts, DivMod
  <2> QED  BY <2>1 DEF TruncDiv
<1>2. GRN_TIME_UNPACK(t).sec = s /\ GRN_TIME_UNPACK(t).usec = t - UsecPerSec * s
  BY DEF GRN_TIME_UNPACK, TruncMod
<1> HIDE DEF s
<1>3. s * UsecPerSec + (t - UsecPerSec * s) = t  BY <1>1, ClockFacts
<1>4. t - UsecPerSec * s \in Int  BY <1>1, ClockFacts
<1> QED  BY <1>1, <1>2, <1>3, <1>4 DEF GRN_TIME_PACK

\* Unpacking what was packed gives back the seconds and the microseconds,
\* except for a fraction before 1970.
LEMMA UnpackPack ==
    ASSUME NEW s \in Int, NEW u \in 0 .. UsecPerSec - 1, s >= 0 \/ u = 0
    PROVE  GRN_TIME_UNPACK(GRN_TIME_PACK(s, u)) = [sec |-> s, usec |-> u]
<1> DEFINE p == UsecPerSec  t == s * p + u
<1>0. p \in Nat \ {0} /\ u \in Int  BY ClockFacts
<1> HIDE DEF p
<1>1. t \in Int  BY <1>0
<1>2. TruncDiv(t, p) = s
  <2>1. CASE s >= 0
    <3>1. t >= 0
      <4>1. s * p >= 0  BY <1>0, <2>1
      <4> QED  BY <1>0, <4>1 DEF p
    <3>2. (p * s + u) \div p = s  BY <1>0, DivUnique DEF p
    <3>3. p * s + u = t  BY <1>0
    <3> QED  BY <3>1, <3>2, <3>3 DEF TruncDiv
  <2>2. CASE s < 0
    <3>1. u = 0  BY <2>2
    <3>2. (p * (-s) + 0) \div p = -s
      <4>1. -s \in Int /\ 0 \in 0 .. p - 1  BY <1>0
      <4> QED  BY <1>0, <4>1, DivUnique
    <3>3. p * (-s) + 0 = -t  BY <1>0, <3>1
    <3>4. ~(t >= 0)
      <4>1. p * (-s) > 0 /\ p * (-s) \in Int  BY <1>0, <2>2
      <4> HIDE DEF t
      <4> QED  BY <1>1, <3>3, <4>1
    <3>5. TruncDiv(t, p) = -((-t) \div p)  BY <3>4 DEF TruncDiv
    <3> QED  BY <3>2, <3>3, <3>5
  <2> QED  BY <2>1, <2>2
<1>3. t - p * s = u  BY <1>0
<1>4. GRN_TIME_UNPACK(t) = [sec |-> TruncDiv(t, p), usec |-> t - p * TruncDiv(t, p)]
  BY DEF GRN_TIME_UNPACK, TruncMod, p
<1>5. GRN_TIME_PACK(s, u) = t  BY DEF GRN_TIME_PACK, p
<1> HIDE DEF t
<1> QED  BY <1>2, <1>3, <1>4, <1>5

\* Times before 1970 with a fraction: C gives a negative rest.
LEMMA UnpackNegative ==
    ASSUME NEW s \in Nat, NEW u \in 1 .. UsecPerSec - 1
    PROVE  GRN_TIME_UNPACK(-GRN_TIME_PACK(s, u)) = [sec |-> -s, usec |-> -u]
<1> DEFINE p == UsecPerSec  t == -(s * p + u)
<1>0. p \in Nat \ {0} /\ u \in Int /\ u > 0 /\ u \in 0 .. p - 1  BY ClockFacts
<1> HIDE DEF p
<1>1. t \in Int /\ ~(t >= 0)
  <2>1. s * p >= 0 /\ s * p \in Int  BY <1>0
  <2> QED  BY <1>0, <2>1
<1>2. TruncDiv(t, p) = -s
  <2>1. (p * s + u) \div p = s  BY <1>0, DivUnique
  <2>2. -t = p * s + u  BY <1>0
  <2>3. TruncDiv(t, p) = -((-t) \div p)  BY <1>1 DEF TruncDiv
  <2> QED  BY <2>1, <2>2, <2>3
<1>3. t - p * (-s) = -u  BY <1>0
<1>4. GRN_TIME_UNPACK(t) = [sec |-> TruncDiv(t, p), usec |-> t - p * TruncDiv(t, p)]
  BY DEF GRN_TIME_UNPACK, TruncMod, p
<1>5. -GRN_TIME_PACK(s, u) = t  BY DEF GRN_TIME_PACK, p
<1> HIDE DEF t
<1> QED  BY <1>2, <1>3, <1>4, <1>5

\* A fraction before 1970 comes back as a negative number of microseconds.
LEMMA UnpackBefore ==
    ASSUME NEW s \in Int, s < 0, NEW u \in 1 .. UsecPerSec - 1
    PROVE  GRN_TIME_UNPACK(GRN_TIME_PACK(s, u)).usec < 0
<1> DEFINE p == UsecPerSec  t == s * p + u
<1>0. p \in Nat \ {0} /\ u \in Int /\ u > 0 /\ u < p /\ p - u \in 0 .. p - 1  BY ClockFacts
<1>1. (-s) - 1 \in Int /\ s + 1 \in Int  OBVIOUS
<1> HIDE DEF p
<1>2. t \in Int /\ ~(t >= 0)
  <2>1. p * s <= p * (-1)
    <3>1. s <= -1 /\ -1 \in Int /\ p \in Nat  BY <1>0
    <3> QED  BY <3>1, MulMono
  <2>2. p * s = s * p /\ p * (-1) = -p  BY <1>0
  <2> QED  BY <1>0, <2>1, <2>2
<1>3. TruncDiv(t, p) = s + 1
  <2>1. (p * ((-s) - 1) + (p - u)) \div p = (-s) - 1  BY <1>0, <1>1, DivUnique
  <2>2. -t = p * ((-s) - 1) + (p - u)  BY <1>0
  <2>3. TruncDiv(t, p) = -((-t) \div p)  BY <1>2 DEF TruncDiv
  <2> QED  BY <2>1, <2>2, <2>3
<1>4. t - p * (s + 1) = u - p  BY <1>0
<1>5. GRN_TIME_UNPACK(t).usec = t - p * TruncDiv(t, p)
  BY DEF GRN_TIME_UNPACK, TruncMod, p
<1>6. GRN_TIME_PACK(s, u) = t  BY DEF GRN_TIME_PACK, p
<1> HIDE DEF t
<1> QED  BY <1>0, <1>3, <1>4, <1>5, <1>6

\* A broken-down time with its fields in their ranges.
IsTm(tm) == tm \in [year : Int, mon : 0 .. 11, mday : 1 .. 30, hour : 0 .. 23,
                    sec : 0 .. SecPerHour - 1]

\* The days in a number of hours, by the length of a day.
LEMMA DivDiv24 ==
    ASSUME NEW v \in Int, NEW p \in Nat \ {0}
    PROVE  (v \div p) \div 24 = v \div (24 * p)
<1>1. PICK c \in Nat \ {0} : c = 24  OBVIOUS
<1>2. (v \div p) \div c = v \div (c * p)  BY DivDiv
<1> QED  BY <1>1, <1>2

\* The seconds of a clock time by its day and its hour.
LEMMA GmtimeParts ==
    ASSUME NEW d \in Int, NEW h \in 0 .. 23, NEW r \in 0 .. SecPerHour - 1
    PROVE  LET s == (d * SecPerDay + h * SecPerHour) + r
           IN  /\ s \in Int
               /\ s \div SecPerDay = d
               /\ s \div SecPerHour = 24 * d + h
               /\ s % SecPerHour = r
<1> DEFINE p == SecPerHour  s == (d * SecPerDay + h * SecPerHour) + r
<1>0. p \in Nat \ {0} /\ SecPerDay = 24 * p /\ r \in 0 .. p - 1 /\ 24 * d + h \in Int
  BY ClockFacts DEF SecPerDay
<1>1. s = p * (24 * d + h) + r
  <2> HIDE DEF p
  <2>1. s = (d * (24 * p) + h * p) + r  BY <1>0 DEF p
  <2>2. d * (24 * p) = p * (24 * d)  BY <1>0
  <2> QED  BY <1>0, <2>1, <2>2
<1> HIDE DEF p, s
<1>2. s \div p = 24 * d + h /\ s % p = r  BY <1>0, <1>1, DivUnique
<1>3. s \in Int  BY <1>0, <1>1
<1>4. s \div SecPerDay = d
  <2>1. s \div (24 * p) = (s \div p) \div 24  BY <1>0, <1>3, DivDiv24
  <2>2. (24 * d + h) \div 24 = d  OBVIOUS
  <2> QED  BY <1>0, <1>2, <2>1, <2>2
<1> QED  BY <1>2, <1>3, <1>4 DEF p, s

\* The same by its year, month and day.
LEMMA GmtimeOf ==
    ASSUME NEW y \in Int, NEW m \in 0 .. 11, NEW e \in 1 .. 30, NEW h \in 0 .. 23,
           NEW r \in 0 .. SecPerHour - 1
    PROVE  /\ Clock(Tm(y, m, e, h, r)) \in Int
           /\ gmtime(Clock(Tm(y, m, e, h, r))) = Tm(y, m, e, h, r)
<1> DEFINE z == y - 70  d == (z * 12 + m) * 30 + e - 1
           s == d * SecPerDay + h * SecPerHour + r
<1>1. z \in Int  OBVIOUS
<1>2. Clock(Tm(y, m, e, h, r)) = s
  <2>1. y + TM_YEAR_BASE - 1970 = z  BY DEF TM_YEAR_BASE
  <2> HIDE DEF z
  <2> QED  BY <2>1 DEF Clock, Tm
<1>3. y = z + 70 /\ 1970 + z - TM_YEAR_BASE = y  BY DEF TM_YEAR_BASE
<1> HIDE DEF z
<1>4. d \in Int  BY <1>1
<1>5. d \div 360 = z /\ (d % 360) \div 30 = m /\ (d % 30) + 1 = e  BY <1>1
<1> HIDE DEF d
<1>6. /\ s \in Int /\ s \div SecPerDay = d /\ s \div SecPerHour = 24 * d + h
      /\ s % SecPerHour = r
  BY <1>4, GmtimeParts
<1>7. (24 * d + h) % 24 = h  BY <1>4
<1> HIDE DEF s
<1>8. gmtime(s) = Tm(y, m, e, h, r)  BY <1>3, <1>5, <1>6, <1>7 DEF gmtime
<1> QED  BY <1>2, <1>6, <1>8

\* gmtime() gives back the broken-down time of its seconds.
LEMMA GmtimeClock ==
    ASSUME NEW tm, IsTm(tm)
    PROVE  Clock(tm) \in Int /\ gmtime(Clock(tm)) = tm
<1>1. /\ tm.year \in Int /\ tm.mon \in 0 .. 11 /\ tm.mday \in 1 .. 30 /\ tm.hour \in 0 .. 23
      /\ tm.sec \in 0 .. SecPerHour - 1
      /\ tm = Tm(tm.year, tm.mon, tm.mday, tm.hour, tm.sec)
  BY DEF IsTm, Tm
<1> DEFINE u == Tm(tm.year, tm.mon, tm.mday, tm.hour, tm.sec)
<1>2. Clock(u) \in Int /\ gmtime(Clock(u)) = u  BY <1>1, GmtimeOf
<1>3. tm = u  BY <1>1
<1> HIDE DEF u
<1> QED  BY <1>2, <1>3

\* gmtime() yields a broken-down time with those seconds.
LEMMA ClockGmtime ==
    ASSUME NEW s \in Int
    PROVE  IsTm(gmtime(s)) /\ Clock(gmtime(s)) = s
<1> DEFINE p == SecPerHour  q == s \div p  r == s % p  d == q \div 24  h == q % 24
<1>0. p \in Nat \ {0} /\ SecPerDay = 24 * p  BY ClockFacts DEF SecPerDay
<1>1. q \in Int /\ r \in 0 .. p - 1 /\ s = p * q + r
  <2> HIDE DEF p
  <2> QED  BY <1>0, DivMod
<1>2. s \div SecPerDay = d
  <2> HIDE DEF p
  <2>1. s \div (24 * p) = (s \div p) \div 24  BY <1>0, DivDiv24
  <2> QED  BY <1>0, <2>1
<1>3. gmtime(s) = Tm(1970 + d \div 360 - TM_YEAR_BASE, (d % 360) \div 30, (d % 30) + 1, h, r)
  BY <1>2 DEF gmtime
<1> HIDE DEF q, r, p
<1>4. d \in Int /\ h \in 0 .. 23 /\ q = 24 * d + h  BY <1>1
<1> HIDE DEF d, h
<1> DEFINE y == d \div 360  m == (d % 360) \div 30  e == (d % 30) + 1
<1>5. y \in Int /\ m \in 0 .. 11 /\ e \in 1 .. 30 /\ ((y * 12 + m) * 30 + e) - 1 = d  BY <1>4
<1> HIDE DEF y, m, e
<1>6. gmtime(s) = Tm(y + 70, m, e, h, r)
  <2>1. 1970 + y - TM_YEAR_BASE = y + 70  BY <1>5 DEF TM_YEAR_BASE
  <2> QED  BY <1>3, <2>1 DEF y, m, e
<1>7. IsTm(Tm(y + 70, m, e, h, r))  BY <1>1, <1>4, <1>5 DEF IsTm, Tm, p
<1>8. Clock(Tm(y + 70, m, e, h, r)) = d * SecPerDay + h * SecPerHour + r
  <2>1. (y + 70) + TM_YEAR_BASE - 1970 = y  BY <1>5 DEF TM_YEAR_BASE
  <2>2. Clock(Tm(y + 70, m, e, h, r)) =
          ((((y + 70) + TM_YEAR_BASE - 1970) * 12 + m) * 30 + e - 1) * SecPerDay + h * SecPerHour + r
    BY DEF Clock, Tm
  <2> QED  BY <1>5, <2>1, <2>2
<1>9. d * SecPerDay + h * SecPerHour + r = s
  <2>1. p * (24 * d + h) = d * (24 * p) + h * p  BY <1>0, <1>4
  <2> QED  BY <1>0, <1>1, <1>4, <2>1 DEF p
<1> QED  BY <1>6, <1>7, <1>8, <1>9

\* The time zones of the server.
IsZone(z) == z \in [offset : -12 .. 14, start : Int, end : Int, early : BOOLEAN]

\* mktime() finds one of the readings of a clock time that is not skipped.
LEMMA MktimeReads ==
    ASSUME NEW z, IsZone(z), NEW tm, ~InGap(z, Clock(tm))
    PROVE  /\ LocalClock(z, mktime(z, tm)) = Clock(tm)
           /\ \E k \in -12 .. 15 : mktime(z, tm) = Clock(tm) - k * SecPerHour
<1> DEFINE c == Clock(tm)  R == Readings(z, c)
           first == c - (z.offset + 1) * SecPerHour
           last == c - z.offset * SecPerHour
<1>1. R # {} /\ R \subseteq {first, last} /\ \A s \in R : LocalClock(z, s) = c
  BY DEF InGap, Readings
<1>2. mktime(z, tm) = CASE R = {} \/ R = {first, last} -> IF z.early THEN first ELSE last
                        [] OTHER -> CHOOSE s \in R : TRUE
  BY DEF mktime
<1> HIDE DEF R, first, last, c
<1>3. mktime(z, tm) \in R
  <2>1. CASE R = {first, last}
    <3>1. mktime(z, tm) = IF z.early THEN first ELSE last  BY <1>2, <2>1
    <3> QED  BY <2>1, <3>1
  <2>2. CASE R # {first, last}
    <3>1. mktime(z, tm) = CHOOSE s \in R : TRUE  BY <1>1, <1>2, <2>2
    <3> QED  BY <1>1, <3>1
  <2> QED  BY <2>1, <2>2
<1>4. LocalClock(z, mktime(z, tm)) = c  BY <1>1, <1>3
<1>5. z.offset \in -12 .. 15 /\ z.offset + 1 \in -12 .. 15  BY DEF IsZone
<1>6. mktime(z, tm) = first \/ mktime(z, tm) = last  BY <1>1, <1>3
<1>7. \E k \in -12 .. 15 : mktime(z, tm) = c - k * SecPerHour
  BY <1>5, <1>6 DEF first, last
<1> QED  BY <1>4, <1>7 DEF c

\* tm_to_time_gm() undoes the local time: it gives the seconds of the clock time.
LEMMA TmToTimeGm ==
    ASSUME NEW z, IsZone(z), NEW tm, IsTm(tm), ~InGap(z, Clock(tm))
    PROVE  tm_to_time_gm(z, tm) = Clock(tm)
<1> DEFINE c == Clock(tm)  s == mktime(z, tm)  g == gmtime(s)  p == SecPerHour
<1>1. c \in Int /\ gmtime(c) = tm  BY GmtimeClock
<1>2. PICK k \in -12 .. 15 : s = c - k * p  BY MktimeReads
<1>3. LocalClock(z, s) = c  BY MktimeReads
<1>4. p \in Nat \ {0}  BY ClockFacts
<1>5. s \in Int
  <2> HIDE DEF s, c
  <2> QED  BY <1>1, <1>2, <1>4
<1>6. IsTm(g) /\ Clock(g) = s
  <2> HIDE DEF s
  <2> QED  BY <1>5, ClockGmtime
<1>7. tm_to_time_gm(z, tm) = s + DayDifference(tm, g) * SecPerDay + (tm.hour - g.hour) * p
                               + (tm.sec - g.sec)
  <2>1. tm_to_time_gm(z, tm) =
          s + DayDifference(gmtime(LocalClock(z, s)), g) * SecPerDay
            + (gmtime(LocalClock(z, s)).hour - g.hour) * p
            + (gmtime(LocalClock(z, s)).sec - g.sec)
    BY DEF tm_to_time_gm
  <2> HIDE DEF s, g, c
  <2> QED  BY <1>1, <1>3, <2>1
<1> HIDE DEF s, g
<1> DEFINE D(u) == ((u.year - 70) * 12 + u.mon) * 30 + u.mday - 1
<1>8. /\ tm.year \in Int /\ tm.mon \in 0 .. 11 /\ tm.mday \in 1 .. 30
      /\ tm.hour \in 0 .. 23 /\ tm.sec \in 0 .. p - 1
  BY DEF IsTm
<1>9. /\ g.year \in Int /\ g.mon \in 0 .. 11 /\ g.mday \in 1 .. 30
      /\ g.hour \in 0 .. 23 /\ g.sec \in 0 .. p - 1
  BY SMTT(30), <1>6 DEF IsTm
<1>10. D(tm) \in Int /\ D(g) \in Int  BY SMTT(30), <1>8, <1>9
<1>11. c = D(tm) * (24 * p) + tm.hour * p + tm.sec
  <2>1. (tm.year + TM_YEAR_BASE - 1970) = tm.year - 70  BY <1>8 DEF TM_YEAR_BASE
  <2> QED  BY <2>1 DEF Clock, SecPerDay
<1>12. s = D(g) * (24 * p) + g.hour * p + g.sec
  <2>1. (g.year + TM_YEAR_BASE - 1970) = g.year - 70  BY <1>9 DEF TM_YEAR_BASE
  <2> QED  BY <1>6, <2>1 DEF Clock, SecPerDay
<1> HIDE DEF c, p
<1> DEFINE a == 24 * D(tm) + tm.hour  b == 24 * D(g) + g.hour
<1>13. c = p * a + tm.sec /\ s = p * b + g.sec /\ a \in Int /\ b \in Int
  <2> HIDE DEF D
  <2>1. D(tm) * (24 * p) = p * (24 * D(tm)) /\ D(g) * (24 * p) = p * (24 * D(g))  BY <1>4, <1>10
  <2> QED  BY <1>4, <1>8, <1>9, <1>10, <1>11, <1>12, <2>1
<1>14. tm.sec = g.sec /\ a = b + k
  <2> HIDE DEF a, b
  <2>1. c = p * (b + k) + g.sec  BY <1>2, <1>4, <1>9, <1>13
  <2>2. c \div p = a /\ c % p = tm.sec  BY <1>4, <1>8, <1>13, DivUnique
  <2>3. b + k \in Int  BY <1>13
  <2>4. c \div p = b + k /\ c % p = g.sec  BY <1>4, <1>9, <2>1, <2>3, DivUnique
  <2> QED  BY <2>2, <2>4
<1>15. DayDifference(tm, g) = D(tm) - D(g)
  <2>1. D(tm) - D(g) \in -1 .. 1
    <3> HIDE DEF D
    <3> QED  BY <1>8, <1>9, <1>10, <1>14
  <2> DEFINE x == (tm.year - 70) * 12 + tm.mon  y == (g.year - 70) * 12 + g.mon
  <2>2. x \in Int /\ y \in Int /\ D(tm) = x * 30 + tm.mday - 1 /\ D(g) = y * 30 + g.mday - 1
    BY <1>8, <1>9
  <2> HIDE DEF x, y
  <2> DEFINE i == tm.mday  j == g.mday  e == D(tm) - D(g)
  <2>3. i \in 1 .. 30 /\ j \in 1 .. 30 /\ e \in -1 .. 1 /\ e = 30 * (x - y) + i - j
    <3> DEFINE v == D(tm)  w == D(g)
    <3>1. i \in 1 .. 30 /\ j \in 1 .. 30 /\ v \in Int /\ w \in Int /\ v - w \in -1 .. 1
      BY <1>8, <1>9, <1>10, <2>1
    <3>2. v = x * 30 + i - 1 /\ w = y * 30 + j - 1  BY <2>2
    <3> HIDE DEF i, j, v, w
    <3>3. v - w = 30 * (x - y) + i - j  BY <2>2, <3>1, <3>2
    <3> QED  BY <3>1, <3>3 DEF v, w
  <2>4. DayDifference(tm, g) = CASE i > 25 /\ j = 1 -> -1
                                 [] i = 1 /\ j > 25 -> 1
                                 [] OTHER -> i - j
    BY DEF DayDifference
  <2> HIDE DEF i, j, e
  <2>5. x - y \in -1 .. 1  BY <2>2, <2>3
  <2>6. CASE i > 25 /\ j = 1
    <3>1. e = -1  BY <2>2, <2>3, <2>5, <2>6
    <3>2. ~(i = 1 /\ j > 25)  BY <2>3, <2>6
    <3> QED  BY <2>4, <2>6, <3>1, <3>2 DEF e
  <2>7. CASE i = 1 /\ j > 25
    <3>1. e = 1  BY <2>2, <2>3, <2>5, <2>7
    <3>2. ~(i > 25 /\ j = 1)  BY <2>3, <2>7
    <3> QED  BY <2>4, <2>7, <3>1, <3>2 DEF e
  <2>8. CASE ~(i > 25 /\ j = 1) /\ ~(i = 1 /\ j > 25)
    <3>1. e = i - j  BY <2>2, <2>3, <2>5, <2>8
    <3> QED  BY <2>4, <2>8, <3>1 DEF e
  <2> QED  BY <2>6, <2>7, <2>8
<1>16. tm_to_time_gm(z, tm) = c
  <2> HIDE DEF D
  <2>1. tm_to_time_gm(z, tm) = s + (D(tm) - D(g)) * (24 * p) + (tm.hour - g.hour) * p
    <3>1. tm_to_time_gm(z, tm) = s + (D(tm) - D(g)) * (24 * p) + (tm.hour - g.hour) * p
                                   + (tm.sec - g.sec)
      BY <1>7, <1>15 DEF SecPerDay, p
    <3> DEFINE X == (D(tm) - D(g)) * (24 * p)  Y == (tm.hour - g.hour) * p
    <3>2. X \in Int /\ Y \in Int  BY <1>4, <1>8, <1>9, <1>10
    <3> HIDE DEF X, Y
    <3>3. tm.sec - g.sec = 0  BY <1>8, <1>14
    <3>4. tm_to_time_gm(z, tm) = s + X + Y + 0  BY <3>1, <3>3 DEF X, Y
    <3>5. tm_to_time_gm(z, tm) = s + X + Y  BY <1>5, <3>2, <3>4
    <3> QED  BY <3>5 DEF X, Y
  <2>2. (D(tm) - D(g)) * (24 * p) = D(tm) * (24 * p) - D(g) * (24 * p)  BY <1>4, <1>10
  <2>3. (tm.hour - g.hour) * p = tm.hour * p - g.hour * p  BY <1>4, <1>8, <1>9
  <2>4. D(tm) * (24 * p) \in Int /\ D(g) * (24 * p) \in Int /\ tm.hour * p \in Int /\ g.hour * p \in Int
    BY <1>4, <1>8, <1>9, <1>10
  <2> DEFINE A == D(tm) * (24 * p)  B == D(g) * (24 * p)  E == tm.hour * p  F == g.hour * p
  <2>5. tm_to_time_gm(z, tm) = s + (A - B) + (E - F)  BY <2>1, <2>2, <2>3
  <2>6. c = A + E + tm.sec /\ s = B + F + g.sec  BY <1>11, <1>12
  <2>7. A \in Int /\ B \in Int /\ E \in Int /\ F \in Int  BY <2>4
  <2> HIDE DEF A, B, E, F
  <2> QED  BY <1>1, <1>5, <1>8, <1>9, <1>14, <2>5, <2>6, <2>7
<1> QED  BY <1>16 DEF c

\* A clock time that is skipped becomes some second all the same.
LEMMA TmToTimeInt ==
    ASSUME NEW z, IsZone(z), NEW tm, IsTm(tm)
    PROVE  tm_to_time_gm(z, tm) \in Int
<1> DEFINE c == Clock(tm)  s == mktime(z, tm)  l == LocalClock(z, s)  t == gmtime(l)  g == gmtime(s)
           R == Readings(z, c)
           first == c - (z.offset + 1) * SecPerHour
           last == c - z.offset * SecPerHour
<1>1. c \in Int  BY GmtimeClock
<1>2. SecPerHour \in Int /\ SecPerDay \in Int  BY ClockFacts DEF SecPerDay
<1>3. z.offset \in Int  BY DEF IsZone
<1>4. first \in Int /\ last \in Int
  <2> HIDE DEF c
  <2> QED  BY <1>1, <1>2, <1>3
<1>5. R \subseteq {first, last}  BY DEF Readings
<1>6. s = CASE R = {} \/ R = {first, last} -> IF z.early THEN first ELSE last
            [] OTHER -> CHOOSE x \in R : TRUE
  BY DEF mktime
<1>7. tm_to_time_gm(z, tm) = s + DayDifference(t, g) * SecPerDay + (t.hour - g.hour) * SecPerHour
                               + (t.sec - g.sec)
  BY DEF tm_to_time_gm
<1> HIDE DEF first, last, R, s
<1>8. s \in Int
  <2>1. CASE R = {} \/ R = {first, last}  BY <1>4, <1>6, <2>1
  <2>2. CASE ~(R = {} \/ R = {first, last})
    <3>1. s = CHOOSE x \in R : TRUE  BY <1>6, <2>2
    <3>2. s \in R  BY <2>2, <3>1
    <3> QED  BY <1>4, <1>5, <3>2
  <2> QED  BY <2>1, <2>2
<1>9. l \in Int
  <2>1. (z.offset + (IF z.start <= s /\ s < z.end THEN 1 ELSE 0)) * SecPerHour \in Int  BY <1>2, <1>3
  <2> QED  BY <1>8, <2>1 DEF LocalClock
<1> HIDE DEF l
<1>10. IsTm(t) /\ IsTm(g)  BY <1>8, <1>9, ClockGmtime
<1> HIDE DEF t, g
<1>11. /\ t.mday \in Int /\ t.hour \in Int /\ t.sec \in Int
       /\ g.mday \in Int /\ g.hour \in Int /\ g.sec \in Int
  BY <1>10, ClockFacts DEF IsTm
<1>12. DayDifference(t, g) \in Int
  <2>1. CASE t.mday > 25 /\ g.mday = 1  BY <1>11, <2>1 DEF DayDifference
  <2>2. CASE t.mday = 1 /\ g.mday > 25  BY <1>11, <2>2 DEF DayDifference
  <2>3. CASE ~(t.mday > 25 /\ g.mday = 1) /\ ~(t.mday = 1 /\ g.mday > 25)
    BY <1>11, <2>3 DEF DayDifference
  <2> QED  BY <2>1, <2>2, <2>3
<1>13. DayDifference(t, g) * SecPerDay \in Int /\ (t.hour - g.hour) * SecPerHour \in Int
  BY <1>2, <1>11, <1>12
<1> QED  BY <1>7, <1>8, <1>11, <1>13
=============================================================================
