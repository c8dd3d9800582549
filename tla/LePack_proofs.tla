--------------------------- MODULE LePack_proofs ----------------------------
(***************************************************************************)
(* LePack for every width of a byte, of size_t and of the buffer, for all  *)
(* the values of every type, for raw data of any size, and for any number  *)
(* of packs.                                                               *)
(***************************************************************************)
EXTENDS LePack, TLAPS

(* Division by a positive number, of negative numbers too. *)
LEMMA Division ==
  ASSUME NEW v \in Int, NEW n \in Nat, n > 0
  PROVE  /\ v \div n \in Int /\ v % n \in 0 .. n - 1
         /\ v = n * (v \div n) + (v % n)
<1>1. v \div n \in Int
  OBVIOUS
<1>2. v % n \in 0 .. n - 1
  OBVIOUS
<1>3. v - (v % n) = (v \div n) * n
  OBVIOUS
<1>4. v = n * (v \div n) + (v % n)
  BY <1>1, <1>2, <1>3
<1> QED
  BY <1>1, <1>2, <1>4

(* Multiples of n differ by at least n. *)
LEMMA Apart ==
  ASSUME NEW a \in Int, NEW b \in Int, NEW n \in Nat, a < b
  PROVE  n * a + n <= n * b
<1>1. n * ((b - a) - 1) >= 0
  OBVIOUS
<1>2. n * ((b - a) - 1) = n * b - n * a - n
  OBVIOUS
<1> QED
  BY <1>1, <1>2

(* Quotient and remainder are unique. *)
LEMMA Quotient ==
  ASSUME NEW v \in Int, NEW n \in Nat, n > 0, NEW q \in Int, NEW r \in 0 .. n - 1,
         v = n * q + r
  PROVE  v \div n = q
<1> DEFINE p == v \div n
           s == v % n
<1>1. p \in Int /\ s \in 0 .. n - 1 /\ v = n * p + s
  BY Division
<1> HIDE DEF p, s
<1>2. ASSUME p < q PROVE FALSE
  <2>1. n * p + n <= n * q
    BY <1>1, <1>2, Apart
  <2> QED
    BY <1>1, <2>1
<1>3. ASSUME q < p PROVE FALSE
  <2>1. n * q + n <= n * p
    BY <1>1, <1>3, Apart
  <2> QED
    BY <1>1, <2>1
<1>4. p = q
  BY <1>1, <1>2, <1>3
<1> QED
  BY <1>4 DEF p

(* The digit at place p of a number, in base b: the multiple of p that it  *)
(* stands for is what the next place leaves.                               *)
LEMMA Digit ==
  ASSUME NEW v \in Int, NEW p \in Nat, p > 0, NEW b \in Nat, b > 0
  PROVE  ((v \div p) % b) * p = p * (v \div p) - (p * b) * (v \div (p * b))
<1> DEFINE a == v \div p
           r == v % p
           c == a \div b
           d == a % b
<1>1. a \in Int /\ r \in 0 .. p - 1 /\ v = p * a + r
  BY Division
<1> HIDE DEF a, r
<1>2. c \in Int /\ d \in 0 .. b - 1 /\ a = b * c + d
  BY <1>1, Division
<1> HIDE DEF c, d
<1>3. p * b \in Nat /\ p * b > 0
  OBVIOUS
<1>4. p * a = (p * b) * c + p * d
  BY <1>1, <1>2
<1>5. p * d + r \in 0 .. p * b - 1
  <2>1. p * d + p <= p * b
    BY <1>2, Apart
  <2>2. p * d \in Nat
    BY <1>2
  <2> QED
    BY <1>1, <1>3, <2>1, <2>2
<1>6. v = (p * b) * c + (p * d + r)
  BY <1>1, <1>2, <1>3, <1>4, <1>5
<1>7. v \div (p * b) = c
  BY <1>2, <1>3, <1>5, <1>6, Quotient
<1>8. d * p = p * a - (p * b) * c
  BY <1>1, <1>2, <1>4
<1> QED
  BY <1>7, <1>8 DEF a, d

-----------------------------------------------------------------------------
LEMMA Constants ==
  /\ ByteMod \in Nat /\ ByteMod > 1 /\ SizeMod \in Nat /\ SizeMod > 8
  /\ DataLen \in Nat /\ DataLen < SizeMod /\ MaxPacks \in Nat
<1>1. /\ ByteMod \in Nat /\ ByteMod > 0 /\ ByteMod % 2 = 0 /\ SizeMod \in Nat /\ SizeMod > 8
      /\ DataLen \in 0 .. SizeMod - 1 /\ MaxPacks \in Nat
  BY LePackAssumption
<1> QED
  BY <1>1

(* Each place is the one below it times the number of values of a byte. *)
LEMMA Places ==
  /\ Place(0) = 1
  /\ Place(1) = Place(0) * ByteMod /\ Place(2) = Place(1) * ByteMod
  /\ Place(3) = Place(2) * ByteMod /\ Place(4) = Place(3) * ByteMod
  /\ Place(5) = Place(4) * ByteMod /\ Place(6) = Place(5) * ByteMod
  /\ Place(7) = Place(6) * ByteMod /\ Place(8) = Place(7) * ByteMod
<1> DEFINE b == ByteMod
           c == b * b
           d == c * c
<1>0. b \in Nat
  BY Constants
<1>1. /\ Place(0) = 1 /\ Place(1) = b /\ Place(2) = c /\ Place(3) = c * b
      /\ Place(4) = d /\ Place(5) = d * b /\ Place(6) = d * c
      /\ Place(7) = d * c * b /\ Place(8) = d * d
  BY DEF Place
<1>2. c \in Nat /\ d \in Nat
  BY <1>0
<1>3. 1 * b = b /\ d = c * b * b /\ d * c = d * b * b /\ d * d = d * c * b * b
  BY <1>0, <1>2
<1> HIDE DEF c, d
<1> QED
  BY <1>1, <1>3 DEF c

(* Places are positive. *)
LEMMA PlacePositive ==
  ASSUME NEW k \in 0 .. 8
  PROVE  Place(k) \in Nat /\ Place(k) > 0
<1>1. ASSUME NEW p \in Nat, p > 0 PROVE p * ByteMod \in Nat /\ p * ByteMod > 0
  BY <1>1, Constants
<1>2. Place(0) \in Nat /\ Place(0) > 0
  BY Places
<1>3. Place(1) \in Nat /\ Place(1) > 0
  BY <1>1, <1>2, Places
<1>4. Place(2) \in Nat /\ Place(2) > 0
  BY <1>1, <1>3, Places
<1>5. Place(3) \in Nat /\ Place(3) > 0
  BY <1>1, <1>4, Places
<1>6. Place(4) \in Nat /\ Place(4) > 0
  BY <1>1, <1>5, Places
<1>7. Place(5) \in Nat /\ Place(5) > 0
  BY <1>1, <1>6, Places
<1>8. Place(6) \in Nat /\ Place(6) > 0
  BY <1>1, <1>7, Places
<1>9. Place(7) \in Nat /\ Place(7) > 0
  BY <1>1, <1>8, Places
<1>10. Place(8) \in Nat /\ Place(8) > 0
  BY <1>1, <1>9, Places
<1> QED
  BY <1>2, <1>3, <1>4, <1>5, <1>6, <1>7, <1>8, <1>9, <1>10

(* What is left of v above place k, as a multiple of it. *)
Above(v, k) == Place(k) * (v \div Place(k))

(* A byte of v is a byte, and stands for what is left above its place but  *)
(* not above the next.                                                     *)
LEMMA ByteTerm ==
  ASSUME NEW v \in Int, NEW k \in 0 .. 7, Place(k + 1) = Place(k) * ByteMod
  PROVE  /\ ByteOf(v, k) \in 0 .. ByteMod - 1
         /\ Above(v, k) \in Int /\ Above(v, k + 1) \in Int
         /\ ByteOf(v, k) * Place(k) = Above(v, k) - Above(v, k + 1)
<1>1. /\ Place(k) \in Nat /\ Place(k) > 0
      /\ Place(k + 1) \in Nat /\ Place(k + 1) > 0
  BY PlacePositive
<1>2. v \div Place(k) \in Int /\ v \div Place(k + 1) \in Int
  BY <1>1, Division
<1>3. ByteOf(v, k) \in 0 .. ByteMod - 1
  BY <1>2, Constants, Division DEF ByteOf
<1>4. Above(v, k) \in Int /\ Above(v, k + 1) \in Int
  BY <1>1, <1>2 DEF Above
<1>5. ByteOf(v, k) * Place(k) = Above(v, k) - Above(v, k + 1)
  <2> DEFINE p == Place(k)
  <2>1. p \in Nat /\ p > 0 /\ ByteMod \in Nat /\ ByteMod > 0
    BY <1>1, Constants
  <2> HIDE DEF p
  <2>2. ((v \div p) % ByteMod) * p
          = p * (v \div p) - (p * ByteMod) * (v \div (p * ByteMod))
    BY <2>1, Digit
  <2>3. Place(k + 1) = p * ByteMod
    BY DEF p
  <2>4. ByteOf(v, k) = (v \div p) % ByteMod
    BY DEF p, ByteOf
  <2>5. Above(v, k) = p * (v \div p)
    BY DEF p, Above
  <2>6. Above(v, k + 1) = (p * ByteMod) * (v \div (p * ByteMod))
    BY <2>3 DEF Above
  <2>7. ByteOf(v, k) * p = Above(v, k) - Above(v, k + 1)
    BY <2>2, <2>4, <2>5, <2>6, Zenon
  <2> QED
    BY <2>7 DEF p
<1> QED
  BY <1>3, <1>4, <1>5

(* The sum of the bytes of v below place n is v without what is above.     *)
LEMMA SumOfBytes ==
  ASSUME NEW v \in Int, NEW n \in {1, 2, 4, 8}, NEW offset \in Nat,
         \A k \in 0 .. n - 1 : data[offset + k] = ByteOf(v, k)
  PROVE  Unsigned(offset, n) = v - Above(v, n) /\ Above(v, n) \in Int
<1> DEFINE t(k) == data[offset + k] * Place(k)
           a(k) == Above(v, k)
           s(k) == IF k < n THEN t(k) ELSE 0
<1>1. /\ 0 \in 0 .. n - 1 => t(0) = a(0) - a(1) /\ a(0) \in Int /\ a(1) \in Int
      /\ 1 \in 0 .. n - 1 => t(1) = a(1) - a(2) /\ a(1) \in Int /\ a(2) \in Int
      /\ 2 \in 0 .. n - 1 => t(2) = a(2) - a(3) /\ a(2) \in Int /\ a(3) \in Int
      /\ 3 \in 0 .. n - 1 => t(3) = a(3) - a(4) /\ a(3) \in Int /\ a(4) \in Int
      /\ 4 \in 0 .. n - 1 => t(4) = a(4) - a(5) /\ a(4) \in Int /\ a(5) \in Int
      /\ 5 \in 0 .. n - 1 => t(5) = a(5) - a(6) /\ a(5) \in Int /\ a(6) \in Int
      /\ 6 \in 0 .. n - 1 => t(6) = a(6) - a(7) /\ a(6) \in Int /\ a(7) \in Int
      /\ 7 \in 0 .. n - 1 => t(7) = a(7) - a(8) /\ a(7) \in Int /\ a(8) \in Int
  <2>1. ASSUME NEW k \in 0 .. 7, k \in 0 .. n - 1, Place(k + 1) = Place(k) * ByteMod
        PROVE  t(k) = a(k) - a(k + 1) /\ a(k) \in Int /\ a(k + 1) \in Int
    BY <2>1, ByteTerm
  <2> HIDE DEF t, a
  <2>2. /\ 0 + 1 = 1 /\ 1 + 1 = 2 /\ 2 + 1 = 3 /\ 3 + 1 = 4
        /\ 4 + 1 = 5 /\ 5 + 1 = 6 /\ 6 + 1 = 7 /\ 7 + 1 = 8
    OBVIOUS
  <2> QED
    BY <2>1, <2>2, Places
<1>2. a(0) = v
  BY Places, Division DEF Above
<1>3. Unsigned(offset, n) = s(0) + s(1) + s(2) + s(3) + s(4) + s(5) + s(6) + s(7)
  BY DEF Unsigned
<1> HIDE DEF t, a
<1>4. s(0) + s(1) + s(2) + s(3) + s(4) + s(5) + s(6) + s(7) = v - a(n) /\ a(n) \in Int
  <2>1. CASE n = 1
    BY <1>1, <1>2, <2>1
  <2>2. CASE n = 2
    BY <1>1, <1>2, <2>2
  <2>3. CASE n = 4
    BY <1>1, <1>2, <2>3
  <2>4. CASE n = 8
    BY <1>1, <1>2, <2>4
  <2> QED
    BY <2>1, <2>2, <2>3, <2>4
<1> QED
  BY <1>3, <1>4 DEF a

-----------------------------------------------------------------------------
(* The kinds of types, with their widths. *)
LEMMA TypeKinds ==
  ASSUME NEW t \in Type
  PROVE  /\ t.size \in 0 .. SizeMod - 1
         /\ \/ t.read = "bool" /\ t.size = 1
            \/ t.read = "raw"
            \/ t.read = "unsigned" /\ t.size \in {1, 2, 4, 8}
            \/ t.read = "signed" /\ t.size \in {1, 2, 4, 8}
<1>1. CASE t = TypeOf(1, "bool")
  <2>1. t.read = "bool" /\ t.size = 1
    BY <1>1 DEF TypeOf
  <2> QED
    BY <2>1, Constants
<1>2. CASE \E n \in RawSizes : t = TypeOf(n, "raw")
  <2>1. t.read = "raw" /\ t.size \in RawSizes
    BY <1>2 DEF TypeOf
  <2> QED
    BY <2>1, LePackAssumption
<1>3. CASE \E n \in {1, 2, 4, 8}, r \in {"unsigned", "signed"} : t = TypeOf(n, r)
  <2>1. t.read \in {"unsigned", "signed"} /\ t.size \in {1, 2, 4, 8}
    BY <1>3 DEF TypeOf
  <2> QED
    BY <2>1, Constants
<1> QED
  BY <1>1, <1>2, <1>3 DEF Type

(* The bytes stored for a value are bytes. *)
LEMMA BytesType ==
  ASSUME NEW t \in Type, NEW v \in ValuesOf(t)
  PROVE  Bytes(t, v) \in [0 .. t.size - 1 -> 0 .. ByteMod - 1]
<1>1. ASSUME NEW x \in Int, NEW n \in {1, 2, 4, 8}, NEW k \in 0 .. n - 1
      PROVE  ByteOf(x, k) \in 0 .. ByteMod - 1
  <2>1. k \in 0 .. 8
    OBVIOUS
  <2>2. x \div Place(k) \in Int
    BY <2>1, PlacePositive, Division
  <2> QED
    BY <2>2, Constants, Division DEF ByteOf
<1>2. CASE t.read = "bool" /\ t.size = 1
  <2>1. Normalised(v) \in Int
    BY DEF Normalised
  <2>2. ASSUME NEW k \in 0 .. t.size - 1 PROVE ByteOf(Normalised(v), k) \in 0 .. ByteMod - 1
    BY <1>1, <1>2, <2>1
  <2>3. Bytes(t, v) = [k \in 0 .. t.size - 1 |-> ByteOf(Normalised(v), k)]
    BY <1>2 DEF Bytes
  <2> QED
    BY <2>2, <2>3
<1>3. CASE t.read = "raw"
  <2>1. v \in [0 .. t.size - 1 -> 0 .. ByteMod - 1]
    BY <1>3 DEF ValuesOf
  <2>2. Bytes(t, v) = [k \in 0 .. t.size - 1 |-> v[k]]
    BY <1>3 DEF Bytes
  <2> QED
    BY <2>1, <2>2
<1>4. CASE t.read \in {"unsigned", "signed"} /\ t.size \in {1, 2, 4, 8}
  <2>1. v \in Int
    <3>1. Place(t.size) \in Nat
      BY <1>4, PlacePositive
    <3>2. Place(t.size) \div 2 \in Int
      BY <3>1
    <3> QED
      BY <1>4, <3>1, <3>2 DEF ValuesOf
  <2>2. ASSUME NEW k \in 0 .. t.size - 1 PROVE ByteOf(v, k) \in 0 .. ByteMod - 1
    BY <1>1, <1>4, <2>1
  <2>3. Bytes(t, v) = [k \in 0 .. t.size - 1 |-> ByteOf(v, k)]
    BY <1>4 DEF Bytes
  <2> QED
    BY <2>2, <2>3
<1> QED
  BY <1>2, <1>3, <1>4, TypeKinds

(* A number below place n has nothing above it; a negative one has all     *)
(* bits set there.                                                         *)
LEMMA NothingAbove ==
  ASSUME NEW n \in {1, 2, 4, 8}, NEW v \in Int
  PROVE  /\ v \in 0 .. Place(n) - 1 => Above(v, n) = 0
         /\ v \in 0 - Place(n) .. -1 => Above(v, n) = 0 - Place(n)
<1> DEFINE p == Place(n)
<1>1. p \in Nat /\ p > 0
  BY PlacePositive
<1> HIDE DEF p
<1>2. ASSUME v \in 0 .. p - 1 PROVE p * (v \div p) = 0
  <2>1. v = p * 0 + v
    BY <1>1, <1>2
  <2>2. v \div p = 0
    BY <1>1, <1>2, <2>1, Quotient
  <2> QED
    BY <1>1, <2>2
<1>3. ASSUME v \in 0 - p .. -1 PROVE p * (v \div p) = 0 - p
  <2>1. v = p * (-1) + (v + p) /\ v + p \in 0 .. p - 1
    BY <1>1, <1>3
  <2>2. v \div p = -1
    BY <1>1, <1>3, <2>1, Quotient
  <2> QED
    BY <1>1, <2>2
<1> QED
  BY <1>2, <1>3 DEF p, Above

(* The bytes of a value at an offset are read back as the value. *)
LEMMA ReadBack ==
  ASSUME NEW t \in Type, NEW v \in ValuesOf(t), NEW offset \in Nat,
         \A k \in 0 .. t.size - 1 : data[offset + k] = Bytes(t, v)[k]
  PROVE  le_unpack(t, offset) = v
<1>1. CASE t.read = "bool" /\ t.size = 1
  <2>1. v \in {0, 1} /\ le_unpack(t, offset) = Bool(offset)
    BY <1>1 DEF ValuesOf, le_unpack
  <2>2. Normalised(v) = v
    BY <2>1 DEF Normalised
  <2>3. 0 \in 0 .. t.size - 1 /\ offset + 0 = offset
    BY <1>1
  <2>4. Bytes(t, v)[0] = ByteOf(v, 0)
    BY <1>1, <2>2, <2>3 DEF Bytes
  <2>5. ByteOf(v, 0) = v
    <3>1. v \div Place(0) = v
      BY <2>1, Places
    <3> QED
      BY <2>1, <3>1, Constants DEF ByteOf
  <2>6. data[offset] = v
    BY <2>3, <2>4, <2>5
  <2> QED
    BY <2>1, <2>6 DEF Bool
<1>2. CASE t.read = "raw"
  <2>1. /\ v \in [0 .. t.size - 1 -> 0 .. ByteMod - 1]
        /\ le_unpack(t, offset) = Raw(offset, t.size)
    BY <1>2 DEF ValuesOf, le_unpack
  <2>2. \A k \in 0 .. t.size - 1 : data[offset + k] = v[k]
    BY <1>2 DEF Bytes
  <2> QED
    BY <2>1, <2>2 DEF Raw
<1>3. CASE t.read \in {"unsigned", "signed"} /\ t.size \in {1, 2, 4, 8}
  <2> DEFINE n == t.size
             p == Place(n)
             h == p \div 2
  <2>1. p \in Nat /\ p > 0
    BY <1>3, PlacePositive
  <2> HIDE DEF p
  <2>2. h \in Nat /\ h <= p /\ h <= p - h
    BY <2>1
  <2>3. /\ t.read = "unsigned" => v \in 0 .. p - 1
        /\ t.read = "signed" => v \in 0 - h .. h - 1
    BY DEF ValuesOf, p
  <2> HIDE DEF h
  <2>4. v \in Int
    BY <1>3, <2>1, <2>2, <2>3
  <2>5. \A k \in 0 .. n - 1 : data[offset + k] = ByteOf(v, k)
    BY <1>3 DEF Bytes
  <2>6. Unsigned(offset, n) = v - Above(v, n) /\ Above(v, n) \in Int
    BY <1>3, <2>4, <2>5, SumOfBytes
  <2>7. /\ v \in 0 .. p - 1 => Above(v, n) = 0
        /\ v \in 0 - p .. -1 => Above(v, n) = 0 - p
    BY <1>3, <2>4, NothingAbove DEF p
  <2>8. CASE t.read = "unsigned"
    BY <2>3, <2>4, <2>6, <2>7, <2>8 DEF le_unpack
  <2>9. CASE t.read = "signed"
    <3>1. le_unpack(t, offset) = IF Unsigned(offset, n) < h THEN Unsigned(offset, n)
                                                          ELSE Unsigned(offset, n) - p
      BY <2>9 DEF le_unpack, Signed, p, h
    <3>2. CASE v >= 0
      <4>1. Unsigned(offset, n) = v /\ v < h
        BY <2>1, <2>2, <2>3, <2>4, <2>6, <2>7, <2>9, <3>2
      <4> QED
        BY <3>1, <4>1
    <3>3. CASE v < 0
      <4>1. Unsigned(offset, n) = v + p /\ ~(v + p < h)
        BY <2>1, <2>2, <2>3, <2>4, <2>6, <2>7, <2>9, <3>3
      <4>2. (v + p) - p = v
        BY <2>1, <2>4
      <4> QED
        BY <3>1, <4>1, <4>2
    <3> QED
      BY <2>4, <3>2, <3>3
  <2> QED
    BY <1>3, <2>8, <2>9
<1> QED
  BY <1>1, <1>2, <1>3, TypeKinds

(* The wrapped sum is caught: a field is accepted exactly when it ends     *)
(* inside the buffer.                                                      *)
LEMMA WithinExact ==
  ASSUME NEW offset \in 0 .. SizeMod - 1, NEW n \in 0 .. SizeMod - 1
  PROVE  pack_is_within_buffer(offset, n, DataLen) <=> offset + n <= DataLen
<1>1. CASE offset + n < SizeMod
  <2>1. (offset + n) % SizeMod = offset + n
    BY <1>1, Constants
  <2> QED
    BY <1>1, <2>1, Constants DEF pack_is_within_buffer
<1>2. CASE offset + n >= SizeMod
  <2>1. (offset + n) % SizeMod = (offset + n) - SizeMod
    <3> DEFINE m == SizeMod
    <3>1. m \in Nat /\ m > 0 /\ offset \in 0 .. m - 1 /\ n \in 0 .. m - 1 /\ offset + n >= m
      BY <1>2, Constants
    <3>2. /\ (offset + n) % m \in 0 .. m - 1 /\ (offset + n) \div m \in Int
          /\ offset + n = m * ((offset + n) \div m) + ((offset + n) % m)
      BY <3>1, Division
    <3>3. offset + n = m * 1 + ((offset + n) - m) /\ (offset + n) - m \in 0 .. m - 1
      BY <3>1
    <3>4. (offset + n) \div m = 1
      BY <3>1, <3>3, Quotient
    <3> QED
      BY <3>1, <3>2, <3>4
  <2> QED
    BY <1>2, <2>1, Constants DEF pack_is_within_buffer
<1> QED
  BY <1>1, <1>2, Constants

(* The guard of every function says the same, and refuses empty raw data.  *)
LEMMA AcceptsExact ==
  ASSUME NEW t \in Type, NEW offset \in 0 .. SizeMod - 1
  PROVE  Accepts(t, offset) <=>
           offset + t.size <= DataLen /\ (t.read = "raw" => t.size > 0)
<1>1. t.size \in 0 .. SizeMod - 1
  BY TypeKinds
<1> QED
  BY <1>1, WithinExact DEF Accepts

-----------------------------------------------------------------------------
(* The bytes of every field packed and not overwritten are in the buffer,  *)
(* and no empty field was accepted.                                        *)
Stored ==
  \A f \in fields :
    /\ f.type.read = "raw" => f.type.size > 0
    /\ \A k \in 0 .. f.type.size - 1 : data[f.offset + k] = Bytes(f.type, f.content)[k]

IInv == TypeOK /\ BoundsExact /\ Stored

LEMMA InitIInv == Init => IInv
<1> SUFFICES ASSUME Init PROVE IInv
  OBVIOUS
<1>1. data \in [0 .. DataLen - 1 -> 0 .. ByteMod - 1]
  <2>1. ByteMod - 1 \in 0 .. ByteMod - 1
    BY Constants
  <2> QED
    BY <2>1 DEF Init
<1>2. last \in [type : Type \cup {TypeOf(0, "raw")}, offset : 0 .. SizeMod - 1,
                ret : 0 .. SizeMod - 1]
  BY Constants DEF Init
<1>3. packs \in 0 .. MaxPacks /\ fields = {}
  BY Constants DEF Init
<1>4. last.ret = 0 /\ last.type.size = 0
  BY DEF Init, TypeOf
<1> QED
  BY <1>1, <1>2, <1>3, <1>4 DEF IInv, TypeOK, BoundsExact, Stored

(* A pack of any value of any type at any offset. *)
LEMMA PackIInv ==
  ASSUME IInv, NEW t \in Type, NEW offset \in 0 .. SizeMod - 1, NEW v \in ValuesOf(t),
         le_pack(t, offset, v)
  PROVE  IInv'
<1>1. /\ packs' \in 0 .. MaxPacks
      /\ last' = [type |-> t, offset |-> offset,
                  ret |-> IF Accepts(t, offset) THEN t.size ELSE 0]
  BY Constants DEF le_pack, IInv, TypeOK
<1>2. t.size \in 0 .. SizeMod - 1 /\ 0 \in 0 .. SizeMod - 1
  BY TypeKinds, Constants
<1>3. last' \in [type : Type \cup {TypeOf(0, "raw")}, offset : 0 .. SizeMod - 1,
                 ret : 0 .. SizeMod - 1]
  BY <1>1, <1>2
<1>4. BoundsExact'
  <2>1. /\ last'.ret = IF Accepts(t, offset) THEN t.size ELSE 0
        /\ last'.offset = offset /\ last'.type = t
    BY <1>1
  <2>2. CASE Accepts(t, offset)
    BY <2>1, <2>2, AcceptsExact DEF BoundsExact
  <2>3. CASE ~Accepts(t, offset)
    <3>1. offset + t.size <= DataLen => t.size = 0
      BY <1>2, <2>3, AcceptsExact
    <3> QED
      BY <2>1, <2>3, <3>1 DEF BoundsExact
  <2> QED
    BY <2>2, <2>3
<1>5. CASE ~Accepts(t, offset)
  <2>1. data' = data /\ fields' = fields
    BY <1>5 DEF le_pack
  <2>2. TypeOK'
    BY <1>1, <1>3, <2>1 DEF IInv, TypeOK
  <2>3. Stored'
    BY <2>1 DEF IInv, Stored
  <2> QED
    BY <1>4, <2>2, <2>3 DEF IInv
<1>6. CASE Accepts(t, offset)
  <2> DEFINE n == t.size
             b == Bytes(t, v)
             g == [type |-> t, offset |-> offset, content |-> v]
  <2>1. /\ offset + n <= DataLen /\ (t.read = "raw" => n > 0)
        /\ offset \in Nat /\ n \in Nat /\ DataLen \in Nat
    BY <1>2, <1>6, AcceptsExact, Constants
  <2>2. /\ data \in [0 .. DataLen - 1 -> 0 .. ByteMod - 1]
        /\ b \in [0 .. n - 1 -> 0 .. ByteMod - 1]
    BY BytesType DEF IInv, TypeOK
  <2>3. /\ data' = [i \in 0 .. DataLen - 1 |-> IF i \in offset .. offset + n - 1
                                                THEN b[i - offset] ELSE data[i]]
        /\ fields' = {f \in fields : ~Overlaps(f, t, offset)} \cup {g}
    BY <1>6, <2>2 DEF le_pack, Written
  <2>4. g.type = t /\ g.offset = offset /\ g.content = v
    OBVIOUS
  <2> HIDE DEF n, b, g
  <2>5. data' \in [0 .. DataLen - 1 -> 0 .. ByteMod - 1]
    <3>1. ASSUME NEW i \in 0 .. DataLen - 1, i \in offset .. offset + n - 1
          PROVE  b[i - offset] \in 0 .. ByteMod - 1
      BY <2>1, <2>2, <3>1
    <3> QED
      BY <2>2, <2>3, <3>1
  <2>6. ASSUME NEW f \in fields'
        PROVE  /\ f.type \in Type /\ f.content \in ValuesOf(f.type)
               /\ f.offset \in 0 .. DataLen - f.type.size
               /\ f.type.read = "raw" => f.type.size > 0
               /\ \A k \in 0 .. f.type.size - 1 :
                     data'[f.offset + k] = Bytes(f.type, f.content)[k]
    <3>1. CASE f = g
      <4>1. offset \in 0 .. DataLen - n
        BY <2>1
      <4>2. ASSUME NEW k \in 0 .. n - 1 PROVE data'[offset + k] = b[k]
        <5>1. /\ offset + k \in 0 .. DataLen - 1 /\ offset + k \in offset .. offset + n - 1
              /\ (offset + k) - offset = k
          BY <2>1
        <5> QED
          BY <2>3, <5>1
      <4> QED
        BY <2>1, <2>4, <3>1, <4>1, <4>2 DEF n, b
    <3>2. CASE f \in fields /\ ~Overlaps(f, t, offset)
      <4>1. /\ f.type \in Type /\ f.content \in ValuesOf(f.type)
            /\ f.offset \in 0 .. DataLen - f.type.size
            /\ f.type.read = "raw" => f.type.size > 0
            /\ \A k \in 0 .. f.type.size - 1 :
                  data[f.offset + k] = Bytes(f.type, f.content)[k]
        BY <3>2 DEF IInv, TypeOK, Stored
      <4>2. f.type.size \in Nat
        BY <4>1, TypeKinds, Constants
      <4>3. ASSUME NEW k \in 0 .. f.type.size - 1
            PROVE  data'[f.offset + k] = data[f.offset + k]
        <5>1. f.offset >= offset + n \/ offset >= f.offset + f.type.size
          BY <2>1, <3>2, <4>1, <4>2 DEF Overlaps, n
        <5>2. /\ f.offset + k \in 0 .. DataLen - 1
              /\ ~(f.offset + k \in offset .. offset + n - 1)
          BY <2>1, <4>1, <4>2, <5>1
        <5> QED
          BY <2>3, <5>2
      <4> QED
        BY <4>1, <4>3
    <3> QED
      BY <2>3, <3>1, <3>2
  <2>7. TypeOK'
    BY <1>1, <1>3, <2>5, <2>6 DEF TypeOK
  <2>8. Stored'
    BY <2>6 DEF Stored
  <2> QED
    BY <1>4, <2>7, <2>8 DEF IInv
<1> QED
  BY <1>5, <1>6

LEMMA NextIInv == IInv /\ [Next]_vars => IInv'
<1> SUFFICES ASSUME IInv, [Next]_vars PROVE IInv'
  OBVIOUS
<1>1. CASE UNCHANGED vars
  BY <1>1 DEF IInv, TypeOK, BoundsExact, Stored, vars
<1>2. CASE Next
  <2>1. PICK t \in Type, offset \in 0 .. SizeMod - 1 :
          \E value \in Values(t) : le_pack(t, offset, value)
    BY <1>2 DEF Next
  <2>2. PICK v \in Values(t) : le_pack(t, offset, v)
    BY <2>1
  <2>3. v \in ValuesOf(t)
    BY <2>2, LePackAssumption
  <2> QED
    BY <2>2, <2>3, PackIInv
<1> QED
  BY <1>1, <1>2

(* What is stored reads back. *)
LEMMA StoredReadsBack == IInv => FieldsReadBack
<1> SUFFICES ASSUME IInv, NEW f \in fields
             PROVE  Accepts(f.type, f.offset) /\ le_unpack(f.type, f.offset) = f.content
  BY DEF FieldsReadBack
<1>1. /\ f.type \in Type /\ f.content \in ValuesOf(f.type)
      /\ f.offset \in 0 .. DataLen - f.type.size
      /\ f.type.read = "raw" => f.type.size > 0
      /\ \A k \in 0 .. f.type.size - 1 : data[f.offset + k] = Bytes(f.type, f.content)[k]
  BY DEF IInv, TypeOK, Stored
<1>2. f.type.size \in 0 .. SizeMod - 1
  BY <1>1, TypeKinds
<1>3. /\ f.offset \in 0 .. SizeMod - 1 /\ f.offset \in Nat
      /\ f.offset + f.type.size <= DataLen
  BY <1>1, <1>2, Constants
<1>4. Accepts(f.type, f.offset)
  BY <1>1, <1>3, AcceptsExact
<1>5. le_unpack(f.type, f.offset) = f.content
  BY <1>1, <1>3, ReadBack
<1> QED
  BY <1>4, <1>5

LEMMA Invariance == Spec => []IInv
  BY InitIInv, NextIInv, PTL DEF Spec

-----------------------------------------------------------------------------
(***************************************************************************)
(* The buffer keeps its bytes bytes whatever is packed into it, and every  *)
(* field that is still there lies inside it and has a value of its type.   *)
(***************************************************************************)
THEOREM PackingTypeOK == Spec => []TypeOK
<1>1. IInv => TypeOK
  BY DEF IInv
<1> QED
  BY <1>1, Invariance, PTL

(***************************************************************************)
(* For every offset and width, where their sum wraps around size_t too, a  *)
(* le_pack function accepts exactly the fields that end inside the buffer. *)
(***************************************************************************)
THEOREM PackingBoundsExact == Spec => []BoundsExact
<1>1. IInv => BoundsExact
  BY DEF IInv
<1> QED
  BY <1>1, Invariance, PTL

(***************************************************************************)
(* Every value of every type reads back as it was packed, next to any      *)
(* other fields, until one of its bytes is overwritten: the written-out    *)
(* sums of le_unpack undo the shifts and masks of le_pack, the sign        *)
(* included.                                                               *)
(***************************************************************************)
THEOREM PackingFieldsReadBack == Spec => []FieldsReadBack
  BY StoredReadsBack, Invariance, PTL
=============================================================================
