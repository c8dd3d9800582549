---------------------- MODULE FastCircularBuffer_proofs ----------------------
(***************************************************************************)
(* FastCircularBuffer for every power-of-two width of size_t, every array  *)
(* and every sequence of calls, in particular across the wrap of either    *)
(* counter.                                                                *)
(***************************************************************************)
EXTENDS FastCircularBuffer, SequenceTheorems, WellFoundedInduction, TLAPS

(* A non-empty set of naturals has a least element. *)
LEMMA LeastNat ==
  ASSUME NEW T, T \subseteq Nat, T # {}
  PROVE  \E x \in T : \A y \in T : x <= y
<1> DEFINE R == OpToRel(<, Nat)
<1>1. IsWellFoundedOn(R, Nat)
  BY NatLessThanWellFounded
<1>2. \A x, y \in Nat : <<y, x>> \in R <=> y < x
  BY DEF OpToRel
<1> HIDE DEF R
<1>3. \E x \in T : \A y \in T : ~ (<<y, x>> \in R)
  BY <1>1, WFMin
<1>4. PICK x \in T : \A y \in T : ~ (<<y, x>> \in R)
  BY <1>3
<1>5. ASSUME NEW y \in T PROVE x <= y
  <2>1. ~(<<y, x>> \in R) /\ x \in Nat /\ y \in Nat
    BY <1>4, Zenon
  <2>2. ~(y < x)
    BY <1>2, <2>1, Zenon
  <2> QED
    BY <2>1, <2>2
<1> QED
  BY <1>5, Zenon

-----------------------------------------------------------------------------
(* Division with remainder, and that quotient and remainder are unique. *)
LEMMA DivMod ==
  ASSUME NEW a \in Nat, NEW n \in Nat \ {0}
  PROVE  \E q \in Nat : a = q * n + (a % n) /\ a % n \in 0 .. n - 1
<1>1. a \div n \in Nat /\ a % n \in 0 .. n - 1
  OBVIOUS
<1>2. a - (a % n) = (a \div n) * n
  OBVIOUS
<1>3. a = (a \div n) * n + (a % n)
  BY <1>1, <1>2
<1> QED
  BY <1>1, <1>3

LEMMA RemainderUnique ==
  ASSUME NEW x \in Int, NEW y \in Int, NEW n \in Nat \ {0},
         NEW r \in 0 .. n - 1, NEW s \in 0 .. n - 1, x * n + r = y * n + s
  PROVE  x = y /\ r = s
<1>1. ASSUME NEW u \in Int, NEW v \in Int, u < v PROVE v * n >= u * n + n
  <2>1. (v - u) * n >= n
    BY <1>1
  <2>2. (v - u) * n = v * n - u * n
    OBVIOUS
  <2> QED
    BY <2>1, <2>2
<1>2. ~(x < y)
  BY <1>1
<1>3. ~(y < x)
  BY <1>1
<1>4. x = y
  BY <1>2, <1>3
<1> QED
  BY <1>4

(* No remainder means a multiple. *)
LEMMA ModZero ==
  ASSUME NEW a \in Nat, NEW d \in Nat \ {0}
  PROVE  a % d = 0 <=> \E q \in Nat : a = q * d
<1>1. ASSUME a % d = 0 PROVE \E q \in Nat : a = q * d
  <2>1. PICK q \in Nat : a = q * d + (a % d)
    BY DivMod
  <2>2. a = q * d
    BY <1>1, <2>1
  <2> QED
    BY <2>2
<1>2. ASSUME NEW q \in Nat, a = q * d PROVE a % d = 0
  <2>1. (q * d) % d = 0
    OBVIOUS
  <2> QED
    BY <1>2, <2>1
<1> QED
  BY <1>1, <1>2

(* A multiple of n added changes no remainder by n. *)
LEMMA ModShift ==
  ASSUME NEW a \in Nat, NEW k \in Nat, NEW n \in Nat \ {0}
  PROVE  (a + k * n) % n = a % n
<1>1. PICK q \in Nat : a = q * n + (a % n) /\ a % n \in 0 .. n - 1
  BY DivMod
<1>2. a + k * n \in Nat
  OBVIOUS
<1>3. PICK p \in Nat : /\ a + k * n = p * n + ((a + k * n) % n)
                       /\ (a + k * n) % n \in 0 .. n - 1
  BY <1>2, DivMod
<1>4. (q + k) * n + (a % n) = p * n + ((a + k * n) % n)
  <2>1. (q + k) * n = q * n + k * n
    OBVIOUS
  <2>2. q * n \in Nat /\ k * n \in Nat /\ p * n \in Nat
    OBVIOUS
  <2> QED
    BY <1>1, <1>3, <2>1, <2>2
<1> DEFINE r == a % n
           s == (a + k * n) % n
           x == q + k
<1>5. r \in 0 .. n - 1 /\ s \in 0 .. n - 1 /\ x \in Int /\ p \in Int
  BY <1>1, <1>3
<1>6. x * n + r = p * n + s
  BY <1>4
<1> HIDE DEF r, s, x
<1>7. r = s
  BY <1>5, <1>6, RemainderUnique
<1> QED
  BY <1>7 DEF r, s

(* Numbers less than n apart have different remainders by n. *)
LEMMA ModDistinct ==
  ASSUME NEW a \in Nat, NEW b \in Nat, NEW n \in Nat \ {0}, a < b, b < a + n
  PROVE  a % n # b % n
<1>1. SUFFICES ASSUME a % n = b % n PROVE FALSE
  OBVIOUS
<1>2. PICK q \in Nat : a = q * n + (a % n) /\ a % n \in 0 .. n - 1
  BY DivMod
<1>3. PICK p \in Nat : b = p * n + (b % n) /\ b % n \in 0 .. n - 1
  BY DivMod
<1>4. b - a = (p - q) * n
  BY <1>1, <1>2, <1>3
<1>5. b - a \in 1 .. n - 1
  OBVIOUS
<1>6. (p - q) * n + 0 = 0 * n + (b - a)
  BY <1>4, <1>5
<1> QED
  BY <1>5, <1>6, RemainderUnique

(* One turn around subtracts the modulus once. *)
LEMMA ModWrap ==
  ASSUME NEW n \in Nat \ {0}, NEW x \in 0 .. n - 1, NEW k \in 0 .. n
  PROVE  (x + k) % n = IF x + k < n THEN x + k ELSE x + k - n
<1>1. CASE x + k < n
  BY <1>1
<1>2. CASE ~(x + k < n)
  <2>1. x + k - n \in 0 .. n - 1 /\ x + k = n * 1 + (x + k - n)
    BY <1>2
  <2> QED
    BY <1>2, <2>1
<1> QED
  BY <1>1, <1>2

(* Half of a power of two is one. *)
LEMMA HalfPower ==
  ASSUME NEW n \in Nat, IsPowerOf2(n), n >= 2
  PROVE  \E m \in Nat : n = 2 * m /\ m >= 1 /\ m < n /\ IsPowerOf2(m)
<1>1. n % n = 0 /\ n \in 2 .. n
  OBVIOUS
<1>2. n % 2 = 0
  BY <1>1 DEF IsPowerOf2
<1>3. PICK m \in Nat : n = 2 * m
  BY <1>2
<1>4. m >= 1 /\ m < n
  BY <1>3
<1>5. ASSUME NEW d \in 2 .. m, m % d = 0 PROVE d % 2 = 0
  <2>1. PICK q \in Nat : m = q * d
    BY <1>5, ModZero
  <2>2. n = (2 * q) * d
    BY <1>3, <2>1
  <2>3. n % d = 0
    BY <2>2, ModZero
  <2>4. d \in 2 .. n
    BY <1>4
  <2> QED
    BY <2>3, <2>4 DEF IsPowerOf2
<1> QED
  BY <1>3, <1>4, <1>5 DEF IsPowerOf2

(* A power of two divides every larger one: halve both until it is 1. *)
LEMMA PowerDivides ==
  ASSUME NEW n \in Nat, IsPowerOf2(n), NEW s \in Nat, IsPowerOf2(s), n <= s
  PROVE  \E q \in Nat : s = q * n
<1> DEFINE Fails(x, y) == IsPowerOf2(y) /\ x <= y /\ ~\E q \in Nat : y = q * x
           T == {x \in Nat : IsPowerOf2(x) /\ \E y \in Nat : Fails(x, y)}
<1>1. SUFFICES ASSUME T # {} PROVE FALSE
  BY <1>1
<1>2. PICK x \in T : \A z \in T : x <= z
  <2>1. T \subseteq Nat
    OBVIOUS
  <2> HIDE DEF T
  <2> QED
    BY <1>1, <2>1, LeastNat
<1>3. x \in Nat /\ IsPowerOf2(x)
  BY <1>2
<1>4. PICK y \in Nat : IsPowerOf2(y) /\ x <= y /\ ~\E q \in Nat : y = q * x
  BY <1>2
<1>5. x >= 2
  <2>1. x >= 1
    BY <1>3 DEF IsPowerOf2
  <2>2. y = y * 1
    OBVIOUS
  <2>3. x # 1
    BY <1>4, <2>2
  <2> QED
    BY <1>3, <2>1, <2>3
<1>6. PICK m \in Nat : x = 2 * m /\ m >= 1 /\ m < x /\ IsPowerOf2(m)
  BY <1>3, <1>5, HalfPower
<1>7. PICK h \in Nat : y = 2 * h /\ h >= 1 /\ h < y /\ IsPowerOf2(h)
  BY <1>3, <1>4, <1>5, HalfPower
<1>8. m <= h
  BY <1>4, <1>6, <1>7
<1>9. m \notin T
  BY <1>2, <1>3, <1>6
<1>10. PICK q \in Nat : h = q * m
  BY <1>6, <1>7, <1>8, <1>9
<1>11. y = q * x
  BY <1>6, <1>7, <1>10
<1> QED
  BY <1>4, <1>11

Divides(n, m) == \E q \in Nat : m = q * n

(* A remainder by a multiple of n may be taken first. *)
LEMMA ModInner ==
  ASSUME NEW n \in Nat \ {0}, NEW m \in Nat \ {0}, Divides(n, m),
         NEW x \in Nat, NEW j \in Nat
  PROVE  ((x % m) + j) % n = (x + j) % n
<1>0. PICK q \in Nat : m = q * n
  BY DEF Divides
<1>1. PICK k \in Nat : x = k * m + (x % m) /\ x % m \in 0 .. m - 1
  BY DivMod
<1> DEFINE y == x % m
           t == k * q
<1>2. y \in Nat /\ t \in Nat
  BY <1>1
<1>3. k * m = t * n
  BY <1>0
<1>4. x + j = (y + j) + t * n
  <2>1. k * m \in Nat
    OBVIOUS
  <2> QED
    BY <1>1, <1>2, <1>3, <2>1
<1> HIDE DEF y, t
<1>5. ((y + j) + t * n) % n = (y + j) % n
  <2>1. y + j \in Nat
    BY <1>2
  <2> QED
    BY <1>2, <2>1, ModShift, Zenon
<1> QED
  BY <1>4, <1>5 DEF y

-----------------------------------------------------------------------------
RingSize == size_mask + 1
Count    == fast_circular_buffer_get_count

(* With CountInv, the ring size is a power of two. *)
IInv == TypeOK /\ CountInv /\ IsPowerOf2(RingSize)

USE DEF ERR_NONE, ERR_NO_MEM, ERR_INVALID_ARG, ERR_EMPTY

(* The difference of two counters is what was added to the lower one. *)
LEMMA SubOfSum ==
  ASSUME SizeMod \in Nat \ {0}, NEW r \in 0 .. SizeMod - 1, NEW c \in 0 .. SizeMod - 1
  PROVE  Sub((r + c) % SizeMod, r) = c
<1> DEFINE w == (r + c) % SizeMod
<1>1. w = IF r + c < SizeMod THEN r + c ELSE r + c - SizeMod
  <2>1. c \in 0 .. SizeMod
    OBVIOUS
  <2> QED
    BY <2>1, ModWrap, Zenon
<1>2. w \in 0 .. SizeMod - 1 /\ SizeMod - r \in 0 .. SizeMod
  BY <1>1
<1> HIDE DEF w
<1>3. (w + (SizeMod - r)) % SizeMod
        = IF w + (SizeMod - r) < SizeMod THEN w + (SizeMod - r)
                                         ELSE w + (SizeMod - r) - SizeMod
  BY <1>2, ModWrap
<1>4. Sub(w, r) = c
  BY <1>1, <1>2, <1>3 DEF Sub
<1> QED
  BY <1>4 DEF w

(* The ring in plain terms: the ring size divides the range of the         *)
(* counters, and the write counter is Count ahead of the read counter.     *)
RingShape ==
  /\ SizeMod \in Nat \ {0} /\ RingSize \in Nat \ {0} /\ RingSize < SizeMod
  /\ size_mask = RingSize - 1 /\ RingSize <= MaxSize /\ MaxSize \in Nat \ {0}
  /\ Divides(RingSize, SizeMod)
  /\ read_index \in 0 .. SizeMod - 1 /\ write_index \in 0 .. SizeMod - 1
  /\ Count \in 0 .. RingSize
  /\ write_index = (read_index + Count) % SizeMod

(* It follows from the invariant. *)
LEMMA RingFacts ==
  ASSUME FastConstants
  PROVE  IInv => RingShape
<1> SUFFICES ASSUME IInv PROVE RingShape
  OBVIOUS
<1>1. /\ SizeMod \in Nat \ {0} /\ MaxSize \in Nat \ {0} /\ MaxSize < SizeMod
      /\ size_mask \in 0 .. MaxSize - 1
      /\ read_index \in 0 .. SizeMod - 1 /\ write_index \in 0 .. SizeMod - 1
  BY DEF FastConstants, IInv, TypeOK, Slot, IsPowerOf2
<1>2. /\ RingSize \in Nat \ {0} /\ RingSize < SizeMod
      /\ size_mask = RingSize - 1 /\ RingSize <= MaxSize
  BY <1>1 DEF RingSize
<1>3. Divides(RingSize, SizeMod)
  BY <1>1, <1>2, PowerDivides DEF FastConstants, IInv, Divides
<1>4. Count = IF write_index + (SizeMod - read_index) < SizeMod
                THEN write_index + (SizeMod - read_index)
                ELSE write_index + (SizeMod - read_index) - SizeMod
  <2>1. SizeMod - read_index \in 0 .. SizeMod
    BY <1>1
  <2> QED
    BY <1>1, <2>1, ModWrap DEF Count, fast_circular_buffer_get_count, Sub
<1>5. Count \in Nat /\ Count <= RingSize
  BY <1>1, <1>4 DEF IInv, CountInv, Count, RingSize
<1>6. write_index = IF read_index + Count < SizeMod
                      THEN read_index + Count ELSE read_index + Count - SizeMod
  BY <1>1, <1>4
<1>7. write_index = (read_index + Count) % SizeMod
  <2>1. Count \in 0 .. SizeMod
    BY <1>1, <1>2, <1>5
  <2> QED
    BY <1>1, <1>6, <2>1, ModWrap
<1> QED
  BY <1>1, <1>2, <1>3, <1>5, <1>7 DEF RingShape

(* The low bits of a wrapped counter are those of the number it stands for. *)
LEMMA MaskOfWrapped ==
  ASSUME RingShape, NEW x \in Nat, NEW j \in Nat
  PROVE  /\ ((x % SizeMod) + j) % RingSize = (x + j) % RingSize
         /\ ((x % SizeMod) + j) % SizeMod = (x + j) % SizeMod
         /\ Masked(x % SizeMod) = x % RingSize
         /\ x % RingSize \in 0 .. RingSize - 1
<1>1. Divides(RingSize, SizeMod) /\ Divides(SizeMod, SizeMod)
  <2>1. SizeMod \in Nat \ {0} /\ SizeMod = 1 * SizeMod
    BY DEF RingShape
  <2> QED
    BY <2>1 DEF RingShape, Divides
<1>2. SizeMod \in Nat \ {0} /\ RingSize \in Nat \ {0}
  BY DEF RingShape
<1>3. ((x % SizeMod) + j) % RingSize = (x + j) % RingSize
  BY <1>1, <1>2, ModInner, Zenon
<1>4. ((x % SizeMod) + j) % SizeMod = (x + j) % SizeMod
  BY <1>1, <1>2, ModInner, Zenon
<1>5. Masked(x % SizeMod) = x % RingSize
  <2>0. 0 \in Nat
    OBVIOUS
  <2>1. ((x % SizeMod) + 0) % RingSize = (x + 0) % RingSize
    BY <1>1, <1>2, <2>0, ModInner, Zenon
  <2>2. (x % SizeMod) + 0 = x % SizeMod /\ x + 0 = x
    BY <1>2
  <2> QED
    BY <2>1, <2>2 DEF Masked, RingSize
<1> QED
  BY <1>2, <1>3, <1>4, <1>5

(* The counters after a push or a pop. *)
LEMMA NextCounters ==
  ASSUME RingShape
  PROVE  /\ Add(write_index, 1) = (read_index + (Count + 1)) % SizeMod
         /\ Add(write_index, 1) = (Add(read_index, 1) + Count) % SizeMod
         /\ Count # 0 => write_index = (Add(read_index, 1) + (Count - 1)) % SizeMod
         /\ Overwrites <=> Count = RingSize
         /\ Count = RingSize => Sub(write_index, size_mask) = Add(read_index, 1)
         /\ Add(read_index, 1) \in 0 .. SizeMod - 1
         /\ Add(write_index, 1) \in 0 .. SizeMod - 1
<1> DEFINE r == read_index
           c == Count
<1>0. /\ SizeMod \in Nat \ {0} /\ RingSize \in Nat \ {0} /\ RingSize < SizeMod
      /\ r \in Nat /\ c \in Nat /\ c <= RingSize /\ size_mask = RingSize - 1
      /\ write_index = (r + c) % SizeMod
  BY DEF RingShape
<1>m. ASSUME NEW x \in Nat, NEW j \in Nat
      PROVE  ((x % SizeMod) + j) % SizeMod = (x + j) % SizeMod
  BY MaskOfWrapped
<1> HIDE DEF r, c
<1>1. Add(write_index, 1) = (r + (c + 1)) % SizeMod
  <2>0. r + c \in Nat /\ 1 \in Nat
    BY <1>0
  <2>1. (((r + c) % SizeMod) + 1) % SizeMod = ((r + c) + 1) % SizeMod
    BY <2>0, <1>m, Zenon
  <2>2. (r + c) + 1 = r + (c + 1)
    BY <1>0
  <2> QED
    BY <1>0, <2>1, <2>2 DEF Add
<1>2. Add(write_index, 1) = (Add(r, 1) + c) % SizeMod
  <2>0. r + 1 \in Nat /\ c \in Nat
    BY <1>0
  <2>1. (((r + 1) % SizeMod) + c) % SizeMod = ((r + 1) + c) % SizeMod
    BY <2>0, <1>m, Zenon
  <2>2. (r + 1) + c = r + (c + 1)
    BY <1>0
  <2> QED
    BY <1>1, <2>1, <2>2 DEF Add
<1>3. ASSUME c # 0 PROVE write_index = (Add(r, 1) + (c - 1)) % SizeMod
  <2>0. r + 1 \in Nat /\ c - 1 \in Nat
    BY <1>0, <1>3
  <2>1. (((r + 1) % SizeMod) + (c - 1)) % SizeMod = ((r + 1) + (c - 1)) % SizeMod
    BY <2>0, <1>m, Zenon
  <2>2. (r + 1) + (c - 1) = r + c
    BY <1>0
  <2> QED
    BY <1>0, <2>1, <2>2 DEF Add
<1>4. Overwrites <=> c = RingSize
  BY <1>0 DEF Overwrites, Count, c
<1>5. ASSUME c = RingSize PROVE Sub(write_index, size_mask) = Add(r, 1)
  <2> DEFINE k == SizeMod - size_mask
  <2>1. k \in Nat /\ (r + c) + k = (r + 1) + 1 * SizeMod
    BY <1>0, <1>5
  <2> HIDE DEF k
  <2>0. r + c \in Nat /\ r + 1 \in Nat /\ 1 \in Nat
    BY <1>0
  <2>2. (((r + c) % SizeMod) + k) % SizeMod = ((r + c) + k) % SizeMod
    BY <2>0, <1>m, <2>1, Zenon
  <2>3. ((r + 1) + 1 * SizeMod) % SizeMod = (r + 1) % SizeMod
    BY <1>0, <2>0, ModShift, Zenon
  <2> QED
    BY <1>0, <2>1, <2>2, <2>3 DEF Sub, Add, k
<1>6. Add(r, 1) \in 0 .. SizeMod - 1 /\ Add(write_index, 1) \in 0 .. SizeMod - 1
  <2>1. \A x \in Nat : x % SizeMod \in 0 .. SizeMod - 1
    BY <1>0
  <2>2. write_index + 1 \in Nat /\ r + 1 \in Nat
    BY <1>0, <2>1
  <2> QED
    BY <2>1, <2>2 DEF Add
<1> QED
  BY <1>1, <1>2, <1>3, <1>4, <1>5, <1>6 DEF r, c

-----------------------------------------------------------------------------
(* 1 is a power of two. *)
LEMMA OneIsPower == IsPowerOf2(1)
  BY DEF IsPowerOf2

(* A ring with equal counters is empty. *)
LEMMA EqualCounters ==
  ASSUME SizeMod \in Nat \ {0}
  PROVE  Sub(0, 0) = 0
  BY DEF Sub

(* What get_count is after a push and after a pop. *)
LEMMA PushCount ==
  ASSUME RingShape, write_index' = Add(write_index, 1),
         read_index' = IF Count = RingSize THEN Add(read_index, 1) ELSE read_index
  PROVE  Count' = IF Count = RingSize THEN Count ELSE Count + 1
<1>0. /\ SizeMod \in Nat \ {0} /\ RingSize < SizeMod /\ RingSize \in Nat
      /\ Count \in 0 .. RingSize /\ read_index \in 0 .. SizeMod - 1
      /\ Add(read_index, 1) \in 0 .. SizeMod - 1
  BY NextCounters DEF RingShape
<1>1. Count' = Sub(write_index', read_index')
  BY DEF Count, fast_circular_buffer_get_count, Sub
<1>2. CASE Count = RingSize
  <2>1. Count \in 0 .. SizeMod - 1
    BY <1>0
  <2>2. Sub((Add(read_index, 1) + Count) % SizeMod, Add(read_index, 1)) = Count
    BY <1>0, <2>1, SubOfSum, Zenon
  <2> QED
    BY <1>1, <1>2, <2>2, NextCounters
<1>3. CASE Count # RingSize
  <2>1. Count + 1 \in 0 .. SizeMod - 1
    BY <1>0, <1>3
  <2>2. Sub((read_index + (Count + 1)) % SizeMod, read_index) = Count + 1
    BY <1>0, <2>1, SubOfSum, Zenon
  <2>3. write_index' = (read_index + (Count + 1)) % SizeMod /\ read_index' = read_index
    BY <1>3, NextCounters
  <2> QED
    BY <1>1, <1>3, <2>2, <2>3, Zenon
<1> QED
  BY <1>2, <1>3

LEMMA PopCount ==
  ASSUME RingShape, Count # 0, read_index' = Add(read_index, 1),
         write_index' = write_index
  PROVE  Count' = Count - 1
<1>0. /\ SizeMod \in Nat \ {0} /\ Count - 1 \in 0 .. SizeMod - 1
      /\ Add(read_index, 1) \in 0 .. SizeMod - 1
  BY NextCounters DEF RingShape
<1>1. Count' = Sub(write_index', read_index')
  BY DEF Count, fast_circular_buffer_get_count, Sub
<1>2. Sub((Add(read_index, 1) + (Count - 1)) % SizeMod, Add(read_index, 1)) = Count - 1
  BY <1>0, SubOfSum, Zenon
<1> QED
  BY <1>1, <1>2, NextCounters

(* Accesses are inside the array. *)
LEMMA ReadInRing ==
  ASSUME RingShape
  PROVE  Masked(read_index) \in Slot /\ Masked(write_index) \in Slot
  BY DEF RingShape, Masked, RingSize, Slot

(* A deinitialised ring is empty. *)
LEMMA EmptyWhenDown ==
  ASSUME IInv, RingShape, size_mask = 0
  PROVE  Count = 0
<1>1. read_index = write_index /\ SizeMod \in Nat \ {0} /\ read_index \in 0 .. SizeMod - 1
  BY DEF IInv, CountInv, RingShape
<1>2. write_index + (SizeMod - read_index) = SizeMod
  BY <1>1
<1>3. SizeMod % SizeMod = 0
  BY <1>1
<1> QED
  BY <1>2, <1>3 DEF Count, fast_circular_buffer_get_count, Sub

(* The deinitialised ring satisfies the invariant. *)
LEMMA InitIInv ==
  ASSUME FastConstants
  PROVE  Init => IInv
<1> SUFFICES ASSUME Init PROVE IInv
  OBVIOUS
<1>1. SizeMod \in Nat \ {0} /\ MaxSize \in Nat \ {0}
  BY DEF FastConstants, IsPowerOf2
<1>2. TypeOK
  BY <1>1 DEF Init, TypeOK, Slot, ErrorCode
<1>3. CountInv
  BY <1>1, EqualCounters DEF Init, CountInv, fast_circular_buffer_get_count
<1>4. RingSize = 1
  BY DEF Init, RingSize
<1> QED
  BY <1>2, <1>3, <1>4, OneIsPower DEF IInv

(* Every call keeps it. *)
LEMMA NextIInv ==
  ASSUME FastConstants
  PROVE  IInv /\ [Next]_vars => IInv'
<1> SUFFICES ASSUME IInv, [Next]_vars PROVE IInv'
  OBVIOUS
<1>0. /\ SizeMod \in Nat \ {0} /\ MaxSize \in Nat \ {0} /\ MaxSize < SizeMod
      /\ TypeOK /\ RingShape /\ IsPowerOf2(RingSize)
  BY RingFacts DEF FastConstants, IsPowerOf2, IInv
<1>u. ASSUME UNCHANGED <<size_mask, read_index, write_index>>, TypeOK' PROVE IInv'
  BY <1>u DEF IInv, CountInv, fast_circular_buffer_get_count, RingSize
<1>1. ASSUME NEW n \in 0 .. MaxSize, fast_circular_buffer_init(n) PROVE IInv'
  <2>1. CASE ~ValidConfig(n)
    <3>1. TypeOK' /\ UNCHANGED <<size_mask, read_index, write_index>>
      BY <1>0, <1>1, <2>1 DEF fast_circular_buffer_init, TypeOK, ErrorCode
    <3> QED
      BY <1>u, <3>1
  <2>2. CASE ValidConfig(n)
    <3>1. /\ size_mask' = n - 1 /\ read_index' = 0 /\ write_index' = 0
          /\ ret' = ERR_NONE /\ UNCHANGED <<buffer, out>>
          /\ n >= 2 /\ IsPowerOf2(n) /\ n \in Nat /\ n <= MaxSize
      BY <1>0, <1>1, <2>2 DEF fast_circular_buffer_init, ValidConfig
    <3>2. TypeOK'
      BY <1>0, <3>1 DEF TypeOK, Slot, ErrorCode
    <3>3. CountInv'
      BY <1>0, <3>1, EqualCounters DEF CountInv, fast_circular_buffer_get_count
    <3>4. RingSize' = n
      BY <3>1 DEF RingSize
    <3> QED
      BY <3>1, <3>2, <3>3, <3>4 DEF IInv, IsPowerOf2
  <2> QED
    BY <2>1, <2>2
<1>2. CASE fast_circular_buffer_deinit
  <2>1. /\ size_mask' = 0 /\ read_index' = 0 /\ write_index' = 0
        /\ UNCHANGED <<buffer, out, ret>>
    BY <1>2 DEF fast_circular_buffer_deinit
  <2>2. TypeOK'
    BY <1>0, <2>1 DEF TypeOK, Slot
  <2>3. CountInv'
    BY <1>0, <2>1, EqualCounters DEF CountInv, fast_circular_buffer_get_count
  <2>4. RingSize' = 1
    BY <2>1 DEF RingSize
  <2> QED
    BY <2>2, <2>3, <2>4, OneIsPower DEF IInv, IsPowerOf2
<1>3. ASSUME NEW b \in Byte, fast_circular_buffer_push_byte(b) PROVE IInv'
  <2>1. CASE size_mask = 0
    <3>1. TypeOK' /\ UNCHANGED <<size_mask, read_index, write_index>>
      BY <1>0, <1>3, <2>1 DEF fast_circular_buffer_push_byte, TypeOK, ErrorCode
    <3> QED
      BY <1>u, <3>1
  <2>2. CASE size_mask # 0
    <3>1. /\ buffer' = [buffer EXCEPT ![Masked(write_index)] = b]
          /\ read_index' = IF Overwrites THEN Sub(write_index, size_mask) ELSE read_index
          /\ write_index' = Add(write_index, 1)
          /\ ret' = ERR_NONE /\ UNCHANGED <<size_mask, out>>
      BY <1>3, <2>2 DEF fast_circular_buffer_push_byte
    <3>2. /\ read_index' = IF Count = RingSize THEN Add(read_index, 1) ELSE read_index
          /\ read_index' \in 0 .. SizeMod - 1 /\ write_index' \in 0 .. SizeMod - 1
      BY <1>0, <3>1, NextCounters DEF RingShape
    <3>3. Count' = IF Count = RingSize THEN Count ELSE Count + 1
      BY <1>0, <3>1, <3>2, PushCount
    <3>4. TypeOK'
      BY <1>0, <3>1, <3>2 DEF TypeOK, ErrorCode
    <3>5. CountInv' /\ RingSize' = RingSize
      BY <1>0, <2>2, <3>1, <3>3 DEF CountInv, Count, RingSize, RingShape
    <3> QED
      BY <1>0, <3>4, <3>5 DEF IInv, IsPowerOf2
  <2> QED
    BY <2>1, <2>2
<1>4. CASE fast_circular_buffer_pop_byte
  <2>1. CASE Count = 0
    <3>1. TypeOK' /\ UNCHANGED <<size_mask, read_index, write_index>>
      BY <1>0, <1>4, <2>1 DEF fast_circular_buffer_pop_byte, Count, TypeOK, ErrorCode
    <3> QED
      BY <1>u, <3>1
  <2>2. CASE Count # 0
    <3>1. /\ out' = buffer[Masked(read_index)] /\ read_index' = Add(read_index, 1)
          /\ ret' = ERR_NONE /\ UNCHANGED <<buffer, size_mask, write_index>>
      BY <1>4, <2>2 DEF fast_circular_buffer_pop_byte, Count
    <3>2. read_index' \in 0 .. SizeMod - 1
      BY <1>0, <3>1, NextCounters
    <3>3. Count' = Count - 1
      BY <1>0, <2>2, <3>1, PopCount
    <3>4. out' \in Byte
      BY <1>0, <3>1, ReadInRing DEF TypeOK
    <3>5. TypeOK'
      BY <1>0, <3>1, <3>2, <3>4 DEF TypeOK, ErrorCode
    <3>6. size_mask # 0
      BY <1>0, <2>2, EmptyWhenDown
    <3>7. CountInv' /\ RingSize' = RingSize
      BY <1>0, <3>1, <3>3, <3>6 DEF CountInv, Count, RingSize, RingShape
    <3> QED
      BY <1>0, <3>5, <3>7 DEF IInv, IsPowerOf2
  <2> QED
    BY <2>1, <2>2
<1>5. CASE UNCHANGED vars
  <2>1. TypeOK' /\ UNCHANGED <<size_mask, read_index, write_index>>
    BY <1>0, <1>5 DEF vars, TypeOK
  <2> QED
    BY <1>u, <2>1
<1> QED
  BY <1>1, <1>2, <1>3, <1>4, <1>5 DEF Next

(* It holds in every reachable state. *)
LEMMA FastInductive ==
  ASSUME FastConstants
  PROVE  Spec => []IInv
  BY InitIInv, NextIInv, PTL DEF Spec

(***************************************************************************)
(* fast_circular_buffer.c keeps its fields in their ranges: both counters  *)
(* wrap at the width of size_t.                                            *)
(***************************************************************************)
THEOREM FastTypeCorrect ==
  ASSUME FastConstants
  PROVE  Spec => []TypeOK
<1>1. IInv => TypeOK
  BY DEF IInv
<1> QED
  BY <1>1, FastInductive, PTL

(***************************************************************************)
(* Whatever the counters of fast_circular_buffer.c have wrapped to, they   *)
(* are at most the ring size apart.                                        *)
(***************************************************************************)
THEOREM FastCountCorrect ==
  ASSUME FastConstants
  PROVE  Spec => []CountInv
<1>1. IInv => CountInv
  BY DEF IInv
<1> QED
  BY <1>1, FastInductive, PTL

-----------------------------------------------------------------------------
(* Contents is the sequence of the Count bytes from the read counter on,   *)
(* as if that counter did not wrap.                                        *)
ContentsShape ==
  /\ Contents \in Seq(Byte)
  /\ Len(Contents) = Count
  /\ \A i \in 1 .. Count : Contents[i] = buffer[(read_index + (i - 1)) % RingSize]

(* It is, in every state. *)
LEMMA ContentsFacts ==
  ASSUME FastConstants
  PROVE  IInv => ContentsShape
<1> SUFFICES ASSUME IInv PROVE ContentsShape
  OBVIOUS
<1>0. /\ RingShape /\ Count \in Nat /\ read_index \in Nat /\ RingSize \in Nat
      /\ RingSize <= MaxSize /\ MaxSize \in Nat /\ buffer \in [Slot -> Byte]
  BY RingFacts DEF RingShape, IInv, TypeOK
<1>1. ASSUME NEW i \in 1 .. Count
      PROVE  /\ Masked(Add(read_index, i - 1)) = (read_index + (i - 1)) % RingSize
             /\ (read_index + (i - 1)) % RingSize \in Slot
  <2>1. read_index + (i - 1) \in Nat /\ 0 \in Nat
    BY <1>0
  <2>2. /\ Masked((read_index + (i - 1)) % SizeMod) = (read_index + (i - 1)) % RingSize
        /\ (read_index + (i - 1)) % RingSize \in 0 .. RingSize - 1
    BY <1>0, <2>1, MaskOfWrapped, Zenon
  <2>3. 0 .. RingSize - 1 \subseteq Slot
    BY <1>0 DEF Slot
  <2> QED
    BY <2>2, <2>3, Zenon DEF Add
<1>2. Contents \in [1 .. Count -> Byte]
  BY <1>0, <1>1 DEF Contents, Count
<1>3. Contents \in Seq(Byte) /\ Len(Contents) = Count
  BY <1>0, <1>2
<1>4. \A i \in 1 .. Count : Contents[i] = buffer[(read_index + (i - 1)) % RingSize]
  BY <1>1 DEF Contents, Count
<1> QED
  BY <1>3, <1>4 DEF ContentsShape

(* The next push writes behind the last byte. *)
LEMMA WriteSlot ==
  ASSUME RingShape
  PROVE  Masked(write_index) = (read_index + Count) % RingSize
<1>1. read_index + Count \in Nat /\ 0 \in Nat
  BY DEF RingShape
<1>2. Masked((read_index + Count) % SizeMod) = (read_index + Count) % RingSize
  BY <1>1, MaskOfWrapped, Zenon
<1> QED
  BY <1>2 DEF RingShape

(* The bytes from the next read counter on. *)
LEMMA ReadSlots ==
  ASSUME RingShape, NEW j \in Nat
  PROVE  (Add(read_index, 1) + j) % RingSize = (read_index + (j + 1)) % RingSize
<1>1. read_index + 1 \in Nat /\ (read_index + 1) + j = read_index + (j + 1)
  BY DEF RingShape
<1>2. (((read_index + 1) % SizeMod) + j) % RingSize = ((read_index + 1) + j) % RingSize
  BY <1>1, MaskOfWrapped, Zenon
<1> QED
  BY <1>1, <1>2, Zenon DEF Add

(* A push on a ring with room appends the byte. *)
LEMMA PushAppends ==
  ASSUME FastConstants, IInv, IInv', Count # RingSize, NEW b \in Byte,
         buffer' = [buffer EXCEPT ![Masked(write_index)] = b],
         read_index' = read_index, Count' = Count + 1, size_mask' = size_mask
  PROVE  Contents' = Append(Contents, b)
<1> DEFINE n == Count
           At(i) == (read_index + (i - 1)) % RingSize
<1>0. /\ RingShape /\ n \in Nat /\ n < RingSize /\ RingSize \in Nat \ {0}
      /\ read_index \in Nat /\ RingSize' = RingSize /\ buffer \in [Slot -> Byte]
      /\ 0 .. RingSize - 1 \subseteq Slot
  <2>1. RingShape /\ buffer \in [Slot -> Byte] /\ RingSize' = RingSize
    BY RingFacts DEF RingSize, IInv, TypeOK
  <2>2. /\ n \in 0 .. RingSize /\ RingSize \in Nat \ {0} /\ RingSize <= MaxSize
        /\ MaxSize \in Nat /\ read_index \in 0 .. SizeMod - 1 /\ SizeMod \in Nat
    BY <2>1 DEF RingShape
  <2>3. n < RingSize /\ n \in Nat /\ read_index \in Nat
    BY <2>2
  <2>4. 0 .. RingSize - 1 \subseteq Slot
    BY <2>2 DEF Slot
  <2> QED
    BY <2>1, <2>2, <2>3, <2>4
<1>1. /\ Contents \in Seq(Byte) /\ Len(Contents) = n
      /\ \A i \in 1 .. n : Contents[i] = buffer[At(i)]
  BY ContentsFacts DEF ContentsShape
<1>2. /\ Contents' \in Seq(Byte) /\ Len(Contents') = n + 1
      /\ \A i \in 1 .. n + 1 : Contents'[i] = buffer'[At(i)]
  <2>1. ContentsShape'
    BY ContentsFacts, PTL
  <2> QED
    BY <1>0, <2>1 DEF ContentsShape
<1>3. /\ Append(Contents, b) \in Seq(Byte) /\ Len(Append(Contents, b)) = n + 1
      /\ \A i \in 1 .. n : Append(Contents, b)[i] = Contents[i]
      /\ Append(Contents, b)[n + 1] = b
  BY <1>1, AppendProperties
<1>4. Masked(write_index) = At(n + 1) /\ Masked(write_index) \in Slot
  <2>1. (n + 1) - 1 = n
    BY <1>0
  <2> QED
    BY <1>0, <2>1, WriteSlot, ReadInRing
<1>5. ASSUME NEW i \in 1 .. n + 1 PROVE Contents'[i] = Append(Contents, b)[i]
  <2>1. CASE i = n + 1
    <3>1. buffer'[At(i)] = b
      BY <1>0, <1>4, <2>1
    <3> QED
      BY <1>2, <1>3, <2>1, <3>1
  <2>2. CASE i # n + 1
    <3>1. /\ i \in 1 .. n /\ read_index + (i - 1) \in Nat /\ read_index + n \in Nat
          /\ read_index + (i - 1) < read_index + n
          /\ read_index + n < (read_index + (i - 1)) + RingSize
          /\ (n + 1) - 1 = n
      BY <1>0, <2>2
    <3>2. At(i) # At(n + 1)
      BY <1>0, <3>1, ModDistinct
    <3>3. At(i) \in Slot
      <4>1. At(i) \in 0 .. RingSize - 1
        BY <1>0, <3>1
      <4> QED
        BY <1>0, <4>1
    <3>4. buffer'[At(i)] = buffer[At(i)]
      BY <1>0, <1>4, <3>2, <3>3
    <3> QED
      BY <1>1, <1>2, <1>3, <3>1, <3>4
  <2> QED
    BY <2>1, <2>2
<1> HIDE DEF n
<1> QED
  BY <1>0, <1>2, <1>3, <1>5, SeqEqual

(* A push on a full ring drops the oldest byte and appends the new one. *)
LEMMA PushOverwrites ==
  ASSUME FastConstants, IInv, IInv', Count = RingSize, NEW b \in Byte,
         buffer' = [buffer EXCEPT ![Masked(write_index)] = b],
         read_index' = Add(read_index, 1), Count' = Count, size_mask' = size_mask
  PROVE  Contents' = Append(Tail(Contents), b)
<1> DEFINE n == Count
           At(i) == (read_index + i) % RingSize
<1>0. /\ RingShape /\ n \in Nat \ {0} /\ n = RingSize
      /\ read_index \in Nat /\ RingSize' = RingSize /\ buffer \in [Slot -> Byte]
      /\ 0 .. RingSize - 1 \subseteq Slot
  BY RingFacts DEF RingShape, RingSize, IInv, TypeOK, Slot
<1>1. /\ Contents \in Seq(Byte) /\ Len(Contents) = n
      /\ \A i \in 1 .. n : Contents[i] = buffer[At(i - 1)]
  BY ContentsFacts DEF ContentsShape
<1>2. /\ Contents' \in Seq(Byte) /\ Len(Contents') = n
      /\ \A i \in 1 .. n : Contents'[i] = buffer'[At(i)]
  <2>1. ContentsShape'
    BY ContentsFacts, PTL
  <2>2. ASSUME NEW i \in 1 .. n
        PROVE  (Add(read_index, 1) + (i - 1)) % RingSize = At(i)
    <3>1. i - 1 \in Nat /\ (i - 1) + 1 = i
      BY <1>0
    <3> QED
      BY <1>0, <3>1, ReadSlots
  <2> QED
    BY <1>0, <2>1, <2>2 DEF ContentsShape
<1>3. Contents # <<>>
  BY <1>0, <1>1, EmptySeq
<1>4. /\ Tail(Contents) \in Seq(Byte) /\ Len(Tail(Contents)) = n - 1
      /\ \A i \in 1 .. n - 1 : Tail(Contents)[i] = Contents[i + 1]
  BY <1>1, <1>3, HeadTailProperties
<1>5. /\ Append(Tail(Contents), b) \in Seq(Byte)
      /\ Len(Append(Tail(Contents), b)) = n
      /\ \A i \in 1 .. n - 1 : Append(Tail(Contents), b)[i] = Contents[i + 1]
      /\ Append(Tail(Contents), b)[n] = b
  <2>1. /\ Append(Tail(Contents), b) \in Seq(Byte)
        /\ Len(Append(Tail(Contents), b)) = Len(Tail(Contents)) + 1
        /\ \A i \in 1 .. Len(Tail(Contents)) :
             Append(Tail(Contents), b)[i] = Tail(Contents)[i]
        /\ Append(Tail(Contents), b)[Len(Tail(Contents)) + 1] = b
    BY <1>4, AppendProperties
  <2> QED
    BY <1>0, <1>4, <2>1
<1>6. Masked(write_index) = At(n) /\ Masked(write_index) \in Slot
  BY <1>0, WriteSlot, ReadInRing
<1>7. ASSUME NEW i \in 1 .. n PROVE Contents'[i] = Append(Tail(Contents), b)[i]
  <2>1. CASE i = n
    <3>1. buffer'[At(i)] = b
      BY <1>0, <1>6, <2>1
    <3> QED
      BY <1>2, <1>5, <2>1, <3>1
  <2>2. CASE i # n
    <3>1. /\ i \in 1 .. n - 1 /\ read_index + i \in Nat /\ read_index + n \in Nat
          /\ read_index + i < read_index + n
          /\ read_index + n < (read_index + i) + RingSize
          /\ i + 1 \in 1 .. n /\ (i + 1) - 1 = i
      BY <1>0, <2>2
    <3>2. At(i) # At(n)
      BY <1>0, <3>1, ModDistinct
    <3>3. At(i) \in Slot
      <4>1. At(i) \in 0 .. RingSize - 1
        BY <1>0, <3>1
      <4> QED
        BY <1>0, <4>1
    <3>4. buffer'[At(i)] = buffer[At(i)]
      BY <1>0, <1>6, <3>2, <3>3
    <3>5. Contents[i + 1] = buffer[At(i)]
      BY <1>1, <3>1
    <3> QED
      BY <1>2, <1>5, <3>1, <3>4, <3>5
  <2> QED
    BY <2>1, <2>2
<1> HIDE DEF n
<1> QED
  BY <1>0, <1>2, <1>5, <1>7, SeqEqual

(* A pop takes the first byte off. *)
LEMMA PopTakesHead ==
  ASSUME FastConstants, IInv, IInv', Count # 0, read_index' = Add(read_index, 1),
         Count' = Count - 1, UNCHANGED <<buffer, size_mask>>
  PROVE  /\ Contents # <<>>
         /\ buffer[Masked(read_index)] = Head(Contents)
         /\ Contents' = Tail(Contents)
<1> DEFINE n == Count
           At(i) == (read_index + i) % RingSize
<1>0. RingShape /\ n \in Nat \ {0} /\ read_index \in Nat /\ RingSize' = RingSize
  BY RingFacts DEF RingShape, RingSize
<1>1. /\ Contents \in Seq(Byte) /\ Len(Contents) = n
      /\ \A i \in 1 .. n : Contents[i] = buffer[At(i - 1)]
  BY ContentsFacts DEF ContentsShape
<1>2. /\ Contents' \in Seq(Byte) /\ Len(Contents') = n - 1
      /\ \A i \in 1 .. n - 1 : Contents'[i] = buffer[At(i)]
  <2>1. ContentsShape'
    BY ContentsFacts, PTL
  <2>2. ASSUME NEW i \in 1 .. n - 1
        PROVE  (Add(read_index, 1) + (i - 1)) % RingSize = At(i)
    <3>1. i - 1 \in Nat /\ (i - 1) + 1 = i
      BY <1>0
    <3> QED
      BY <1>0, <3>1, ReadSlots
  <2> QED
    BY <1>0, <2>1, <2>2 DEF ContentsShape
<1>3. Contents # <<>>
  BY <1>0, <1>1, EmptySeq
<1>4. buffer[Masked(read_index)] = Head(Contents)
  <2>1. Head(Contents) = Contents[1] /\ 1 \in 1 .. n
    BY <1>0, <1>1, <1>3
  <2>2. read_index + (1 - 1) = read_index
    BY <1>0
  <2> QED
    BY <1>1, <2>1, <2>2 DEF Masked, RingSize
<1>5. /\ Tail(Contents) \in Seq(Byte) /\ Len(Tail(Contents)) = n - 1
      /\ \A i \in 1 .. n - 1 : Tail(Contents)[i] = Contents[i + 1]
  BY <1>1, <1>3, HeadTailProperties
<1>6. ASSUME NEW i \in 1 .. n - 1 PROVE Contents'[i] = Tail(Contents)[i]
  <2>1. i + 1 \in 1 .. n /\ (i + 1) - 1 = i
    BY <1>0
  <2> QED
    BY <1>1, <1>2, <1>5, <2>1
<1> HIDE DEF n
<1> QED
  BY <1>2, <1>3, <1>4, <1>5, <1>6, SeqEqual

-----------------------------------------------------------------------------
(* The deinitialised ring is the FIFO of capacity 0. *)
LEMMA InitRefines ==
  ASSUME FastConstants
  PROVE  Init => Fifo!Init
<1> SUFFICES ASSUME Init PROVE Fifo!Init
  OBVIOUS
<1>1. fast_circular_buffer_get_count = 0
  <2>1. SizeMod \in Nat \ {0}
    BY DEF FastConstants, IsPowerOf2
  <2> QED
    BY <2>1, EqualCounters DEF Init, fast_circular_buffer_get_count
<1>2. Contents = <<>>
  BY <1>1 DEF Contents
<1> QED
  BY <1>2 DEF Init, Fifo!Init, Fifo!ERR_NONE

(* A ring whose fields stay holds the same bytes. *)
LEMMA SameContents ==
  ASSUME UNCHANGED <<buffer, size_mask, read_index, write_index>>
  PROVE  Contents' = Contents
  BY DEF Contents, fast_circular_buffer_get_count, Sub, Masked, Add

(* A ring with both counters at 0 holds none. *)
LEMMA ResetContents ==
  ASSUME FastConstants, read_index' = 0, write_index' = 0
  PROVE  Contents' = <<>>
<1>1. fast_circular_buffer_get_count' = 0
  <2>1. SizeMod \in Nat \ {0}
    BY DEF FastConstants, IsPowerOf2
  <2> QED
    BY <2>1, EqualCounters DEF fast_circular_buffer_get_count
<1> QED
  BY <1>1 DEF Contents

(* Every call of the ring is the FIFO's operation of the same name. *)
LEMMA NextRefines ==
  ASSUME FastConstants
  PROVE  IInv /\ IInv' /\ [Next]_vars => [Fifo!Next]_Fifo!vars
<1> SUFFICES ASSUME IInv, IInv', [Next]_vars PROVE [Fifo!Next]_Fifo!vars
  OBVIOUS
<1> USE DEF Fifo!ERR_NONE, Fifo!ERR_NO_MEM, Fifo!ERR_INVALID_ARG, Fifo!ERR_EMPTY
<1>0. /\ RingShape /\ Count \in 0 .. RingSize /\ RingSize \in Nat \ {0}
      /\ size_mask = RingSize - 1 /\ MaxSize \in Nat
      /\ Contents \in Seq(Byte) /\ Len(Contents) = Count
  BY RingFacts, ContentsFacts DEF RingShape, ContentsShape
<1>e. Count = 0 <=> Contents = <<>>
  BY <1>0, EmptySeq
<1>1. ASSUME NEW n \in 0 .. MaxSize, fast_circular_buffer_init(n)
      PROVE  Fifo!Accept(n) \/ Fifo!Reject(n)
  <2>0. ValidConfig(n) <=> n \in {m \in 2 .. MaxSize : IsPowerOf2(m)}
    BY <1>0 DEF ValidConfig
  <2>1. CASE ~ValidConfig(n)
    <3>1. /\ ret' = ERR_INVALID_ARG
          /\ UNCHANGED <<buffer, size_mask, read_index, write_index, out>>
      BY <1>1, <2>1 DEF fast_circular_buffer_init
    <3> QED
      BY <2>0, <2>1, <3>1, SameContents DEF Fifo!Reject
  <2>2. CASE ValidConfig(n)
    <3>1. /\ size_mask' = n - 1 /\ read_index' = 0 /\ write_index' = 0
          /\ ret' = ERR_NONE /\ out' = out /\ n >= 2 /\ n \in Nat
      BY <1>0, <1>1, <2>2 DEF fast_circular_buffer_init, ValidConfig
    <3>2. (IF size_mask' = 0 THEN 0 ELSE size_mask' + 1) = n
      BY <3>1
    <3>3. Contents' = <<>>
      BY <3>1, ResetContents
    <3> QED
      BY <2>0, <2>2, <3>1, <3>2, <3>3 DEF Fifo!Accept
  <2> QED
    BY <2>1, <2>2
<1>2. ASSUME fast_circular_buffer_deinit PROVE Fifo!Deinit
  <2>1. size_mask' = 0 /\ read_index' = 0 /\ write_index' = 0 /\ UNCHANGED <<out, ret>>
    BY <1>2 DEF fast_circular_buffer_deinit
  <2>2. Contents' = <<>>
    BY <2>1, ResetContents
  <2> QED
    BY <2>1, <2>2 DEF Fifo!Deinit
<1>3. ASSUME NEW b \in Byte, fast_circular_buffer_push_byte(b)
      PROVE  Fifo!Push(b) \/ Fifo!PushRefused
  <2>1. CASE size_mask = 0
    <3>1. /\ ret' = ERR_NO_MEM
          /\ UNCHANGED <<buffer, size_mask, read_index, write_index, out>>
      BY <1>3, <2>1 DEF fast_circular_buffer_push_byte
    <3> QED
      BY <2>1, <3>1, SameContents DEF Fifo!PushRefused
  <2>2. CASE size_mask # 0
    <3>1. /\ buffer' = [buffer EXCEPT ![Masked(write_index)] = b]
          /\ read_index' = IF Overwrites THEN Sub(write_index, size_mask) ELSE read_index
          /\ write_index' = Add(write_index, 1)
          /\ ret' = ERR_NONE /\ UNCHANGED <<size_mask, out>>
      BY <1>3, <2>2 DEF fast_circular_buffer_push_byte
    <3>2. read_index' = IF Count = RingSize THEN Add(read_index, 1) ELSE read_index
      BY <1>0, <3>1, NextCounters
    <3>3. Count' = IF Count = RingSize THEN Count ELSE Count + 1
      BY <1>0, <3>1, <3>2, PushCount
    <3>4. (IF size_mask = 0 THEN 0 ELSE size_mask + 1) = RingSize
      BY <2>2 DEF RingSize
    <3>5. CASE Count = RingSize
      <4>1. Contents' = Append(Tail(Contents), b)
        BY <3>1, <3>2, <3>3, <3>5, PushOverwrites
      <4> QED
        BY <1>0, <2>2, <3>1, <3>4, <3>5, <4>1 DEF Fifo!Push
    <3>6. CASE Count # RingSize
      <4>1. Contents' = Append(Contents, b)
        BY <3>1, <3>2, <3>3, <3>6, PushAppends
      <4> QED
        BY <1>0, <2>2, <3>1, <3>4, <3>6, <4>1 DEF Fifo!Push
    <3> QED
      BY <3>5, <3>6
  <2> QED
    BY <2>1, <2>2
<1>4. ASSUME fast_circular_buffer_pop_byte PROVE Fifo!Pop \/ Fifo!PopRefused
  <2>1. CASE Count = 0
    <3>1. /\ ret' = ERR_EMPTY
          /\ UNCHANGED <<buffer, size_mask, read_index, write_index, out>>
      BY <1>4, <2>1 DEF fast_circular_buffer_pop_byte, Count
    <3> QED
      BY <1>e, <2>1, <3>1, SameContents DEF Fifo!PopRefused
  <2>2. CASE Count # 0
    <3>1. /\ out' = buffer[Masked(read_index)] /\ read_index' = Add(read_index, 1)
          /\ ret' = ERR_NONE /\ UNCHANGED <<buffer, size_mask, write_index>>
      BY <1>4, <2>2 DEF fast_circular_buffer_pop_byte, Count
    <3>2. Count' = Count - 1
      BY <1>0, <2>2, <3>1, PopCount
    <3>3. /\ Contents # <<>> /\ buffer[Masked(read_index)] = Head(Contents)
          /\ Contents' = Tail(Contents)
      BY <2>2, <3>1, <3>2, PopTakesHead
    <3> QED
      BY <3>1, <3>3 DEF Fifo!Pop
  <2> QED
    BY <2>1, <2>2
<1>5. ASSUME UNCHANGED vars PROVE UNCHANGED Fifo!vars
  BY <1>5, SameContents DEF vars, Fifo!vars
<1> QED
  BY <1>1, <1>2, <1>3, <1>4, <1>5 DEF Next, Fifo!Next

(***************************************************************************)
(* fast_circular_buffer.c implements the overwriting FIFO for every width  *)
(* of size_t and every array: no wrap of a counter loses, repeats or       *)
(* reorders a byte.                                                        *)
(***************************************************************************)
THEOREM FastRefinesFifo ==
  ASSUME FastConstants
  PROVE  Spec => FastImplementsFifo
  BY FastInductive, InitRefines, NextRefines, PTL
  DEF Spec, FastImplementsFifo, Fifo!Spec
=============================================================================
