--------------------------- MODULE IndexArithmetic ---------------------------
(***************************************************************************)
(* Facts about row-major indices, division and remainders, for the proofs  *)
(* about planes, chunks and the turn of images.                            *)
(***************************************************************************)
EXTENDS Integers, TLAPS

LEMMA MulMonotone ==
  ASSUME NEW a \in Nat, NEW b \in Nat, NEW c \in Nat, a <= b
  PROVE  a * c <= b * c
<1>1. PICK d \in Nat : b = a + d
  <2>1. b - a \in Nat /\ b = a + (b - a)
    OBVIOUS
  <2> QED
    BY <2>1
<1>2. b * c = a * c + d * c
  BY <1>1
<1>3. d * c \in Nat /\ a * c \in Nat
  OBVIOUS
<1> QED
  BY <1>2, <1>3

\* A row-major index is inside the rows.
LEMMA IndexInside ==
  ASSUME NEW w \in Nat, NEW h \in Nat, NEW i \in 0..w - 1, NEW j \in 0..h - 1
  PROVE  /\ j * w + i \in 0..w * h - 1
         /\ j * w + i + 1 <= w * h
<1>1. (j + 1) * w <= h * w
  BY MulMonotone
<1>2. (j + 1) * w = j * w + w /\ h * w = w * h
  OBVIOUS
<1>3. j * w \in Nat /\ w * h \in Nat
  OBVIOUS
<1> QED
  BY <1>1, <1>2, <1>3

\* It belongs to one column and one row.
LEMMA IndexUnique ==
  ASSUME NEW w \in Nat, NEW i \in 0..w - 1, NEW j \in Nat,
         NEW k \in 0..w - 1, NEW l \in Nat, j * w + i = l * w + k
  PROVE  i = k /\ j = l
<1>1. ~(j < l)
  <2> SUFFICES ASSUME j < l PROVE FALSE
    OBVIOUS
  <2>1. (j + 1) * w <= l * w
    BY MulMonotone
  <2>2. (j + 1) * w = j * w + w
    OBVIOUS
  <2>3. j * w \in Nat /\ l * w \in Nat
    OBVIOUS
  <2> QED
    BY <2>1, <2>2, <2>3
<1>2. ~(l < j)
  <2> SUFFICES ASSUME l < j PROVE FALSE
    OBVIOUS
  <2>1. (l + 1) * w <= j * w
    BY MulMonotone
  <2>2. (l + 1) * w = l * w + w
    OBVIOUS
  <2>3. j * w \in Nat /\ l * w \in Nat
    OBVIOUS
  <2> QED
    BY <2>1, <2>2, <2>3
<1>3. j = l
  BY <1>1, <1>2
<1>4. j * w \in Nat
  OBVIOUS
<1> QED
  BY <1>3, <1>4

LEMMA Division ==
  ASSUME NEW k \in Nat, NEW c \in Nat \ {0}
  PROVE  /\ k \div c \in Nat
         /\ (k \div c) * c <= k
         /\ k < (k \div c) * c + c
OBVIOUS

\* Rounding up leaves no byte without a chunk.
LEMMA ChunkOfByte ==
  ASSUME NEW n \in Nat, NEW k \in 0..n - 1, NEW c \in Nat \ {0}
  PROVE  /\ k \div c \in 0..(n + c - 1) \div c - 1
         /\ k - (k \div c) * c \in 0..c - 1
         /\ k - (k \div c) * c < n - (k \div c) * c
<1> DEFINE q == k \div c
           t == (n + c - 1) \div c
<1>1. q \in Nat /\ q * c <= k /\ k < q * c + c
  BY Division
<1>2. t \in Nat /\ n + c - 1 < t * c + c
  <2>1. n + c - 1 \in Nat
    OBVIOUS
  <2> QED
    BY <2>1, Division
<1>3. q < t
  <2> SUFFICES ASSUME t <= q PROVE FALSE
    BY <1>1, <1>2
  <2>1. t * c <= q * c
    BY <1>1, <1>2, MulMonotone
  <2>2. t * c \in Nat /\ q * c \in Nat
    BY <1>1, <1>2
  <2> HIDE DEF q, t
  <2> QED
    BY <1>1, <1>2, <2>1, <2>2
<1>4. q * c \in Nat
  BY <1>1
<1> HIDE DEF q, t
<1>5. q \in 0..t - 1 /\ k - q * c \in 0..c - 1 /\ k - q * c < n - q * c
  BY <1>1, <1>2, <1>3, <1>4
<1> QED
  BY <1>5 DEF q, t

\* A chunk that is sent has a byte.
LEMMA ChunkHasByte ==
  ASSUME NEW n \in Nat, NEW c \in Nat \ {0}, NEW i \in Nat, i < (n + c - 1) \div c
  PROVE  i * c \in 0..n - 1
<1> DEFINE t == (n + c - 1) \div c
<1>1. t \in Nat /\ t * c <= n + c - 1
  <2>1. n + c - 1 \in Nat
    OBVIOUS
  <2> QED
    BY <2>1, Division
<1> HIDE DEF t
<1>2. (i + 1) * c <= t * c
  <2>1. i + 1 <= t
    BY <1>1 DEF t
  <2> QED
    BY <1>1, <2>1, MulMonotone
<1>3. (i + 1) * c = i * c + c /\ i * c \in Nat /\ t * c \in Nat
  BY <1>1
<1> QED
  BY <1>1, <1>2, <1>3

\* Something to send is at least one chunk.
LEMMA AtLeastOneChunk ==
  ASSUME NEW n \in Nat \ {0}, NEW c \in Nat \ {0}
  PROVE  (n + c - 1) \div c \in Nat \ {0}
<1>1. 0 \in 0..n - 1 /\ 0 \div c = 0
  OBVIOUS
<1> QED
  BY <1>1, ChunkOfByte

LEMMA HalfEven ==
  ASSUME NEW n \in Nat, n % 2 = 0
  PROVE  n \div 2 \in Nat /\ n = 2 * (n \div 2)
OBVIOUS

\* The remainder is the column of the index.
LEMMA RemainderUnique ==
  ASSUME NEW n \in Nat, NEW c \in Nat \ {0}, NEW q \in Nat, NEW r \in 0..c - 1, n = q * c + r
  PROVE  n % c = r
<1>1. PICK d \in Nat, s \in 0..c - 1 : n = d * c + s /\ s = n % c
  <2>1. n \div c \in Nat /\ n % c \in 0..c - 1 /\ n = (n \div c) * c + (n % c)
    OBVIOUS
  <2> QED
    BY <2>1
<1>2. d * c + s = q * c + r
  BY <1>1
<1>3. s = r
  BY <1>2, IndexUnique
<1> QED
  BY <1>1, <1>3

\* Counting on in a circle is counting on, in a circle.
LEMMA RemainderStep ==
  ASSUME NEW n \in Nat, NEW c \in Nat \ {0}
  PROVE  ((n % c) + 1) % c = (n + 1) % c
<1> DEFINE r == n % c
           q == n \div c
<1>1. q \in Nat /\ r \in 0..c - 1 /\ n = q * c + r
  OBVIOUS
<1> HIDE DEF q, r
<1>2. CASE r + 1 < c
  <2>1. (r + 1) % c = r + 1
    BY <1>1, <1>2
  <2>2. n + 1 = q * c + (r + 1) /\ r + 1 \in 0..c - 1 /\ n + 1 \in Nat
    BY <1>1, <1>2
  <2>3. (n + 1) % c = r + 1
    BY <1>1, <2>2, RemainderUnique
  <2> QED
    BY <2>1, <2>3 DEF r
<1>3. CASE r + 1 = c
  <2>1. (r + 1) % c = 0
    BY <1>3
  <2>2. n + 1 = (q + 1) * c + 0 /\ 0 \in 0..c - 1 /\ q + 1 \in Nat /\ n + 1 \in Nat
    BY <1>1, <1>3
  <2>3. (n + 1) % c = 0
    BY <2>2, RemainderUnique
  <2> QED
    BY <2>1, <2>3 DEF r
<1>4. r + 1 < c \/ r + 1 = c
  BY <1>1
<1> QED
  BY <1>2, <1>3, <1>4
=============================================================================
