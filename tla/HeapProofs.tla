----------------------------- MODULE HeapProofs -----------------------------
(***************************************************************************)
(* Proofs about Heap for every size of memory, header and alignment and    *)
(* every set of requests.  The inductive invariant HInv says of the list   *)
(* that it tiles the memory and is in the order of addresses, so that an   *)
(* address names one block; of what the callers hold that it is exactly    *)
(* the blocks in use; and of each loop how far it has merged.              *)
(***************************************************************************)
EXTENDS Heap, SequenceTheorems, FiniteSetTheorems, WellFoundedInduction, TLAPS

Block == [at : Addresses, size : Nat, free : BOOLEAN]

At(s, k)    == s[k].at
Size(s, k)  == s[k].size
Free(s, k)  == s[k].free
EndAt(s, k) == At(s, k) + HDR + Size(s, k)

\* block j of t is block i of s
Same(t, j, s, i) == At(t, j) = At(s, i) /\ Size(t, j) = Size(s, i) /\ Free(t, j) = Free(s, i)

Fields(s) ==
    \A k \in 1 .. Len(s) : /\ At(s, k) \in Nat /\ At(s, k) >= CTX /\ At(s, k) < SIZE
                           /\ Size(s, k) \in Nat
                           /\ Free(s, k) \in BOOLEAN

\* the list covers the memory, block behind block
Tiles(s) ==
    /\ At(s, 1) = CTX
    /\ \A k \in 1 .. Len(s) - 1 : EndAt(s, k) = At(s, k + 1)
    /\ EndAt(s, Len(s)) = SIZE

Aligned(s) == \A k \in 1 .. Len(s) : Size(s, k) % ALIGNMENT = 0

\* what Tiles says of neighbours, of any two
Ordered(s) == \A j, k \in 1 .. Len(s) : j < k => EndAt(s, j) <= At(s, k)

BlockList(s) ==
    s \in Seq(Block) /\ Len(s) > 0 /\ Fields(s) /\ Tiles(s) /\ Aligned(s) /\ Ordered(s)

\* no two free neighbours among the first n
MergedTo(s, n) == \A k \in 1 .. n - 1 : ~ (Free(s, k) /\ Free(s, k + 1))

\* f is what the callers hold of s
Holds(s, f) ==
    /\ DOMAIN f = {At(s, k) : k \in {j \in 1 .. Len(s) : ~ Free(s, j)}}
    /\ \A k \in 1 .. Len(s) : ~ Free(s, k) => f[At(s, k)] \in Nat /\ f[At(s, k)] <= Size(s, k)

HInv ==
    /\ BlockList(blocks)
    /\ Holds(blocks, live)
    /\ pc \in {"idle", "combine", "grow"}
    /\ iter \in 0 .. Len(blocks) /\ want \in Nat
    /\ IF pc = "combine" THEN iter > 0 ELSE iter = 0
    /\ pc = "grow" => grown \in DOMAIN live
    /\ MergedTo(blocks, IF pc = "combine" THEN iter ELSE Len(blocks))

-----------------------------------------------------------------------------
(* Arithmetic of the alignment.                                            *)

(* The constants, as numbers.                                              *)
LEMMA Constants ==
    /\ SIZE \in Nat /\ CTX \in Nat /\ HDR \in Nat /\ ALIGNMENT \in Nat
    /\ CTX > 0 /\ HDR > 0 /\ ALIGNMENT > 0
    /\ SIZE > CTX + HDR
BY HeapAssumption

(* A multiple leaves no remainder.                                         *)
LEMMA MultipleOf == ASSUME NEW x \in Int PROVE (ALIGNMENT * x) % ALIGNMENT = 0
BY Constants

(* Sums and differences of multiples of ALIGNMENT are multiples of it.     *)
LEMMA AlignedSums ==
    ASSUME NEW m \in Nat, NEW n \in Nat, m % ALIGNMENT = 0, n % ALIGNMENT = 0
    PROVE  /\ (m + n) % ALIGNMENT = 0
           /\ m >= n => (m - n) % ALIGNMENT = 0
<1> DEFINE q == m \div ALIGNMENT
           r == n \div ALIGNMENT
<1>1. q \in Int /\ r \in Int /\ m = ALIGNMENT * q /\ n = ALIGNMENT * r
  BY Constants
<1> HIDE DEF q, r
<1>3. m + n = ALIGNMENT * (q + r) /\ m - n = ALIGNMENT * (q - r)
  BY <1>1, Constants
<1>4. q + r \in Int /\ q - r \in Int
  BY <1>1
<1> QED BY <1>3, <1>4, MultipleOf

(* ALIGN rounds up to a multiple of ALIGNMENT.                             *)
LEMMA AlignUp ==
    ASSUME NEW n \in Nat
    PROVE  ALIGN(n) \in Nat /\ ALIGN(n) >= n /\ ALIGN(n) % ALIGNMENT = 0
<1> DEFINE q == (n + ALIGNMENT - 1) \div ALIGNMENT
           r == (n + ALIGNMENT - 1) % ALIGNMENT
<1>1. /\ q \in Nat /\ r \in 0 .. ALIGNMENT - 1
      /\ n + ALIGNMENT - 1 = ALIGNMENT * q + r
  BY Constants
<1>2. ALIGN(n) = q * ALIGNMENT
  BY DEF ALIGN
<1> HIDE DEF q, r
<1>3. q * ALIGNMENT = ALIGNMENT * q /\ q * ALIGNMENT \in Nat
  BY <1>1, Constants
<1>4. (ALIGNMENT * q) % ALIGNMENT = 0
  BY <1>1, MultipleOf
<1> QED BY <1>1, <1>2, <1>3, <1>4, Constants

-----------------------------------------------------------------------------
(* The list under the operations of Heap.                                  *)

(* The fields of the blocks of a typed list.                               *)
LEMMA FieldsOfSeq ==
    ASSUME NEW s \in Seq(Block)
    PROVE  Len(s) \in Nat /\ Fields(s)
<1>1. ASSUME NEW k \in 1 .. Len(s)
      PROVE  /\ At(s, k) \in Addresses
             /\ Size(s, k) \in Nat
             /\ Free(s, k) \in BOOLEAN
  <2>1. s[k] \in Block
    BY ElementOfSeq
  <2> QED BY <2>1 DEF Block, At, Size, Free
<1>2. ASSUME NEW k \in 1 .. Len(s)
      PROVE  At(s, k) \in Nat /\ At(s, k) >= CTX /\ At(s, k) < SIZE
  <2> DEFINE a == At(s, k)
  <2>1. a \in CTX .. SIZE - 1
    BY <1>1 DEF Addresses
  <2> HIDE DEF a
  <2>2. a \in Nat /\ a >= CTX /\ a < SIZE
    BY <2>1, Constants
  <2> QED BY <2>2 DEF a
<1>3. Fields(s)
  BY <1>1, <1>2 DEF Fields
<1> QED BY <1>3, LenProperties

(* In a list in the order of addresses an address names one block.         *)
LEMMA OneBlockAt ==
    ASSUME NEW s, BlockList(s), NEW j \in 1 .. Len(s), NEW k \in 1 .. Len(s),
           At(s, j) = At(s, k)
    PROVE  j = k
<1>1. Len(s) \in Nat /\ Fields(s) /\ Ordered(s)
  BY FieldsOfSeq DEF BlockList
<1>2. ASSUME NEW m \in 1 .. Len(s), NEW n \in 1 .. Len(s), m < n
      PROVE  At(s, m) < At(s, n)
  BY <1>1, <1>2, Constants DEF Ordered, Fields, EndAt
<1> QED BY <1>1, <1>2 DEF Fields

(* rm_is_ptr_valid finds the block whose pointer is looked for.            *)
LEMMA IndexOfBlock ==
    ASSUME NEW s, BlockList(s), NEW k \in 1 .. Len(s)
    PROVE  IndexOf(s, At(s, k)) = k
<1>1. \A j \in 1 .. Len(s) : s[j].at = s[k].at => j = k
  BY OneBlockAt DEF At
<1> QED BY <1>1 DEF IndexOf, At

(* Absorb: the list is one shorter, block k ends where its neighbour did.  *)
LEMMA AbsorbElements ==
    ASSUME NEW s \in Seq(Block), NEW k \in 1 .. Len(s) - 1
    PROVE  LET t == Absorb(s, k)
           IN  /\ t \in Seq(Block)
               /\ Len(t) = Len(s) - 1
               /\ \A j \in 1 .. k - 1 : Same(t, j, s, j)
               /\ At(t, k) = At(s, k) /\ Free(t, k) = Free(s, k)
               /\ Size(t, k) = Size(s, k) + HDR + Size(s, k + 1)
               /\ \A j \in k + 1 .. Len(s) - 1 : Same(t, j, s, j + 1)
<1> DEFINE b == [at |-> s[k].at, size |-> s[k].size + HDR + s[k + 1].size, free |-> s[k].free]
           x == SubSeq(s, 1, k - 1)
           y == SubSeq(s, k + 2, Len(s))
<1>0. Len(s) \in Nat /\ k \in Nat /\ k + 1 \in 1 .. Len(s)
  BY LenProperties
<1>a. s[k] \in Block /\ s[k + 1] \in Block
  BY <1>0, ElementOfSeq
<1>1. b \in Block
  <2>1. s[k].at \in Addresses /\ s[k].size \in Nat /\ s[k].free \in BOOLEAN /\ s[k + 1].size \in Nat
    BY <1>a DEF Block
  <2>2. s[k].size + HDR + s[k + 1].size \in Nat
    BY <2>1, Constants
  <2> QED BY <2>1, <2>2 DEF Block
<1>2. [s[k] EXCEPT !.size = @ + HDR + s[k + 1].size] = b
  BY <1>a DEF Block
<1>3. /\ x \in Seq(Block) /\ Len(x) = k - 1
      /\ \A j \in 1 .. k - 1 : x[j] = s[j]
  BY <1>0, ElementOfSeq, SubSeqProperties
<1>4. /\ y \in Seq(Block) /\ Len(y) = Len(s) - k - 1
      /\ \A j \in 1 .. Len(s) - k - 1 : y[j] = s[k + 1 + j]
  <2>1. \A j \in k + 2 .. Len(s) : s[j] \in Block
    BY <1>0, ElementOfSeq
  <2>2. /\ y \in Seq(Block)
        /\ Len(y) = IF k + 2 <= Len(s) THEN Len(s) - (k + 2) + 1 ELSE 0
        /\ \A j \in 1 .. Len(s) - (k + 2) + 1 : y[j] = s[k + 2 + j - 1]
    BY <1>0, <2>1, SubSeqProperties
  <2> QED BY <1>0, <2>2
<1> HIDE DEF b, x, y
<1>5. /\ <<b>> \in Seq(Block) /\ Len(<<b>>) = 1 /\ <<b>>[1] = b
  BY <1>1
<1>6. /\ x \o <<b>> \in Seq(Block)
      /\ Len(x \o <<b>>) = k
      /\ \A j \in 1 .. k - 1 : (x \o <<b>>)[j] = s[j]
      /\ (x \o <<b>>)[k] = b
  <2>1. /\ x \o <<b>> \in Seq(Block)
        /\ Len(x \o <<b>>) = Len(x) + Len(<<b>>)
        /\ \A i \in 1 .. Len(x) + Len(<<b>>) :
              (x \o <<b>>)[i] = IF i <= Len(x) THEN x[i] ELSE <<b>>[i - Len(x)]
    BY <1>3, <1>5, ConcatProperties
  <2> QED BY <1>0, <1>3, <1>5, <2>1
<1> DEFINE z == x \o <<b>>
<1>7. Absorb(s, k) = z \o y
  BY <1>2 DEF Absorb, x, y
<1>10. /\ z \in Seq(Block) /\ Len(z) = k
       /\ \A j \in 1 .. k - 1 : z[j] = s[j]
       /\ z[k] = b
  BY <1>6
<1> HIDE DEF z
<1>8. /\ z \o y \in Seq(Block)
      /\ Len(z \o y) = Len(s) - 1
      /\ \A i \in 1 .. Len(s) - 1 : (z \o y)[i] = IF i <= k THEN z[i] ELSE y[i - k]
  <2>1. /\ z \o y \in Seq(Block)
        /\ Len(z \o y) = Len(z) + Len(y)
        /\ \A i \in 1 .. Len(z) + Len(y) : (z \o y)[i] = IF i <= Len(z) THEN z[i] ELSE y[i - Len(z)]
    BY <1>4, <1>10, ConcatProperties
  <2> QED BY <1>0, <1>4, <1>10, <2>1
<1>9. /\ \A j \in 1 .. k - 1 : (z \o y)[j] = s[j]
      /\ (z \o y)[k] = b
      /\ \A j \in k + 1 .. Len(s) - 1 : (z \o y)[j] = s[j + 1]
  <2>1. ASSUME NEW j \in 1 .. k - 1 PROVE (z \o y)[j] = s[j]
    BY <1>0, <1>8, <1>10
  <2>2. (z \o y)[k] = b
    BY <1>0, <1>8, <1>10
  <2>3. ASSUME NEW j \in k + 1 .. Len(s) - 1 PROVE (z \o y)[j] = s[j + 1]
    <3>1. (z \o y)[j] = y[j - k]
      BY <1>0, <1>8
    <3>2. j - k \in 1 .. Len(s) - k - 1 /\ k + 1 + (j - k) = j + 1
      BY <1>0
    <3> QED BY <3>1, <3>2, <1>4
  <2> QED BY <2>1, <2>2, <2>3
<1>11. At(z \o y, k) = At(s, k) /\ Free(z \o y, k) = Free(s, k)
       /\ Size(z \o y, k) = Size(s, k) + HDR + Size(s, k + 1)
  BY <1>9 DEF b, At, Free, Size
<1>12. /\ \A j \in 1 .. k - 1 : Same(z \o y, j, s, j)
       /\ \A j \in k + 1 .. Len(s) - 1 : Same(z \o y, j, s, j + 1)
  BY <1>9 DEF Same, At, Free, Size
<1> QED BY <1>7, <1>8, <1>11, <1>12

(* Absorb keeps the memory tiled.                                          *)
LEMMA AbsorbKeepsList ==
    ASSUME NEW s, BlockList(s), NEW k \in 1 .. Len(s) - 1
    PROVE  BlockList(Absorb(s, k))
<1> DEFINE t == Absorb(s, k)
<1>0. /\ s \in Seq(Block) /\ Len(s) \in Nat /\ k \in Nat
      /\ Fields(s) /\ Tiles(s) /\ Aligned(s) /\ Ordered(s)
  BY FieldsOfSeq DEF BlockList
<1>1. /\ t \in Seq(Block)
      /\ Len(t) = Len(s) - 1
      /\ \A j \in 1 .. k - 1 : Same(t, j, s, j)
      /\ At(t, k) = At(s, k) /\ Free(t, k) = Free(s, k)
      /\ Size(t, k) = Size(s, k) + HDR + Size(s, k + 1)
      /\ \A j \in k + 1 .. Len(s) - 1 : Same(t, j, s, j + 1)
  BY <1>0, AbsorbElements
<1> HIDE DEF t
<1>2. Fields(t)
  BY <1>1, FieldsOfSeq
<1>3. EndAt(t, k) = EndAt(s, k + 1)
  <2>1. /\ At(s, k) \in Nat /\ Size(s, k) \in Nat
        /\ At(s, k + 1) \in Nat /\ Size(s, k + 1) \in Nat
    BY <1>0 DEF Fields
  <2>2. At(s, k) + HDR + Size(s, k) = At(s, k + 1)
    BY <1>0 DEF Tiles, EndAt
  <2> QED BY <1>1, <2>1, <2>2, Constants DEF EndAt
<1>4. /\ \A j \in 1 .. k - 1 : EndAt(t, j) = EndAt(s, j)
      /\ \A j \in k + 1 .. Len(s) - 1 : EndAt(t, j) = EndAt(s, j + 1)
  BY <1>1 DEF EndAt, Same
<1>5. Tiles(t)
  <2>1. At(t, 1) = CTX
    BY <1>0, <1>1 DEF Tiles, Same
  <2>2. ASSUME NEW j \in 1 .. Len(t) - 1
        PROVE  EndAt(t, j) = At(t, j + 1)
    BY <1>0, <1>1, <1>3, <1>4 DEF Tiles, Same
  <2>3. EndAt(t, Len(t)) = SIZE
    BY <1>0, <1>1, <1>3, <1>4 DEF Tiles, Same
  <2> QED BY <2>1, <2>2, <2>3 DEF Tiles
<1>6. Aligned(t)
  <2>1. Size(t, k) % ALIGNMENT = 0
    <3>1. Size(s, k) \in Nat /\ Size(s, k + 1) \in Nat
      BY <1>0 DEF Fields
    <3>2. Size(s, k) % ALIGNMENT = 0 /\ Size(s, k + 1) % ALIGNMENT = 0 /\ HDR % ALIGNMENT = 0
      BY <1>0, HeapAssumption DEF Aligned
    <3>3. HDR \in Nat /\ Size(s, k) + HDR \in Nat
      BY <3>1, Constants
    <3>4. (Size(s, k) + HDR) % ALIGNMENT = 0
      BY <3>1, <3>2, <3>3, AlignedSums, Zenon
    <3> QED BY <1>1, <3>1, <3>2, <3>3, <3>4, AlignedSums
  <2> QED BY <1>0, <1>1, <2>1 DEF Aligned, Same
<1>7. Ordered(t)
  BY <1>0, <1>1, <1>3, <1>4 DEF Ordered, Same
<1> QED BY <1>0, <1>1, <1>2, <1>5, <1>6, <1>7 DEF BlockList, t

(* Cut: block k keeps n bytes, a free block behind it has the others.      *)
LEMMA CutElements ==
    ASSUME NEW s \in Seq(Block), NEW k \in 1 .. Len(s), NEW n \in Nat,
           At(s, k) + HDR + n < SIZE, n + HDR <= Size(s, k)
    PROVE  LET t == Cut(s, k, n)
           IN  /\ t \in Seq(Block)
               /\ Len(t) = Len(s) + 1
               /\ \A j \in 1 .. k - 1 : Same(t, j, s, j)
               /\ At(t, k) = At(s, k) /\ Size(t, k) = n /\ Free(t, k) = Free(s, k)
               /\ At(t, k + 1) = At(s, k) + HDR + n
               /\ Size(t, k + 1) = Size(s, k) - n - HDR
               /\ Free(t, k + 1)
               /\ \A j \in k + 2 .. Len(s) + 1 : Same(t, j, s, j - 1)
<1> DEFINE b == [at |-> At(s, k), size |-> n, free |-> Free(s, k)]
           c == [at |-> At(s, k) + HDR + n, size |-> Size(s, k) - n - HDR, free |-> TRUE]
           x == SubSeq(s, 1, k - 1)
           y == SubSeq(s, k + 1, Len(s))
<1>0. Len(s) \in Nat /\ k \in Nat
  BY LenProperties
<1>a. /\ At(s, k) \in Nat /\ At(s, k) >= CTX /\ At(s, k) < SIZE
      /\ Size(s, k) \in Nat /\ Free(s, k) \in BOOLEAN
  BY FieldsOfSeq DEF Fields
<1>1. b \in Block /\ c \in Block
  <2>1. At(s, k) \in Addresses /\ At(s, k) + HDR + n \in Addresses
    BY <1>a, Constants DEF Addresses
  <2>2. Size(s, k) - n - HDR \in Nat
    BY <1>a, Constants
  <2> QED BY <1>a, <2>1, <2>2 DEF Block
<1>2. [s[k] EXCEPT !.size = n] = b
  <2>1. s[k] \in Block
    BY ElementOfSeq
  <2> QED BY <2>1 DEF Block, At, Free
<1>3. /\ x \in Seq(Block) /\ Len(x) = k - 1
      /\ \A j \in 1 .. k - 1 : x[j] = s[j]
  BY <1>0, ElementOfSeq, SubSeqProperties
<1>4. /\ y \in Seq(Block) /\ Len(y) = Len(s) - k
      /\ \A j \in 1 .. Len(s) - k : y[j] = s[k + j]
  <2>1. \A j \in k + 1 .. Len(s) : s[j] \in Block
    BY <1>0, ElementOfSeq
  <2>2. /\ y \in Seq(Block)
        /\ Len(y) = IF k + 1 <= Len(s) THEN Len(s) - (k + 1) + 1 ELSE 0
        /\ \A j \in 1 .. Len(s) - (k + 1) + 1 : y[j] = s[k + 1 + j - 1]
    BY <1>0, <2>1, SubSeqProperties
  <2> QED BY <1>0, <2>2
<1> HIDE DEF b, c, x, y
<1> DEFINE d == <<b, c>>
<1>5. d \in Seq(Block) /\ Len(d) = 2 /\ d[1] = b /\ d[2] = c
  BY <1>1
<1> DEFINE z == x \o d
<1>6. Cut(s, k, n) = z \o y
  BY <1>2 DEF Cut, x, y, c, At, Size
<1> HIDE DEF d
<1>7. /\ z \in Seq(Block) /\ Len(z) = k + 1
      /\ \A j \in 1 .. k - 1 : z[j] = s[j]
      /\ z[k] = b /\ z[k + 1] = c
  <2>1. /\ z \in Seq(Block)
        /\ Len(z) = Len(x) + Len(d)
        /\ \A i \in 1 .. Len(x) + Len(d) : z[i] = IF i <= Len(x) THEN x[i] ELSE d[i - Len(x)]
    BY <1>3, <1>5, ConcatProperties
  <2> HIDE DEF z
  <2>0. Len(x) + Len(d) = k + 1
    BY <1>0, <1>3, <1>5
  <2>a. \A i \in 1 .. k + 1 : z[i] = IF i <= k - 1 THEN x[i] ELSE d[i - (k - 1)]
    BY <1>3, <2>0, <2>1
  <2>2. ASSUME NEW j \in 1 .. k - 1 PROVE z[j] = s[j]
    <3>1. j \in 1 .. k + 1 /\ j <= k - 1
      BY <1>0
    <3> QED BY <1>3, <2>a, <3>1
  <2>3. z[k] = d[k - (k - 1)] /\ z[k + 1] = d[k + 1 - (k - 1)]
    <3>1. k \in 1 .. k + 1 /\ k + 1 \in 1 .. k + 1 /\ ~ (k <= k - 1) /\ ~ (k + 1 <= k - 1)
      BY <1>0
    <3> QED BY <2>a, <3>1
  <2>4. k - (k - 1) = 1 /\ k + 1 - (k - 1) = 2
    BY <1>0
  <2>5. Len(z) = k + 1
    BY <2>0, <2>1
  <2> QED BY <1>5, <2>1, <2>2, <2>3, <2>4, <2>5
<1> HIDE DEF z
<1>8. /\ z \o y \in Seq(Block)
      /\ Len(z \o y) = Len(s) + 1
      /\ \A i \in 1 .. Len(s) + 1 : (z \o y)[i] = IF i <= k + 1 THEN z[i] ELSE y[i - (k + 1)]
  <2>1. /\ z \o y \in Seq(Block)
        /\ Len(z \o y) = Len(z) + Len(y)
        /\ \A i \in 1 .. Len(z) + Len(y) : (z \o y)[i] = IF i <= Len(z) THEN z[i] ELSE y[i - Len(z)]
    BY <1>4, <1>7, ConcatProperties
  <2> QED BY <1>0, <1>4, <1>7, <2>1
<1>9. /\ \A j \in 1 .. k - 1 : (z \o y)[j] = s[j]
      /\ (z \o y)[k] = b /\ (z \o y)[k + 1] = c
      /\ \A j \in k + 2 .. Len(s) + 1 : (z \o y)[j] = s[j - 1]
  <2>1. ASSUME NEW j \in 1 .. k - 1 PROVE (z \o y)[j] = s[j]
    BY <1>0, <1>7, <1>8
  <2>2. (z \o y)[k] = b /\ (z \o y)[k + 1] = c
    BY <1>0, <1>7, <1>8
  <2>3. ASSUME NEW j \in k + 2 .. Len(s) + 1 PROVE (z \o y)[j] = s[j - 1]
    <3>1. (z \o y)[j] = y[j - (k + 1)]
      BY <1>0, <1>8
    <3>2. j - (k + 1) \in 1 .. Len(s) - k /\ k + (j - (k + 1)) = j - 1
      BY <1>0
    <3> QED BY <3>1, <3>2, <1>4
  <2> QED BY <2>1, <2>2, <2>3
<1>10. /\ At(z \o y, k) = At(s, k) /\ Size(z \o y, k) = n /\ Free(z \o y, k) = Free(s, k)
       /\ At(z \o y, k + 1) = At(s, k) + HDR + n
       /\ Size(z \o y, k + 1) = Size(s, k) - n - HDR
       /\ Free(z \o y, k + 1)
  <2>1. b.at = At(s, k) /\ b.size = n /\ b.free = Free(s, k)
    BY DEF b
  <2>2. c.at = At(s, k) + HDR + n /\ c.size = Size(s, k) - n - HDR /\ c.free = TRUE
    BY DEF c
  <2>3. /\ At(z \o y, k) = b.at /\ Size(z \o y, k) = b.size /\ Free(z \o y, k) = b.free
        /\ At(z \o y, k + 1) = c.at /\ Size(z \o y, k + 1) = c.size /\ Free(z \o y, k + 1) = c.free
    BY <1>9 DEF At, Size, Free
  <2> QED BY <2>1, <2>2, <2>3
<1>11. /\ \A j \in 1 .. k - 1 : Same(z \o y, j, s, j)
       /\ \A j \in k + 2 .. Len(s) + 1 : Same(z \o y, j, s, j - 1)
  BY <1>9 DEF Same, At, Free, Size
<1> QED BY <1>6, <1>8, <1>10, <1>11

(* Cut keeps the memory tiled.                                             *)
LEMMA CutKeepsList ==
    ASSUME NEW s, BlockList(s), NEW k \in 1 .. Len(s), NEW n \in Nat,
           n % ALIGNMENT = 0, n + HDR <= Size(s, k)
    PROVE  /\ BlockList(Cut(s, k, n))
           /\ At(s, k) + HDR + n < SIZE
<1> DEFINE t == Cut(s, k, n)
<1>0. /\ s \in Seq(Block) /\ Len(s) \in Nat /\ k \in Nat
      /\ Fields(s) /\ Tiles(s) /\ Aligned(s) /\ Ordered(s)
  BY FieldsOfSeq DEF BlockList
<1>a. /\ At(s, k) \in Nat /\ Size(s, k) \in Nat
      /\ At(s, k) + HDR + Size(s, k) = EndAt(s, k)
  BY <1>0 DEF Fields, EndAt
<1>1. EndAt(s, k) <= SIZE
  <2>1. CASE k < Len(s)
    BY <1>0, <2>1, Constants DEF Tiles, Fields
  <2>2. CASE k = Len(s)
    BY <1>0, <2>2, Constants DEF Tiles
  <2> QED BY <1>0, <2>1, <2>2
<1>2. At(s, k) + HDR + n < SIZE
  BY <1>a, <1>1, Constants
<1>3. /\ t \in Seq(Block)
      /\ Len(t) = Len(s) + 1
      /\ \A j \in 1 .. k - 1 : Same(t, j, s, j)
      /\ At(t, k) = At(s, k) /\ Size(t, k) = n /\ Free(t, k) = Free(s, k)
      /\ At(t, k + 1) = At(s, k) + HDR + n
      /\ Size(t, k + 1) = Size(s, k) - n - HDR
      /\ Free(t, k + 1)
      /\ \A j \in k + 2 .. Len(s) + 1 : Same(t, j, s, j - 1)
  BY <1>0, <1>2, CutElements
<1> HIDE DEF t
<1>4. Fields(t)
  BY <1>3, FieldsOfSeq
<1>5. EndAt(t, k) = At(t, k + 1) /\ EndAt(t, k + 1) = EndAt(s, k)
  BY <1>3, <1>a, Constants DEF EndAt
<1>6. /\ \A j \in 1 .. k - 1 : EndAt(t, j) = EndAt(s, j)
      /\ \A j \in k + 2 .. Len(s) + 1 : EndAt(t, j) = EndAt(s, j - 1)
  BY <1>3 DEF EndAt, Same
<1>7. Tiles(t)
  <2>1. At(t, 1) = CTX
    BY <1>0, <1>3 DEF Tiles, Same
  <2>2. ASSUME NEW j \in 1 .. Len(t) - 1
        PROVE  EndAt(t, j) = At(t, j + 1)
    BY <1>0, <1>3, <1>5, <1>6 DEF Tiles, Same
  <2>3. EndAt(t, Len(t)) = SIZE
    BY <1>0, <1>3, <1>5, <1>6 DEF Tiles, Same
  <2> QED BY <2>1, <2>2, <2>3 DEF Tiles
<1>8. Aligned(t)
  <2>1. Size(t, k + 1) % ALIGNMENT = 0
    <3>1. Size(s, k) % ALIGNMENT = 0 /\ HDR % ALIGNMENT = 0
      BY <1>0, HeapAssumption DEF Aligned
    <3>2. n + HDR \in Nat /\ (n + HDR) % ALIGNMENT = 0
      <4>1. HDR \in Nat
        BY Constants
      <4> QED BY <3>1, <4>1, AlignedSums
    <3>3. (Size(s, k) - (n + HDR)) % ALIGNMENT = 0
      BY <1>a, <3>1, <3>2, AlignedSums
    <3>4. Size(s, k) - (n + HDR) = Size(s, k) - n - HDR
      BY <1>a, Constants
    <3> QED BY <1>3, <3>3, <3>4
  <2>2. ASSUME NEW j \in 1 .. Len(t) PROVE Size(t, j) % ALIGNMENT = 0
    <3>1. CASE j < k
      BY <1>0, <1>3, <3>1 DEF Aligned, Same
    <3>2. CASE j > k + 1
      BY <1>0, <1>3, <3>2 DEF Aligned, Same
    <3> QED BY <1>0, <1>3, <2>1, <3>1, <3>2
  <2> QED BY <2>2 DEF Aligned
<1>9. Ordered(t)
  <2>1. ASSUME NEW i \in 1 .. Len(t), NEW j \in 1 .. Len(t), i < j
        PROVE  EndAt(t, i) <= At(t, j)
    <3>0. i \in Nat /\ j \in Nat /\ k \in Nat /\ i < j
      BY <1>0, <1>3, <2>1
    <3>1. CASE i < k
      <4>1. EndAt(t, i) = EndAt(s, i) /\ i \in 1 .. Len(s)
        BY <1>0, <1>6, <3>1
      <4>2. EndAt(s, i) <= At(s, k)
        BY <1>0, <3>1, <4>1 DEF Ordered
      <4>3. EndAt(s, i) \in Nat
        BY <1>0, <4>1, Constants DEF EndAt, Fields
      <4>4. CASE j <= k
        BY <1>0, <1>3, <2>1, <4>1, <4>2, <4>4 DEF Ordered, Same
      <4>5. CASE j = k + 1
        BY <1>a, <1>3, <4>1, <4>2, <4>3, <4>5, Constants
      <4>6. CASE j > k + 1
        <5>1. At(t, j) = At(s, j - 1) /\ j - 1 \in 1 .. Len(s) /\ i < j - 1
          BY <1>0, <1>3, <3>1, <4>6 DEF Same
        <5> QED BY <1>0, <4>1, <5>1 DEF Ordered
      <4> QED BY <1>0, <4>4, <4>5, <4>6
    <3>2. CASE i = k
      <4>1. CASE j = k + 1
        BY <1>0, <1>a, <1>3, <1>5, <3>2, <4>1, Constants
      <4>2. CASE j > k + 1
        <5>1. At(t, j) = At(s, j - 1) /\ j - 1 \in 1 .. Len(s) /\ k < j - 1
          BY <1>0, <1>3, <4>2 DEF Same
        <5>2. EndAt(s, k) <= At(s, j - 1) /\ At(s, j - 1) \in Nat
          BY <1>0, <5>1 DEF Ordered, Fields
        <5>3. EndAt(t, k) <= EndAt(s, k)
          <6>1. EndAt(t, k) = At(s, k) + HDR + n
            BY <1>3, <1>5
          <6> QED BY <1>a, <6>1, Constants
        <5>4. EndAt(t, k) \in Nat /\ EndAt(s, k) \in Nat
          <6>1. EndAt(t, k) = At(s, k) + HDR + n
            BY <1>3, <1>5
          <6> QED BY <1>a, <6>1, Constants
        <5>5. EndAt(t, i) <= At(s, j - 1)
          BY <3>2, <5>2, <5>3, <5>4
        <5> QED BY <5>1, <5>5
      <4>3. j = k + 1 \/ j > k + 1
        BY <3>0, <3>2
      <4> QED BY <4>1, <4>2, <4>3
    <3>3. CASE i = k + 1
      BY <1>0, <1>3, <1>5, <1>6, <2>1, <3>3 DEF Ordered, Same
    <3>4. CASE i > k + 1
      <4>1. EndAt(t, i) = EndAt(s, i - 1) /\ At(t, j) = At(s, j - 1)
        BY <1>0, <1>3, <1>6, <3>0, <3>4 DEF Same
      <4>2. i - 1 \in 1 .. Len(s) /\ j - 1 \in 1 .. Len(s) /\ i - 1 < j - 1
        BY <1>0, <1>3, <3>0, <3>4
      <4> QED BY <1>0, <4>1, <4>2 DEF Ordered
    <3>5. i < k \/ i = k \/ i = k + 1 \/ i > k + 1
      BY <3>0
    <3> QED BY <3>1, <3>2, <3>3, <3>4, <3>5
  <2> QED BY <2>1 DEF Ordered
<1> QED BY <1>0, <1>2, <1>3, <1>4, <1>7, <1>8, <1>9 DEF BlockList, t

-----------------------------------------------------------------------------
(* The list and its holders when one block changes.                        *)

\* u is s but for block k, which stays where it was, and for free blocks
OnlyAt(s, u, k) ==
    /\ k \in 1 .. Len(s) /\ k \in 1 .. Len(u)
    /\ At(u, k) = At(s, k)
    /\ \A j \in 1 .. Len(u) : \/ j = k \/ Free(u, j)
                              \/ \E i \in 1 .. Len(s) : i # k /\ Same(u, j, s, i)
    /\ \A i \in 1 .. Len(s) : \/ i = k \/ Free(s, i)
                              \/ \E j \in 1 .. Len(u) : j # k /\ Same(u, j, s, i)

\* no two free neighbours behind block k
MergedBehind(s, k) == \A j \in k + 1 .. Len(s) - 1 : ~ (Free(s, j) /\ Free(s, j + 1))

(* Marking a block changes nothing but the mark.                           *)
LEMMA MarkKeepsList ==
    ASSUME NEW s, BlockList(s), NEW k \in 1 .. Len(s), NEW b \in BOOLEAN
    PROVE  LET t == [s EXCEPT ![k].free = b]
           IN  /\ BlockList(t) /\ Len(t) = Len(s)
               /\ \A j \in 1 .. Len(s) : j # k => Same(t, j, s, j)
               /\ At(t, k) = At(s, k) /\ Size(t, k) = Size(s, k) /\ Free(t, k) = b
               /\ OnlyAt(s, t, k)
<1> DEFINE t == [s EXCEPT ![k].free = b]
           e == [s[k] EXCEPT !.free = b]
<1>0. /\ s \in Seq(Block) /\ Len(s) \in Nat
      /\ Fields(s) /\ Tiles(s) /\ Aligned(s) /\ Ordered(s)
  BY FieldsOfSeq DEF BlockList
<1>1. s[k] \in Block
  BY <1>0, ElementOfSeq
<1>2. e \in Block /\ e.at = At(s, k) /\ e.size = Size(s, k) /\ e.free = b
  BY <1>1 DEF Block, At, Size
<1>3. t = [s EXCEPT ![k] = e]
  OBVIOUS
<1> HIDE DEF t, e
<1>4. /\ t \in Seq(Block) /\ Len(t) = Len(s)
      /\ \A j \in 1 .. Len(s) : t[j] = IF j = k THEN e ELSE s[j]
  BY <1>0, <1>2, <1>3, ExceptSeq
<1>5. /\ \A j \in 1 .. Len(s) : j # k => Same(t, j, s, j)
      /\ At(t, k) = At(s, k) /\ Size(t, k) = Size(s, k) /\ Free(t, k) = b
  BY <1>2, <1>4 DEF Same, At, Size, Free
<1>6. \A j \in 1 .. Len(s) : At(t, j) = At(s, j) /\ Size(t, j) = Size(s, j) /\ EndAt(t, j) = EndAt(s, j)
  BY <1>5 DEF Same, EndAt
<1>7. Fields(t)
  BY <1>4, FieldsOfSeq
<1>8. Tiles(t) /\ Aligned(t) /\ Ordered(t)
  BY <1>0, <1>4, <1>6 DEF Tiles, Aligned, Ordered, BlockList
<1>9. OnlyAt(s, t, k)
  BY <1>4, <1>5 DEF OnlyAt
<1> QED BY <1>4, <1>5, <1>7, <1>8, <1>9 DEF BlockList, t

(* A block that takes in a free neighbour.                                 *)
LEMMA AbsorbOnlyAt ==
    ASSUME NEW s, BlockList(s), NEW k \in 1 .. Len(s) - 1, Free(s, k + 1)
    PROVE  LET t == Absorb(s, k)
           IN  /\ OnlyAt(s, t, k)
               /\ Free(t, k) = Free(s, k) /\ Size(t, k) >= Size(s, k)
               /\ MergedBehind(s, k) => MergedBehind(t, k)
<1> DEFINE t == Absorb(s, k)
<1>0. s \in Seq(Block) /\ Len(s) \in Nat /\ Fields(s)
  BY FieldsOfSeq DEF BlockList
<1>1. /\ Len(t) = Len(s) - 1
      /\ \A j \in 1 .. k - 1 : Same(t, j, s, j)
      /\ At(t, k) = At(s, k) /\ Free(t, k) = Free(s, k)
      /\ Size(t, k) = Size(s, k) + HDR + Size(s, k + 1)
      /\ \A j \in k + 1 .. Len(s) - 1 : Same(t, j, s, j + 1)
  BY <1>0, AbsorbElements
<1> HIDE DEF t
<1>2. OnlyAt(s, t, k)
  <2>1. ASSUME NEW j \in 1 .. Len(t), j # k
        PROVE  \E i \in 1 .. Len(s) : i # k /\ Same(t, j, s, i)
    <3>1. CASE j < k
      BY <1>0, <1>1, <3>1
    <3>2. CASE j > k
      <4>1. Same(t, j, s, j + 1) /\ j + 1 \in 1 .. Len(s) /\ j + 1 # k
        BY <1>0, <1>1, <3>2
      <4> QED BY <4>1
    <3> QED BY <1>0, <1>1, <2>1, <3>1, <3>2
  <2>2. ASSUME NEW i \in 1 .. Len(s), i # k, i # k + 1
        PROVE  \E j \in 1 .. Len(t) : j # k /\ Same(t, j, s, i)
    <3>1. CASE i < k
      BY <1>0, <1>1, <3>1
    <3>2. CASE i > k
      <4>1. i - 1 \in k + 1 .. Len(s) - 1 /\ i - 1 + 1 = i
        BY <1>0, <2>2, <3>2
      <4>2. Same(t, i - 1, s, i) /\ i - 1 \in 1 .. Len(t) /\ i - 1 # k
        BY <1>0, <1>1, <4>1
      <4> QED BY <4>2
    <3> QED BY <1>0, <2>2, <3>1, <3>2
  <2> QED BY <1>0, <1>1, <2>1, <2>2 DEF OnlyAt
<1>3. Size(t, k) >= Size(s, k)
  BY <1>0, <1>1, Constants DEF Fields
<1>4. ASSUME MergedBehind(s, k) PROVE MergedBehind(t, k)
  BY <1>0, <1>1, <1>4 DEF MergedBehind, Same
<1> QED BY <1>1, <1>2, <1>3, <1>4 DEF t

(* A block of which the end is cut off.                                    *)
LEMMA CutOnlyAt ==
    ASSUME NEW s, BlockList(s), NEW k \in 1 .. Len(s), NEW n \in Nat,
           n % ALIGNMENT = 0, n + HDR <= Size(s, k)
    PROVE  LET t == Cut(s, k, n)
           IN  /\ BlockList(t) /\ Len(t) = Len(s) + 1
               /\ OnlyAt(s, t, k)
               /\ \A j \in 1 .. k - 1 : Same(t, j, s, j)
               /\ Free(t, k) = Free(s, k) /\ Size(t, k) = n
               /\ Free(t, k + 1)
               /\ \A j \in k + 2 .. Len(t) : Same(t, j, s, j - 1)
<1> DEFINE t == Cut(s, k, n)
<1>0. s \in Seq(Block) /\ Len(s) \in Nat
  BY FieldsOfSeq DEF BlockList
<1>1. BlockList(t) /\ At(s, k) + HDR + n < SIZE
  BY CutKeepsList
<1>2. /\ Len(t) = Len(s) + 1
      /\ \A j \in 1 .. k - 1 : Same(t, j, s, j)
      /\ At(t, k) = At(s, k) /\ Size(t, k) = n /\ Free(t, k) = Free(s, k)
      /\ Free(t, k + 1)
      /\ \A j \in k + 2 .. Len(s) + 1 : Same(t, j, s, j - 1)
  BY <1>0, <1>1, CutElements
<1> HIDE DEF t
<1>3. OnlyAt(s, t, k)
  <2>1. ASSUME NEW j \in 1 .. Len(t), j # k, j # k + 1
        PROVE  \E i \in 1 .. Len(s) : i # k /\ Same(t, j, s, i)
    <3>1. CASE j < k
      BY <1>0, <1>2, <3>1
    <3>2. CASE j > k
      <4>1. Same(t, j, s, j - 1) /\ j - 1 \in 1 .. Len(s) /\ j - 1 # k
        BY <1>0, <1>2, <2>1, <3>2
      <4> QED BY <4>1
    <3> QED BY <1>0, <1>2, <2>1, <3>1, <3>2
  <2>2. ASSUME NEW i \in 1 .. Len(s), i # k
        PROVE  \E j \in 1 .. Len(t) : j # k /\ Same(t, j, s, i)
    <3>1. CASE i < k
      BY <1>0, <1>2, <3>1
    <3>2. CASE i > k
      <4>1. i + 1 \in k + 2 .. Len(s) + 1 /\ i + 1 - 1 = i
        BY <1>0, <3>2
      <4>2. Same(t, i + 1, s, i) /\ i + 1 \in 1 .. Len(t) /\ i + 1 # k
        BY <1>0, <1>2, <4>1
      <4> QED BY <4>2
    <3> QED BY <1>0, <2>2, <3>1, <3>2
  <2> QED BY <1>0, <1>2, <2>1, <2>2 DEF OnlyAt
<1> QED BY <1>1, <1>2, <1>3 DEF t

(* rm_try_split_block: the block keeps at least what it is asked to hold,  *)
(* and what is cut off is merged with a free neighbour, so that no two     *)
(* free blocks are left side by side behind it.                            *)
LEMMA SplitKeeps ==
    ASSUME NEW s, BlockList(s), NEW k \in 1 .. Len(s), NEW n \in Nat, n <= Size(s, k)
    PROVE  LET t == rm_try_split_block(s, k, n)
           IN  /\ BlockList(t) /\ OnlyAt(s, t, k)
               /\ \A j \in 1 .. k - 1 : Same(t, j, s, j)
               /\ Free(t, k) = Free(s, k) /\ Size(t, k) >= n
               /\ MergedBehind(s, k) => MergedBehind(t, k)
<1> DEFINE t == rm_try_split_block(s, k, n)
           a == ALIGN(n)
           c == Cut(s, k, a)
           Kept(u) == /\ BlockList(u) /\ OnlyAt(s, u, k)
                      /\ \A j \in 1 .. k - 1 : Same(u, j, s, j)
                      /\ Free(u, k) = Free(s, k) /\ Size(u, k) >= n
                      /\ MergedBehind(s, k) => MergedBehind(u, k)
<1> SUFFICES Kept(t)
  OBVIOUS
<1>0. s \in Seq(Block) /\ Len(s) \in Nat /\ Fields(s) /\ Size(s, k) \in Nat
  BY FieldsOfSeq DEF BlockList, Fields
<1>1. a \in Nat /\ a >= n /\ a % ALIGNMENT = 0
  BY AlignUp
<1> HIDE DEF a
<1>2. t = IF Size(s, k) >= a + HDR + ALIGNMENT
          THEN IF k + 1 < Len(c) /\ Free(c, k + 2) THEN Absorb(c, k + 1) ELSE c
          ELSE s
  <2>1. k + 1 + 1 = k + 2
    BY <1>0
  <2> QED BY <2>1 DEF rm_try_split_block, NextFree, HasNext, Size, Free, a
<1> HIDE DEF t
<1>3. CASE ~ (Size(s, k) >= a + HDR + ALIGNMENT)
  <2>1. t = s
    BY <1>2, <1>3
  <2>2. \A j \in 1 .. Len(s) : Same(s, j, s, j)
    BY DEF Same
  <2>3. OnlyAt(s, s, k) /\ \A j \in 1 .. k - 1 : Same(s, j, s, j)
    BY <1>0, <2>2 DEF OnlyAt
  <2> QED BY <2>1, <2>3
<1>4. CASE Size(s, k) >= a + HDR + ALIGNMENT
  <2>0. a + HDR <= Size(s, k)
    BY <1>0, <1>1, <1>4, Constants
  <2>1. /\ BlockList(c) /\ Len(c) = Len(s) + 1
        /\ OnlyAt(s, c, k)
        /\ \A j \in 1 .. k - 1 : Same(c, j, s, j)
        /\ Free(c, k) = Free(s, k) /\ Size(c, k) = a
        /\ Free(c, k + 1)
        /\ \A j \in k + 2 .. Len(c) : Same(c, j, s, j - 1)
    BY <1>1, <2>0, CutOnlyAt
  <2> HIDE DEF c
  <2>2. CASE ~ (k + 1 < Len(c) /\ Free(c, k + 2))
    <3>1. t = c
      BY <1>2, <1>4, <2>2
    <3>2. ASSUME MergedBehind(s, k), NEW j \in k + 1 .. Len(c) - 1
          PROVE  ~ (Free(c, j) /\ Free(c, j + 1))
      <4>1. CASE j = k + 1
        BY <1>0, <2>1, <2>2, <4>1
      <4>2. CASE j > k + 1
        <5>1. Same(c, j, s, j - 1) /\ Same(c, j + 1, s, j - 1 + 1) /\ j - 1 \in k + 1 .. Len(s) - 1
          <6>1. j + 1 \in k + 2 .. Len(c) /\ j + 1 - 1 = j - 1 + 1
            BY <1>0, <2>1
          <6> QED BY <1>0, <2>1, <4>2, <6>1
        <5> QED BY <3>2, <5>1 DEF MergedBehind, Same
      <4> QED BY <1>0, <2>1, <4>1, <4>2
    <3> QED BY <1>1, <2>1, <3>1, <3>2 DEF MergedBehind
  <2>3. CASE k + 1 < Len(c) /\ Free(c, k + 2)
    <3> DEFINE u == Absorb(c, k + 1)
    <3>0. /\ t = u /\ k + 1 \in 1 .. Len(c) - 1 /\ Free(c, k + 1 + 1)
          /\ c \in Seq(Block) /\ Len(c) \in Nat
      <4>1. k + 1 + 1 = k + 2
        BY <1>0
      <4> QED BY <1>0, <1>2, <1>4, <2>1, <2>3, <4>1 DEF BlockList
    <3>1. BlockList(u)
      BY <2>1, <3>0, AbsorbKeepsList
    <3>2. /\ Len(u) = Len(c) - 1
          /\ \A j \in 1 .. k + 1 - 1 : Same(u, j, c, j)
          /\ Free(u, k + 1)
          /\ \A j \in k + 1 + 1 .. Len(c) - 1 : Same(u, j, c, j + 1)
      <4>1. PICK m \in 1 .. Len(c) - 1 : m = k + 1
        BY <3>0
      <4>2. /\ Len(Absorb(c, m)) = Len(c) - 1
            /\ \A j \in 1 .. m - 1 : Same(Absorb(c, m), j, c, j)
            /\ Free(Absorb(c, m), m) = Free(c, m)
            /\ \A j \in m + 1 .. Len(c) - 1 : Same(Absorb(c, m), j, c, j + 1)
        BY <3>0, AbsorbElements
      <4>3. Free(c, m)
        BY <2>1, <4>1
      <4> QED BY <4>1, <4>2, <4>3
    <3>3. OnlyAt(c, u, k + 1)
      BY <2>1, <3>0, AbsorbOnlyAt
    <3> HIDE DEF u
    <3>4. Same(u, k, c, k) /\ \A j \in 1 .. k - 1 : Same(u, j, s, j)
      BY <1>0, <2>1, <3>2 DEF Same
    <3>5. \A j \in k + 2 .. Len(u) : Same(u, j, s, j)
      <4> SUFFICES ASSUME NEW j \in k + 2 .. Len(u) PROVE Same(u, j, s, j)
        OBVIOUS
      <4>1. Same(u, j, c, j + 1)
        BY <1>0, <2>1, <3>2
      <4>2. Same(c, j + 1, s, j)
        <5>1. j + 1 \in k + 2 .. Len(c) /\ j + 1 - 1 = j
          BY <1>0, <2>1, <3>2
        <5> QED BY <2>1, <5>1
      <4> QED BY <4>1, <4>2 DEF Same
    <3>6. Len(u) = Len(s) /\ k + 1 \in 1 .. Len(s) /\ Free(s, k + 1)
      <4>1. Same(c, k + 2, s, k + 2 - 1) /\ k + 2 - 1 = k + 1
        BY <1>0, <2>1, <2>3
      <4> QED BY <1>0, <2>1, <2>3, <3>2, <4>1 DEF Same
    <3>7. OnlyAt(s, u, k)
      <4>1. At(u, k) = At(s, k)
        BY <2>1, <3>4 DEF Same, OnlyAt
      <4>2. ASSUME NEW j \in 1 .. Len(s), j # k, j # k + 1 PROVE Same(u, j, s, j)
        BY <1>0, <3>4, <3>5, <3>6, <4>2
      <4> QED BY <1>0, <3>2, <3>6, <4>1, <4>2 DEF OnlyAt
    <3>8. ASSUME MergedBehind(s, k), NEW j \in k + 1 .. Len(u) - 1
          PROVE  ~ (Free(u, j) /\ Free(u, j + 1))
      <4>1. Same(u, j + 1, s, j + 1)
        BY <1>0, <3>5
      <4>2. j # k + 1 => Same(u, j, s, j)
        BY <1>0, <3>5
      <4>3. ~ (Free(s, j) /\ Free(s, j + 1))
        BY <3>6, <3>8 DEF MergedBehind
      <4> QED BY <3>6, <4>1, <4>2, <4>3 DEF Same
    <3>9. Free(u, k) = Free(s, k) /\ Size(u, k) >= n
      BY <1>1, <2>1, <3>4 DEF Same
    <3> QED BY <3>0, <3>1, <3>4, <3>7, <3>8, <3>9 DEF MergedBehind
  <2> QED BY <2>2, <2>3
<1> QED BY <1>3, <1>4

(* rm_find_best_block finds a block whenever one fits: of finitely many    *)
(* blocks in a total order one is the least.                               *)
LEMMA BestFits ==
    ASSUME NEW s \in Seq(Block), NEW n \in Nat, Fitting(s, n) # {}
    PROVE  /\ rm_find_best_block(s, n) \in 1 .. Len(s)
           /\ Free(s, rm_find_best_block(s, n))
           /\ Size(s, rm_find_best_block(s, n)) >= n
<1> DEFINE F == Fitting(s, n)
           Better(j, k) == Size(s, j) < Size(s, k) \/ (Size(s, j) = Size(s, k) /\ j <= k)
           Up(k) == {j \in F : Better(j, k)}
           T == {Up(k) : k \in F}
<1>0. Len(s) \in Nat /\ Fields(s)
  BY FieldsOfSeq
<1>1. F \subseteq 1 .. Len(s) /\ \A k \in F : Free(s, k) /\ Size(s, k) >= n /\ Size(s, k) \in Nat /\ k \in Nat
  BY <1>0 DEF Fitting, Free, Size, Fields
<1>a. F # {}
  OBVIOUS
<1>2. IsFiniteSet(F)
  <2>1. IsFiniteSet(1 .. Len(s))
    BY <1>0, FS_Interval
  <2> QED BY <1>1, <2>1, FS_Subset
<1> HIDE DEF F
<1>3. T \subseteq FiniteSubsetsOf(F) /\ T # {}
  <2>1. \A k \in F : Up(k) \in SUBSET F
    OBVIOUS
  <2>2. FiniteSubsetsOf(F) = SUBSET F
    BY <1>2, FS_FiniteSubsetsOfFinite
  <2>3. T # {}
    <3>1. PICK k \in F : TRUE
      BY <1>a
    <3>2. Up(k) \in T
      OBVIOUS
    <3> QED BY <3>2
  <2>4. T \subseteq SUBSET F
    <3> HIDE DEF Up
    <3> QED BY <2>1
  <2> QED BY <2>2, <2>3, <2>4
<1>4. \E U \in T : \A V \in T : ~ (<<V, U>> \in StrictSubsetOrdering(F))
  <2> HIDE DEF T
  <2> QED BY <1>3, FS_StrictSubsetOrderingWellFounded, WFMin
<1>5. PICK k \in F : \A j \in F : ~ (<<Up(j), Up(k)>> \in StrictSubsetOrdering(F))
  BY <1>4
<1>6. ASSUME NEW j \in F PROVE Better(k, j)
  <2> SUFFICES ASSUME ~ Better(k, j) PROVE FALSE
    OBVIOUS
  <2>1. k \in Up(k) /\ k \notin Up(j)
    BY <1>1
  <2>2. Up(j) \subseteq Up(k)
    <3> SUFFICES ASSUME NEW i \in F, Better(i, j) PROVE Better(i, k)
      OBVIOUS
    <3>1. Better(j, k)
      BY <1>1
    <3> QED BY <1>1, <3>1
  <2>3. Up(j) \in SUBSET F /\ Up(k) \in SUBSET F
    OBVIOUS
  <2>4. IsFiniteSet(Up(j)) /\ IsFiniteSet(Up(k))
    BY <1>2, <2>3, FS_Subset
  <2> HIDE DEF Up
  <2>5. <<Up(j), Up(k)>> \in StrictSubsetOrdering(F)
    BY <1>2, <2>1, <2>2, <2>3, <2>4, FS_FiniteSubsetsOfFinite DEF StrictSubsetOrdering
  <2> QED BY <1>5, <2>5
<1>7. k \in F /\ \A j \in F : s[k].size < s[j].size \/ (s[k].size = s[j].size /\ k <= j)
  BY <1>6 DEF Size
<1>8. rm_find_best_block(s, n) \in F
  BY <1>7 DEF rm_find_best_block, F
<1> QED BY <1>1, <1>8

(* The block behind a pointer a caller holds.                              *)
LEMMA HeldBlock ==
    ASSUME NEW s, BlockList(s), NEW f, Holds(s, f), NEW p \in DOMAIN f
    PROVE  /\ IndexOf(s, p) \in 1 .. Len(s)
           /\ At(s, IndexOf(s, p)) = p
           /\ ~ Free(s, IndexOf(s, p))
<1>1. PICK k \in 1 .. Len(s) : At(s, k) = p /\ ~ Free(s, k)
  BY DEF Holds
<1>2. IndexOf(s, p) = k
  BY <1>1, IndexOfBlock
<1> QED BY <1>1, <1>2

(* When one block changes, the callers hold the list as before, with or    *)
(* without a pointer to that block.                                        *)
LEMMA HoldsAfter ==
    ASSUME NEW s, NEW u, NEW k, NEW f,
           BlockList(s), BlockList(u), Holds(s, f), OnlyAt(s, u, k)
    PROVE  /\ Free(u, k) = Free(s, k) /\ Size(u, k) >= Size(s, k) => Holds(u, f)
           /\ \A n \in Nat : ~ Free(u, k) /\ n <= Size(u, k) => Holds(u, Holding(f, At(s, k), n))
           /\ Free(u, k) => Holds(u, Dropping(f, At(s, k)))
<1> DEFINE p == At(s, k)
           D == DOMAIN f
           E(v) == {At(v, j) : j \in {i \in 1 .. Len(v) : ~ Free(v, i)}}
<1>0. /\ Len(s) \in Nat /\ Len(u) \in Nat /\ Fields(s) /\ Fields(u)
      /\ k \in 1 .. Len(s) /\ k \in 1 .. Len(u) /\ At(u, k) = p
      /\ Size(s, k) \in Nat /\ Size(u, k) \in Nat
  BY FieldsOfSeq DEF BlockList, OnlyAt, Fields
<1>1. D = E(s) /\ \A i \in 1 .. Len(s) : ~ Free(s, i) => f[At(s, i)] \in Nat /\ f[At(s, i)] <= Size(s, i)
  BY DEF Holds
<1>2. ASSUME NEW j \in 1 .. Len(u), j # k, ~ Free(u, j)
      PROVE  At(u, j) \in D /\ At(u, j) # p /\ f[At(u, j)] \in Nat /\ f[At(u, j)] <= Size(u, j)
  <2>1. PICK i \in 1 .. Len(s) : i # k /\ Same(u, j, s, i)
    BY <1>2 DEF OnlyAt
  <2>2. ~ Free(s, i) /\ At(s, i) = At(u, j) /\ Size(s, i) = Size(u, j)
    BY <1>2, <2>1 DEF Same
  <2>3. At(s, i) # p
    BY <1>0, <2>1, OneBlockAt
  <2> QED BY <1>1, <2>2, <2>3
<1>3. ASSUME NEW q \in D, q # p
      PROVE  \E j \in 1 .. Len(u) : j # k /\ ~ Free(u, j) /\ At(u, j) = q
  <2>1. PICK i \in 1 .. Len(s) : ~ Free(s, i) /\ At(s, i) = q
    BY <1>1
  <2>2. PICK j \in 1 .. Len(u) : j # k /\ Same(u, j, s, i)
    BY <1>3, <2>1 DEF OnlyAt
  <2> QED BY <2>1, <2>2 DEF Same
<1>4. ASSUME Free(u, k) = Free(s, k), Size(u, k) >= Size(s, k)
      PROVE  Holds(u, f)
  <2>1. p \in D <=> ~ Free(s, k)
    <3>1. ASSUME p \in D PROVE ~ Free(s, k)
      <4>1. PICK i \in 1 .. Len(s) : ~ Free(s, i) /\ At(s, i) = p
        BY <1>1, <3>1
      <4>2. i = k
        BY <1>0, <4>1, OneBlockAt
      <4> QED BY <4>1, <4>2
    <3> QED BY <1>0, <1>1, <3>1
  <2>2. D = E(u)
    <3>1. ASSUME NEW q \in D PROVE q \in E(u)
      BY <1>0, <1>3, <1>4, <2>1
    <3>2. ASSUME NEW q \in E(u) PROVE q \in D
      BY <1>0, <1>2, <1>4, <2>1
    <3> QED BY <3>1, <3>2
  <2>3. ASSUME NEW j \in 1 .. Len(u), ~ Free(u, j)
        PROVE  f[At(u, j)] \in Nat /\ f[At(u, j)] <= Size(u, j)
    <3>1. CASE j = k
      <4>1. f[p] \in Nat /\ f[p] <= Size(s, k)
        BY <1>0, <1>1, <1>4, <2>3, <3>1
      <4> QED BY <1>0, <1>4, <3>1, <4>1
    <3>2. CASE j # k
      BY <1>2, <2>3, <3>2
    <3> QED BY <3>1, <3>2
  <2> QED BY <2>2, <2>3 DEF Holds
<1>5. ASSUME NEW n \in Nat, ~ Free(u, k), n <= Size(u, k)
      PROVE  Holds(u, Holding(f, p, n))
  <2> DEFINE g == Holding(f, p, n)
  <2>1. DOMAIN g = D \cup {p} /\ \A q \in D \cup {p} : g[q] = IF q = p THEN n ELSE f[q]
    BY DEF Holding
  <2> HIDE DEF g
  <2>2. DOMAIN g = E(u)
    <3>1. ASSUME NEW q \in D \cup {p} PROVE q \in E(u)
      BY <1>0, <1>3, <1>5
    <3>2. ASSUME NEW q \in E(u) PROVE q \in D \cup {p}
      BY <1>0, <1>2
    <3> QED BY <2>1, <3>1, <3>2
  <2>3. ASSUME NEW j \in 1 .. Len(u), ~ Free(u, j)
        PROVE  g[At(u, j)] \in Nat /\ g[At(u, j)] <= Size(u, j)
    <3>1. CASE j = k
      BY <1>0, <1>5, <2>1, <3>1
    <3>2. CASE j # k
      BY <1>2, <2>1, <2>3, <3>2
    <3> QED BY <3>1, <3>2
  <2> QED BY <2>2, <2>3 DEF Holds, g
<1>6. ASSUME Free(u, k) PROVE Holds(u, Dropping(f, p))
  <2> DEFINE g == Dropping(f, p)
  <2>1. DOMAIN g = D \ {p} /\ \A q \in D \ {p} : g[q] = f[q]
    BY DEF Dropping
  <2> HIDE DEF g
  <2>2. DOMAIN g = E(u)
    <3>1. ASSUME NEW q \in D \ {p} PROVE q \in E(u)
      BY <1>3
    <3>2. ASSUME NEW q \in E(u) PROVE q \in D \ {p}
      BY <1>2, <1>6
    <3> QED BY <2>1, <3>1, <3>2
  <2>3. ASSUME NEW j \in 1 .. Len(u), ~ Free(u, j)
        PROVE  g[At(u, j)] \in Nat /\ g[At(u, j)] <= Size(u, j)
    BY <1>2, <1>6, <2>1, <2>3
  <2> QED BY <2>2, <2>3 DEF Holds, g
<1> QED BY <1>4, <1>5, <1>6

(* A merged list stays merged when a used block changes.                   *)
LEMMA MergedAround ==
    ASSUME NEW s, NEW u, BlockList(s), BlockList(u), MergedTo(s, Len(s)),
           NEW k \in 1 .. Len(s), k \in 1 .. Len(u),
           \A j \in 1 .. k - 1 : Same(u, j, s, j), ~ Free(u, k),
           MergedBehind(s, k) => MergedBehind(u, k)
    PROVE  MergedTo(u, Len(u))
<1>0. Len(s) \in Nat /\ Len(u) \in Nat /\ k \in Nat
  BY FieldsOfSeq DEF BlockList
<1>1. MergedBehind(u, k)
  BY <1>0 DEF MergedTo, MergedBehind
<1>2. ASSUME NEW j \in 1 .. Len(u) - 1 PROVE ~ (Free(u, j) /\ Free(u, j + 1))
  <2>1. CASE j + 1 < k
    <3>1. Same(u, j, s, j) /\ Same(u, j + 1, s, j + 1) /\ j \in 1 .. Len(s) - 1
      BY <1>0, <2>1
    <3> QED BY <3>1 DEF Same, MergedTo
  <2>2. CASE j + 1 = k \/ j = k
    BY <2>2
  <2>3. CASE j > k
    BY <1>0, <1>1, <2>3 DEF MergedBehind
  <2> QED BY <1>0, <2>1, <2>2, <2>3
<1> QED BY <1>2 DEF MergedTo

(* rm_alloc when a block fits.                                             *)
LEMMA AllocedKeeps ==
    ASSUME NEW s, BlockList(s), NEW f, Holds(s, f), MergedTo(s, Len(s)),
           NEW n \in Nat, Fitting(s, ALIGN(n)) # {}
    PROVE  /\ BlockList(Alloced(s, n))
           /\ Holds(Alloced(s, n), Holding(f, AllocedAt(s, n), n))
           /\ MergedTo(Alloced(s, n), Len(Alloced(s, n)))
           /\ AllocedAt(s, n) \notin DOMAIN f
<1> DEFINE k == rm_find_best_block(s, ALIGN(n))
           t == rm_try_split_block(s, k, ALIGN(n))
           u == [t EXCEPT ![k].free = FALSE]
<1>0. s \in Seq(Block) /\ ALIGN(n) \in Nat /\ ALIGN(n) >= n
  BY AlignUp DEF BlockList
<1>1. k \in 1 .. Len(s) /\ Free(s, k) /\ Size(s, k) >= ALIGN(n) /\ Size(s, k) \in Nat
  BY <1>0, BestFits, FieldsOfSeq DEF Fields
<1>2. Alloced(s, n) = u /\ AllocedAt(s, n) = At(s, k)
  BY DEF Alloced, AllocedAt, At
<1> HIDE DEF k
<1>3. /\ BlockList(t) /\ OnlyAt(s, t, k)
      /\ \A j \in 1 .. k - 1 : Same(t, j, s, j)
      /\ Size(t, k) >= ALIGN(n)
      /\ MergedBehind(s, k) => MergedBehind(t, k)
  BY <1>0, <1>1, SplitKeeps
<1> HIDE DEF t
<1>4. k \in 1 .. Len(t) /\ At(t, k) = At(s, k)
  BY <1>3 DEF OnlyAt
<1>5. /\ BlockList(u) /\ Len(u) = Len(t)
      /\ \A j \in 1 .. Len(t) : j # k => Same(u, j, t, j)
      /\ At(u, k) = At(t, k) /\ Size(u, k) = Size(t, k) /\ Free(u, k) = FALSE
  BY <1>3, <1>4, MarkKeepsList
<1> HIDE DEF u
<1>6. OnlyAt(s, u, k)
  BY <1>1, <1>3, <1>4, <1>5 DEF OnlyAt, Same
<1>7. Len(t) \in Nat /\ Size(t, k) \in Nat
  BY <1>3, <1>4, FieldsOfSeq DEF BlockList, Fields
<1>8. Holds(u, Holding(f, At(s, k), n))
  <2>1. ~ Free(u, k) /\ n <= Size(u, k)
    BY <1>0, <1>3, <1>5, <1>7
  <2> QED BY <1>5, <1>6, <2>1, HoldsAfter
<1>9. MergedTo(u, Len(u))
  <2>1. \A j \in 1 .. k - 1 : Same(u, j, s, j)
    BY <1>1, <1>3, <1>4, <1>5, <1>7 DEF Same
  <2>2. MergedBehind(t, k) => MergedBehind(u, k)
    BY <1>4, <1>5, <1>7 DEF MergedBehind, Same
  <2> QED BY <1>1, <1>3, <1>4, <1>5, <2>1, <2>2, MergedAround
<1>10. At(s, k) \notin DOMAIN f
  <2> SUFFICES ASSUME At(s, k) \in DOMAIN f PROVE FALSE
    OBVIOUS
  <2>1. IndexOf(s, At(s, k)) = k
    BY <1>1, IndexOfBlock
  <2> QED BY <1>1, <2>1, HeldBlock
<1> QED BY <1>2, <1>5, <1>8, <1>9, <1>10

(* rm_free before the blocks are combined.                                 *)
LEMMA FreedKeeps ==
    ASSUME NEW s, BlockList(s), NEW f, Holds(s, f), NEW k \in 1 .. Len(s)
    PROVE  /\ BlockList(Freed(s, At(s, k)))
           /\ Len(Freed(s, At(s, k))) = Len(s)
           /\ Holds(Freed(s, At(s, k)), Dropping(f, At(s, k)))
<1>1. Freed(s, At(s, k)) = [s EXCEPT ![k].free = TRUE]
  BY IndexOfBlock DEF Freed
<1> DEFINE u == [s EXCEPT ![k].free = TRUE]
<1>2. BlockList(u) /\ Len(u) = Len(s) /\ Free(u, k) = TRUE /\ OnlyAt(s, u, k)
  BY MarkKeepsList
<1> HIDE DEF u
<1>3. Holds(u, Dropping(f, At(s, k)))
  BY <1>2, HoldsAfter
<1> QED BY <1>1, <1>2, <1>3 DEF u

(* rm_try_split_block on a block in use, for a caller that now asks n of   *)
(* it.                                                                     *)
LEMMA SplitHeld ==
    ASSUME NEW s, BlockList(s), NEW f, Holds(s, f), MergedTo(s, Len(s)),
           NEW k \in 1 .. Len(s), ~ Free(s, k), NEW n \in Nat, n <= Size(s, k)
    PROVE  LET u == rm_try_split_block(s, k, n)
           IN  /\ BlockList(u)
               /\ Holds(u, Holding(f, At(s, k), n))
               /\ MergedTo(u, Len(u))
<1> DEFINE u == rm_try_split_block(s, k, n)
<1>1. /\ BlockList(u) /\ OnlyAt(s, u, k)
      /\ \A j \in 1 .. k - 1 : Same(u, j, s, j)
      /\ Free(u, k) = Free(s, k) /\ Size(u, k) >= n
      /\ MergedBehind(s, k) => MergedBehind(u, k)
  BY SplitKeeps
<1> HIDE DEF u
<1>2. k \in 1 .. Len(u) /\ ~ Free(u, k)
  BY <1>1 DEF OnlyAt
<1>3. n <= Size(u, k)
  BY <1>1, <1>2, FieldsOfSeq DEF BlockList, Fields
<1>4. Holds(u, Holding(f, At(s, k), n))
  BY <1>1, <1>2, <1>3, HoldsAfter
<1>5. MergedTo(u, Len(u))
  BY <1>1, <1>2, MergedAround
<1> QED BY <1>1, <1>4, <1>5 DEF u

(* Writing to a function at a point of its domain.                         *)
LEMMA ExceptIsHolding ==
    ASSUME NEW f, NEW p \in DOMAIN f, NEW n
    PROVE  [f EXCEPT ![p] = n] = Holding(f, p, n)
BY DEF Holding

-----------------------------------------------------------------------------
(* The inductive invariant.                                                *)

(* rm_init_block.                                                          *)
LEMMA HInitInv == Init => HInv
<1> SUFFICES ASSUME Init PROVE HInv
  OBVIOUS
<1> DEFINE b == [at |-> CTX, size |-> SIZE - CTX - HDR, free |-> TRUE]
<1>1. blocks = <<b>> /\ Len(blocks) = 1 /\ blocks[1] = b
  BY DEF Init
<1>2. b \in Block
  BY Constants DEF Block, Addresses
<1>3. At(blocks, 1) = CTX /\ Size(blocks, 1) = SIZE - CTX - HDR /\ Free(blocks, 1) = TRUE
  BY <1>1 DEF At, Size, Free
<1> HIDE DEF b
<1>4. blocks \in Seq(Block)
  BY <1>1, <1>2
<1>5. Fields(blocks)
  BY <1>4, FieldsOfSeq
<1>6. EndAt(blocks, 1) = SIZE /\ Size(blocks, 1) % ALIGNMENT = 0
  <2>1. CTX + HDR + (SIZE - CTX - HDR) = SIZE
    BY Constants
  <2> QED BY <1>3, <2>1, HeapAssumption DEF EndAt
<1>7. BlockList(blocks)
  BY <1>1, <1>3, <1>4, <1>5, <1>6 DEF BlockList, Tiles, Aligned, Ordered
<1>8. Holds(blocks, live)
  <2>1. live = <<>> /\ DOMAIN live = {}
    BY DEF Init
  <2> QED BY <1>1, <1>3, <2>1 DEF Holds
<1>9. MergedTo(blocks, Len(blocks))
  BY <1>1 DEF MergedTo
<1>10. pc = "idle" /\ iter = 0 /\ want = 0
  BY DEF Init
<1> QED BY <1>1, <1>7, <1>8, <1>9, <1>10 DEF HInv

(* What HInv says, ready for use in a step.                                *)
LEMMA HInvParts ==
    ASSUME HInv
    PROVE  /\ BlockList(blocks) /\ Holds(blocks, live)
           /\ blocks \in Seq(Block) /\ Len(blocks) \in Nat /\ Len(blocks) > 0
           /\ Fields(blocks)
           /\ iter \in Nat /\ iter <= Len(blocks) /\ want \in Nat
           /\ pc \in {"idle", "combine", "grow"}
           /\ pc # "combine" => iter = 0 /\ MergedTo(blocks, Len(blocks))
           /\ pc = "combine" => iter > 0 /\ MergedTo(blocks, iter)
           /\ pc = "grow" => grown \in DOMAIN live
BY FieldsOfSeq DEF HInv, BlockList

(* rm_alloc.                                                               *)
LEMMA HAllocInv == ASSUME HInv, NEW n \in Requests, rm_alloc(n) PROVE HInv'
<1>1. n \in Nat
  BY HeapAssumption
<1>2. /\ BlockList(blocks) /\ Holds(blocks, live) /\ MergedTo(blocks, Len(blocks))
      /\ iter = 0 /\ want \in Nat /\ pc = "idle"
  BY HInvParts DEF rm_alloc
<1>3. Fitting(blocks, ALIGN(n)) # {}
  BY DEF rm_alloc
<1>4. /\ BlockList(Alloced(blocks, n))
      /\ Holds(Alloced(blocks, n), Holding(live, AllocedAt(blocks, n), n))
      /\ MergedTo(Alloced(blocks, n), Len(Alloced(blocks, n)))
  BY <1>1, <1>2, <1>3, AllocedKeeps
<1>5. /\ blocks' = Alloced(blocks, n) /\ live' = Holding(live, AllocedAt(blocks, n), n)
      /\ pc' = "idle" /\ iter' = 0 /\ want' \in Nat
  BY <1>2 DEF rm_alloc, callVars
<1>6. Len(blocks') \in Nat
  BY <1>4, <1>5, FieldsOfSeq DEF BlockList
<1> QED BY <1>4, <1>5, <1>6 DEF HInv

(* rm_free, before the merging of blocks.                                  *)
LEMMA HFreeInv == ASSUME HInv, NEW p \in Addresses, rm_free(p) PROVE HInv'
<1>1. /\ BlockList(blocks) /\ Holds(blocks, live)
      /\ want \in Nat /\ Len(blocks) \in Nat /\ Len(blocks) > 0
  BY HInvParts
<1>2. PICK k \in 1 .. Len(blocks) : p = At(blocks, k)
  BY DEF rm_free, BlockStarts, At
<1>3. /\ BlockList(Freed(blocks, p)) /\ Len(Freed(blocks, p)) = Len(blocks)
      /\ Holds(Freed(blocks, p), Dropping(live, p))
  BY <1>1, <1>2, FreedKeeps
<1>4. /\ blocks' = Freed(blocks, p) /\ live' = Dropping(live, p)
      /\ pc' = "combine" /\ iter' = 1 /\ want' \in Nat
  BY <1>1 DEF rm_free
<1>5. MergedTo(blocks', 1)
  BY DEF MergedTo
<1> QED BY <1>1, <1>3, <1>4, <1>5 DEF HInv

(* One iteration of rm_combine_blocks: the blocks before iter are merged.  *)
LEMMA HCombineStepInv == ASSUME HInv, CombineStep PROVE HInv'
<1>1. /\ BlockList(blocks) /\ Holds(blocks, live)
      /\ iter \in Nat /\ iter > 0 /\ iter < Len(blocks)
      /\ want \in Nat /\ Len(blocks) \in Nat /\ MergedTo(blocks, iter)
  BY HInvParts DEF CombineStep, HasNext
<1>2. pc' = "combine" /\ want' \in Nat /\ live' = live
  BY <1>1 DEF CombineStep
<1>3. CASE Free(blocks, iter) /\ Free(blocks, iter + 1)
  <2> DEFINE u == Absorb(blocks, iter)
  <2>1. blocks' = u /\ iter' = iter
    BY <1>3 DEF CombineStep, Free
  <2>2. iter \in 1 .. Len(blocks) - 1
    BY <1>1
  <2>3. /\ BlockList(u) /\ OnlyAt(blocks, u, iter)
        /\ Free(u, iter) = Free(blocks, iter) /\ Size(u, iter) >= Size(blocks, iter)
    BY <1>1, <1>3, <2>2, AbsorbKeepsList, AbsorbOnlyAt
  <2>4. Len(u) = Len(blocks) - 1 /\ \A j \in 1 .. iter - 1 : Same(u, j, blocks, j)
    BY <1>1, <2>2, AbsorbElements DEF BlockList
  <2> HIDE DEF u
  <2>5. Holds(u, live)
    BY <1>1, <2>3, HoldsAfter
  <2>6. ASSUME NEW j \in 1 .. iter - 1 PROVE ~ (Free(u, j) /\ Free(u, j + 1))
    <3>1. Free(u, j) = Free(blocks, j) /\ Free(u, j + 1) = Free(blocks, j + 1)
      BY <1>1, <2>3, <2>4 DEF Same
    <3>2. ~ (Free(blocks, j) /\ Free(blocks, j + 1))
      BY <1>1 DEF MergedTo
    <3> QED BY <3>1, <3>2
  <2>7. MergedTo(u, iter)
    BY <2>6 DEF MergedTo
  <2>8. iter \in 0 .. Len(u)
    BY <1>1, <2>4
  <2> QED BY <1>1, <1>2, <2>1, <2>3, <2>5, <2>7, <2>8 DEF HInv
<1>4. CASE ~ (Free(blocks, iter) /\ Free(blocks, iter + 1))
  <2>1. blocks' = blocks /\ iter' = iter + 1
    BY <1>4 DEF CombineStep, Free
  <2>2. MergedTo(blocks, iter + 1)
    BY <1>1, <1>4 DEF MergedTo
  <2> QED BY <1>1, <1>2, <2>1, <2>2 DEF HInv
<1> QED BY <1>3, <1>4

(* The end of rm_combine_blocks: iter is the last block.                   *)
LEMMA HCombineEndInv == ASSUME HInv, CombineEnd PROVE HInv'
<1>1. /\ iter = Len(blocks) /\ MergedTo(blocks, iter) /\ Len(blocks) \in Nat /\ want \in Nat
      /\ BlockList(blocks) /\ Holds(blocks, live)
  BY HInvParts DEF CombineEnd, HasNext
<1>2. blocks' = blocks /\ live' = live /\ pc' = "idle" /\ iter' = 0 /\ want' = want
  BY DEF CombineEnd
<1> QED BY <1>1, <1>2 DEF HInv

(* rm_realloc to a size the block has room for.                            *)
LEMMA HShrinkInv ==
    ASSUME HInv, NEW p \in DOMAIN live, NEW n \in Requests, Shrink(p, n)
    PROVE  HInv'
<1> DEFINE k == IndexOf(blocks, p)
<1>1. n \in Nat
  BY HeapAssumption
<1>2. /\ BlockList(blocks) /\ Holds(blocks, live) /\ MergedTo(blocks, Len(blocks))
      /\ Fields(blocks) /\ Len(blocks) \in Nat
      /\ iter = 0 /\ want \in Nat /\ pc = "idle"
  BY HInvParts DEF Shrink
<1>3. k \in 1 .. Len(blocks) /\ At(blocks, k) = p /\ ~ Free(blocks, k)
  BY <1>2, HeldBlock
<1>4. /\ n <= Size(blocks, k)
      /\ blocks' = IF n = Size(blocks, k) THEN blocks ELSE rm_try_split_block(blocks, k, n)
      /\ live' = [live EXCEPT ![p] = n]
      /\ pc' = "idle" /\ iter' = 0 /\ want' \in Nat
  BY <1>2 DEF Shrink, callVars, Size
<1> HIDE DEF k
<1>5. live' = Holding(live, p, n)
  BY <1>4, ExceptIsHolding
<1>6. CASE n = Size(blocks, k)
  <2>1. OnlyAt(blocks, blocks, k)
    BY <1>3 DEF OnlyAt, Same
  <2>2. Holds(blocks, Holding(live, p, n))
    BY <1>1, <1>2, <1>3, <1>4, <2>1, HoldsAfter
  <2> QED BY <1>2, <1>4, <1>5, <1>6, <2>2 DEF HInv
<1>7. CASE n # Size(blocks, k)
  <2> DEFINE u == rm_try_split_block(blocks, k, n)
  <2>1. BlockList(u) /\ Holds(u, Holding(live, p, n)) /\ MergedTo(u, Len(u))
    BY <1>1, <1>2, <1>3, <1>4, SplitHeld
  <2>2. blocks' = u
    BY <1>4, <1>7
  <2> HIDE DEF u
  <2>3. Len(u) \in Nat
    BY <2>1, FieldsOfSeq DEF BlockList
  <2>4. BlockList(blocks') /\ Holds(blocks', live') /\ MergedTo(blocks', Len(blocks')) /\ Len(blocks') \in Nat
    BY <1>5, <2>1, <2>2, <2>3
  <2>5. pc' = "idle" /\ iter' = 0 /\ want' \in Nat
    BY <1>4
  <2> QED BY <2>4, <2>5 DEF HInv
<1> QED BY <1>6, <1>7

(* One iteration of rm_try_grow_block: the block grown is in use.          *)
LEMMA HGrowStepInv == ASSUME HInv, GrowStep PROVE HInv'
<1> DEFINE k == GrowIndex
           u == Absorb(blocks, k)
<1>1. /\ BlockList(blocks) /\ Holds(blocks, live) /\ MergedTo(blocks, Len(blocks))
      /\ Len(blocks) \in Nat /\ grown \in DOMAIN live
      /\ iter = 0 /\ want \in Nat /\ pc = "grow"
  BY HInvParts DEF GrowStep
<1>2. k \in 1 .. Len(blocks) /\ ~ Free(blocks, k)
  BY <1>1, HeldBlock DEF GrowIndex
<1>3. k < Len(blocks) /\ Free(blocks, k + 1)
  BY DEF GrowStep, Grows, NextFree, HasNext, Free
<1>4. k \in 1 .. Len(blocks) - 1
  BY <1>1, <1>2, <1>3
<1>5. /\ blocks' = u /\ live' = live /\ pc' = "grow" /\ iter' = 0 /\ want' = want /\ grown' = grown
  BY <1>1 DEF GrowStep, callVars
<1> HIDE DEF k
<1>6. /\ BlockList(u) /\ OnlyAt(blocks, u, k)
      /\ Free(u, k) = Free(blocks, k) /\ Size(u, k) >= Size(blocks, k)
      /\ MergedBehind(blocks, k) => MergedBehind(u, k)
  BY <1>1, <1>3, <1>4, AbsorbKeepsList, AbsorbOnlyAt
<1>7. \A j \in 1 .. k - 1 : Same(u, j, blocks, j)
  BY <1>1, <1>4, AbsorbElements DEF BlockList
<1> HIDE DEF u
<1>8. Holds(u, live)
  BY <1>1, <1>6, HoldsAfter
<1>9. MergedTo(u, Len(u))
  BY <1>1, <1>2, <1>6, <1>7, MergedAround DEF OnlyAt
<1>10. Len(u) \in Nat
  BY <1>6, FieldsOfSeq DEF BlockList
<1> QED BY <1>1, <1>5, <1>6, <1>8, <1>9, <1>10 DEF HInv

(* rm_realloc in place, once the block is large enough.                    *)
LEMMA HGrowEndInv == ASSUME HInv, GrowEnd PROVE HInv'
<1> DEFINE k == GrowIndex
           u == rm_try_split_block(blocks, k, want)
<1>1. /\ BlockList(blocks) /\ Holds(blocks, live) /\ MergedTo(blocks, Len(blocks))
      /\ Fields(blocks) /\ Len(blocks) \in Nat /\ grown \in DOMAIN live
      /\ iter = 0 /\ want \in Nat /\ pc = "grow"
  BY HInvParts DEF GrowEnd
<1>2. k \in 1 .. Len(blocks) /\ At(blocks, k) = grown /\ ~ Free(blocks, k)
  BY <1>1, HeldBlock DEF GrowIndex
<1>3. /\ Size(blocks, k) >= ALIGN(want)
      /\ blocks' = u /\ live' = [live EXCEPT ![grown] = want]
      /\ pc' = "idle" /\ want' = 0 /\ iter' = 0
  BY <1>1 DEF GrowEnd, Size
<1> HIDE DEF k
<1>4. want <= Size(blocks, k)
  BY <1>1, <1>2, <1>3, AlignUp DEF Fields
<1>5. BlockList(u) /\ Holds(u, Holding(live, grown, want)) /\ MergedTo(u, Len(u))
  BY <1>1, <1>2, <1>4, SplitHeld
<1> HIDE DEF u
<1>6. live' = Holding(live, grown, want)
  BY <1>1, <1>3, ExceptIsHolding
<1>7. Len(u) \in Nat
  BY <1>5, FieldsOfSeq DEF BlockList
<1>8. BlockList(blocks') /\ Holds(blocks', live') /\ MergedTo(blocks', Len(blocks')) /\ Len(blocks') \in Nat
  BY <1>3, <1>5, <1>6, <1>7
<1>9. pc' = "idle" /\ iter' = 0 /\ want' \in Nat
  BY <1>3
<1> QED BY <1>8, <1>9 DEF HInv

(* rm_realloc to another block: rm_alloc and rm_free, two blocks changed.  *)
LEMMA HMoveInv == ASSUME HInv, Move PROVE HInv'
<1> DEFINE t == Alloced(blocks, want)
           f == Holding(live, AllocedAt(blocks, want), want)
<1>1. /\ BlockList(blocks) /\ Holds(blocks, live) /\ MergedTo(blocks, Len(blocks))
      /\ grown \in DOMAIN live /\ want \in Nat
  BY HInvParts DEF Move
<1>2. /\ Fitting(blocks, ALIGN(want)) # {}
      /\ blocks' = Freed(t, grown) /\ live' = Dropping(f, grown)
      /\ pc' = "combine" /\ iter' = 1 /\ want' = 0
  BY DEF Move
<1>3. BlockList(t) /\ Holds(t, f)
  BY <1>1, <1>2, AllocedKeeps
<1>4. grown \in DOMAIN f
  BY <1>1 DEF Holding
<1> HIDE DEF t, f
<1>5. PICK k \in 1 .. Len(t) : At(t, k) = grown
  BY <1>3, <1>4, HeldBlock
<1>6. /\ BlockList(blocks') /\ Len(blocks') = Len(t)
      /\ Holds(blocks', live')
  BY <1>2, <1>3, <1>5, FreedKeeps
<1>7. Len(t) \in Nat /\ Len(t) > 0
  BY <1>3, FieldsOfSeq DEF BlockList
<1>8. MergedTo(blocks', 1)
  BY DEF MergedTo
<1> QED BY <1>2, <1>6, <1>7, <1>8 DEF HInv

(* Every step.                                                             *)
LEMMA HNextInv == HInv /\ [Next]_vars => HInv'
<1> SUFFICES ASSUME HInv, [Next]_vars PROVE HInv'
  OBVIOUS
<1>1. ASSUME NEW n \in Requests, rm_alloc(n) PROVE HInv'
  BY <1>1, HAllocInv
<1>2. ASSUME NEW p \in Addresses, rm_free(p) PROVE HInv'
  BY <1>2, HFreeInv
<1>3. ASSUME NEW p \in DOMAIN live, NEW n \in Requests, Shrink(p, n) PROVE HInv'
  BY <1>3, HShrinkInv
<1>4. ASSUME NEW p \in DOMAIN live, NEW n \in Requests, Grow(p, n) PROVE HInv'
  <2>1. n \in Nat
    BY HeapAssumption
  <2> QED BY <1>4, <2>1, HInvParts DEF HInv, Grow
<1>5. CASE MoveFails
  BY <1>5, HInvParts DEF HInv, MoveFails
<1>6. CASE UNCHANGED vars
  BY <1>6 DEF HInv, vars, callVars
<1>7. ASSUME NEW n \in Requests, AllocFails(n) PROVE HInv'
  BY <1>6, <1>7 DEF AllocFails
<1>8. ASSUME NEW p \in Addresses, FreeInvalid(p) PROVE HInv'
  BY <1>6, <1>8 DEF FreeInvalid
<1> QED BY <1>1, <1>2, <1>3, <1>4, <1>5, <1>6, <1>7, <1>8, HCombineStepInv, HCombineEndInv,
           HGrowStepInv, HGrowEndInv, HMoveInv DEF Next

(* What the list and its holders are between any two steps of the          *)
(* allocator: the strengthening from which the properties below follow.    *)
THEOREM HeapInvariant == Spec => []HInv
BY HInitInv, HNextInv, PTL DEF Spec

-----------------------------------------------------------------------------
(* The properties.                                                         *)

(* The types follow from the invariant.                                    *)
LEMMA HInvTypeOK == HInv => TypeOK
<1> SUFFICES ASSUME HInv PROVE TypeOK
  OBVIOUS
<1>1. blocks \in Seq([at : Addresses, size : Nat, free : BOOLEAN])
  BY HInvParts DEF Block
<1>2. ASSUME NEW p \in DOMAIN live PROVE p \in Addresses /\ live[p] \in Nat
  <2>1. PICK k \in 1 .. Len(blocks) : At(blocks, k) = p /\ ~ Free(blocks, k)
    BY HInvParts DEF Holds
  <2>2. At(blocks, k) \in Addresses
    BY HInvParts, Constants DEF Fields, Addresses
  <2> QED BY <2>1, <2>2, HInvParts DEF Holds
<1> QED BY <1>1, <1>2, HInvParts DEF TypeOK, HInv

(* Every variable of the allocator has its type.                           *)
THEOREM HeapTypeOK == Spec => []TypeOK
BY HeapInvariant, HInvTypeOK, PTL

(* The blocks cover the memory without gap or overlap, whatever is         *)
(* allocated, freed and resized in any order.                              *)
THEOREM HeapBlocksTile == Spec => []BlocksTile
<1>1. HInv => BlocksTile
  <2> SUFFICES ASSUME HInv PROVE BlocksTile
    OBVIOUS
  <2>1. TypeOK /\ Len(blocks) > 0
    BY HInvTypeOK, HInvParts
  <2>2. /\ blocks[1].at = CTX
        /\ \A k \in 1 .. Len(blocks) : blocks[k].size % ALIGNMENT = 0
    BY HInvParts DEF BlockList, Tiles, Aligned, At, Size
  <2>3. ASSUME NEW k \in 1 .. Len(blocks)
        PROVE  blocks[k].at + HDR + blocks[k].size =
                   IF HasNext(blocks, k) THEN blocks[k + 1].at ELSE SIZE
    <3>1. EndAt(blocks, k) = IF k < Len(blocks) THEN At(blocks, k + 1) ELSE SIZE
      BY HInvParts DEF BlockList, Tiles
    <3> QED BY <3>1 DEF EndAt, At, Size, HasNext
  <2> QED BY <2>1, <2>2, <2>3 DEF BlocksTile
<1> QED BY <1>1, HeapInvariant, PTL

(* What a caller holds is a block in use that has room for what the caller *)
(* asked, and no block in use is forgotten.                                *)
THEOREM HeapLiveBacked == Spec => []LiveBacked
<1>1. HInv => LiveBacked
  <2> SUFFICES ASSUME HInv PROVE LiveBacked
    OBVIOUS
  <2>1. Holds(blocks, live) /\ Fields(blocks)
    BY HInvParts
  <2>2. ASSUME NEW p \in DOMAIN live
        PROVE  \E k \in 1 .. Len(blocks) : /\ blocks[k].at = p
                                           /\ ~ blocks[k].free
                                           /\ blocks[k].size >= live[p]
    <3>1. PICK k \in 1 .. Len(blocks) : At(blocks, k) = p /\ ~ Free(blocks, k)
      BY <2>1 DEF Holds
    <3>2. Size(blocks, k) >= live[p]
      BY <2>1, <3>1 DEF Holds, Fields
    <3> QED BY <3>1, <3>2 DEF At, Free, Size
  <2>3. \A k \in 1 .. Len(blocks) : ~ Free(blocks, k) => At(blocks, k) \in DOMAIN live
    BY <2>1 DEF Holds
  <2> QED BY <2>2, <2>3 DEF LiveBacked, At, Free
<1> QED BY <1>1, HeapInvariant, PTL

(* Between calls no two free blocks are neighbours.                        *)
THEOREM HeapNoFragments == Spec => []NoFragments
<1>1. HInv => NoFragments
  BY HInvParts DEF NoFragments, MergedTo, Free
<1> QED BY <1>1, HeapInvariant, PTL

=============================================================================
