---------------------------- MODULE MemBlockProofs ----------------------------
(* Proofs about MemBlock for any heap, any smallest block and any requests. *)
EXTENDS MemBlock, SequenceTheorems, TLAPS

BlockType == [start : Int, size : Int]

(* A free list in address order, with a gap between any two blocks. *)
Ordered(l) == \A i, j \in 1..Len(l) : i < j => End(l[i]) < l[j].start

-----------------------------------------------------------------------------
(* Lists *)

(* R is l with its elements i to j replaced by those of mid. *)
Spliced(R, l, i, j, mid) ==
  /\ Len(R) = i - 1 + Len(mid) + Len(l) - j
  /\ \A n \in 1..Len(R) :
       R[n] = IF n < i THEN l[n]
              ELSE IF n <= i - 1 + Len(mid) THEN mid[n - i + 1]
              ELSE l[n - i + 1 - Len(mid) + j]

(* Where the elements of a spliced list come from. *)
LEMMA SpliceElements ==
  ASSUME NEW S, NEW l \in Seq(S), NEW mid \in Seq(S),
         NEW i \in 1..(Len(l) + 1), NEW j \in (i - 1)..Len(l)
  PROVE  /\ Splice(l, i, j, mid) \in Seq(S)
         /\ Spliced(Splice(l, i, j, mid), l, i, j, mid)
<1> DEFINE a == SubSeq(l, 1, i - 1)
           c == SubSeq(l, j + 1, Len(l))
<1>1. Len(l) \in Nat /\ Len(mid) \in Nat /\ \A n \in 1..Len(l) : l[n] \in S
  BY LenProperties, ElementOfSeq
<1>2. i \in Int /\ j \in Int /\ i - 1 >= 0 /\ i - 1 <= j /\ j <= Len(l)
  BY <1>1
<1>3. /\ a \in Seq(S) /\ Len(a) = i - 1
      /\ \A n \in 1..(i - 1) : a[n] = l[n]
  <2>1. \A n \in 1..(i - 1) : l[n] \in S
    BY <1>1, <1>2
  <2>2. i - 1 \in Int /\ 1 \in Int
    BY <1>2
  <2>3. /\ a \in Seq(S)
        /\ Len(a) = IF 1 <= i - 1 THEN i - 1 - 1 + 1 ELSE 0
        /\ \A n \in 1..(i - 1 - 1 + 1) : a[n] = l[1 + n - 1]
    BY ONLY <2>1, <2>2, SubSeqProperties
  <2> QED BY <2>3, <1>2
<1>4. /\ c \in Seq(S) /\ Len(c) = Len(l) - j
      /\ \A n \in 1..(Len(l) - j) : c[n] = l[j + n]
  <2>1. \A n \in (j + 1)..Len(l) : l[n] \in S
    BY <1>1, <1>2
  <2>2. j + 1 \in Int /\ Len(l) \in Int
    BY <1>1, <1>2
  <2>3. /\ c \in Seq(S)
        /\ Len(c) = IF j + 1 <= Len(l) THEN Len(l) - (j + 1) + 1 ELSE 0
        /\ \A n \in 1..(Len(l) - (j + 1) + 1) : c[n] = l[j + 1 + n - 1]
    BY ONLY <2>1, <2>2, SubSeqProperties
  <2> QED BY <2>3, <1>1, <1>2
<1> HIDE DEF a, c
<1>5. /\ a \o mid \in Seq(S) /\ Len(a \o mid) = Len(a) + Len(mid)
      /\ \A n \in 1..(Len(a) + Len(mid)) :
           (a \o mid)[n] = IF n <= Len(a) THEN a[n] ELSE mid[n - Len(a)]
  <2>1. a \in Seq(S)
    BY <1>3
  <2> QED BY ONLY <2>1, mid \in Seq(S), ConcatProperties
<1> DEFINE d == a \o mid
           R == d \o c
<1>6. /\ d \in Seq(S) /\ Len(d) = i - 1 + Len(mid)
      /\ \A n \in 1..Len(d) : d[n] = IF n < i THEN l[n] ELSE mid[n - i + 1]
  <2> HIDE DEF d
  <2>1. d \in Seq(S) /\ Len(d) = i - 1 + Len(mid)
    BY <1>3, <1>5 DEF d
  <2>2. \A n \in 1..(i - 1 + Len(mid)) : d[n] = IF n <= i - 1 THEN a[n] ELSE mid[n - (i - 1)]
    BY <1>3, <1>5 DEF d
  <2>3. \A n \in 1..Len(d) : n - (i - 1) = n - i + 1
    BY <1>2, <2>1
  <2> QED BY <1>1, <1>2, <1>3, <2>1, <2>2, <2>3
<1> HIDE DEF d
<1>7. /\ R \in Seq(S) /\ Len(R) = Len(d) + Len(c)
      /\ \A n \in 1..(Len(d) + Len(c)) : R[n] = IF n <= Len(d) THEN d[n] ELSE c[n - Len(d)]
  <2>1. d \in Seq(S) /\ c \in Seq(S)
    BY <1>4, <1>6
  <2> QED BY ONLY <2>1, ConcatProperties
<1>8. Splice(l, i, j, mid) = R
  BY DEF Splice, a, c, d
<1> HIDE DEF R
<1>9. Len(R) = i - 1 + Len(mid) + Len(l) - j
  BY <1>1, <1>2, <1>4, <1>6, <1>7
<1>10. ASSUME NEW n \in 1..Len(R)
       PROVE  R[n] = IF n < i THEN l[n]
                     ELSE IF n <= i - 1 + Len(mid) THEN mid[n - i + 1]
                     ELSE l[n - i + 1 - Len(mid) + j]
  <2>1. n \in 1..(Len(d) + Len(c)) /\ n \in Int
    BY <1>7
  <2>2. CASE n <= Len(d)
    <3>1. R[n] = d[n] /\ n \in 1..Len(d)
      BY <2>1, <2>2, <1>7
    <3> QED BY <3>1, <2>2, <1>6
  <2>3. CASE n > Len(d)
    <3>1. R[n] = c[n - Len(d)] /\ n - Len(d) \in 1..(Len(l) - j)
      <4>1. Len(d) \in Nat /\ Len(c) \in Nat /\ Len(c) = Len(l) - j
        BY <1>4, <1>6
      <4>2. ~ n <= Len(d)
        BY <2>1, <2>3, <4>1
      <4>3. R[n] = c[n - Len(d)]
        BY <2>1, <4>2, <1>7
      <4>4. n - Len(d) \in 1..Len(c)
        BY <2>1, <2>3, <4>1
      <4> QED BY <4>1, <4>3, <4>4
    <3>2. c[n - Len(d)] = l[j + (n - Len(d))]
      BY <3>1, <1>4, Zenon
    <3>3. j + (n - Len(d)) = n - i + 1 - Len(mid) + j
      BY <2>1, <1>1, <1>2, <1>6
    <3>4. ~ n < i /\ ~ n <= i - 1 + Len(mid)
      BY <2>1, <2>3, <1>1, <1>2, <1>6
    <3> QED BY <3>1, <3>2, <3>3, <3>4
  <2>4. Len(d) \in Nat
    BY <1>6
  <2> QED BY <2>1, <2>2, <2>3, <2>4
<1> QED BY <1>7, <1>8, <1>9, <1>10 DEF Spliced

(* The same as sets: what is in R is of mid or of l outside i..j. *)
Members(R, l, i, j, mid) ==
  /\ \A n \in 1..Len(R) :
       \/ \E m \in 1..Len(mid) : R[n] = mid[m]
       \/ \E m \in 1..Len(l) : (m < i \/ m > j) /\ R[n] = l[m]
  /\ \A m \in 1..Len(mid) : \E n \in 1..Len(R) : R[n] = mid[m]
  /\ \A m \in 1..Len(l) : (m < i \/ m > j) => \E n \in 1..Len(R) : R[n] = l[m]

LEMMA SpliceMembers ==
  ASSUME NEW S, NEW l \in Seq(S), NEW mid \in Seq(S),
         NEW i \in 1..(Len(l) + 1), NEW j \in (i - 1)..Len(l)
  PROVE  Members(Splice(l, i, j, mid), l, i, j, mid)
<1> DEFINE R == Splice(l, i, j, mid)
<1>1. /\ Len(R) = i - 1 + Len(mid) + Len(l) - j
      /\ \A n \in 1..Len(R) : R[n] = IF n < i THEN l[n]
                                     ELSE IF n <= i - 1 + Len(mid) THEN mid[n - i + 1]
                                     ELSE l[n - i + 1 - Len(mid) + j]
  <2>1. Spliced(R, l, i, j, mid)
    BY SpliceElements
  <2> QED BY <2>1, Zenon DEF Spliced
<1>2. Len(l) \in Nat /\ Len(mid) \in Nat /\ i \in Int /\ j \in Int
  BY LenProperties
<1> HIDE DEF R
<1>3. ASSUME NEW n \in 1..Len(R)
      PROVE  \/ \E m \in 1..Len(mid) : R[n] = mid[m]
             \/ \E m \in 1..Len(l) : (m < i \/ m > j) /\ R[n] = l[m]
  <2>1. CASE n < i
    <3>1. n \in 1..Len(l) /\ R[n] = l[n]
      BY <2>1, <1>1, <1>2
    <3> QED BY <3>1, <2>1
  <2>2. CASE n >= i /\ n <= i - 1 + Len(mid)
    <3>1. n - i + 1 \in 1..Len(mid) /\ R[n] = mid[n - i + 1]
      BY <2>2, <1>1, <1>2
    <3> QED BY <3>1
  <2>3. CASE n > i - 1 + Len(mid)
    <3>1. /\ n - i + 1 - Len(mid) + j \in 1..Len(l)
          /\ n - i + 1 - Len(mid) + j > j
          /\ R[n] = l[n - i + 1 - Len(mid) + j]
      BY <2>3, <1>1, <1>2
    <3> QED BY <3>1
  <2> QED BY <2>1, <2>2, <2>3, <1>1, <1>2
<1>4. ASSUME NEW m \in 1..Len(mid)
      PROVE  \E n \in 1..Len(R) : R[n] = mid[m]
  <2>1. m + i - 1 \in 1..Len(R) /\ ~ m + i - 1 < i /\ m + i - 1 <= i - 1 + Len(mid)
    BY <1>1, <1>2
  <2>2. m + i - 1 - i + 1 = m
    BY <1>2
  <2>3. R[m + i - 1] = mid[m + i - 1 - i + 1]
    BY <2>1, <1>1
  <2> QED BY <2>1, <2>2, <2>3
<1>5. ASSUME NEW m \in 1..Len(l), m < i \/ m > j
      PROVE  \E n \in 1..Len(R) : R[n] = l[m]
  <2>1. CASE m < i
    <3>1. m \in 1..Len(R) /\ R[m] = l[m]
      BY <2>1, <1>1, <1>2
    <3> QED BY <3>1
  <2>2. CASE m > j
    <3> DEFINE n == m - j + i - 1 + Len(mid)
    <3>1. n \in 1..Len(R) /\ ~ n < i /\ ~ n <= i - 1 + Len(mid)
      BY <2>2, <1>1, <1>2
    <3>2. n - i + 1 - Len(mid) + j = m
      BY <1>2
    <3> QED BY <3>1, <3>2, <1>1
  <2> QED BY <1>5, <2>1, <2>2
<1> QED BY <1>3, <1>4, <1>5 DEF R, Members

(* A list stays in order when the replacement fits between its neighbours. *)
LEMMA SpliceOrdered ==
  ASSUME NEW l \in Seq(BlockType), NEW mid \in Seq(BlockType),
         NEW i \in 1..(Len(l) + 1), NEW j \in (i - 1)..Len(l),
         Ordered(l), Ordered(mid),
         \A m \in 1..Len(l) : l[m].size > 0,
         \A m \in 1..Len(mid) : \A n \in 1..(i - 1) : End(l[n]) < mid[m].start,
         \A m \in 1..Len(mid) : \A n \in (j + 1)..Len(l) : End(mid[m]) < l[n].start
  PROVE  Ordered(Splice(l, i, j, mid))
<1> DEFINE R == Splice(l, i, j, mid)
<1>1. Spliced(R, l, i, j, mid)
  BY SpliceElements
<1> HIDE DEF R
<1>2. Len(l) \in Nat /\ Len(mid) \in Nat /\ i \in Int /\ j \in Int /\ i >= 1 /\ i - 1 <= j /\ j <= Len(l)
  BY LenProperties
<1>3. SUFFICES ASSUME NEW p \in 1..Len(R), NEW q \in 1..Len(R), p < q
               PROVE  End(R[p]) < R[q].start
  BY DEF Ordered, R
<1>4. Len(R) = i - 1 + Len(mid) + Len(l) - j
  BY <1>1 DEF Spliced
<1> DEFINE k == i - 1 + Len(mid)
<1>5. \A n \in 1..Len(R) :
        /\ n < i => R[n] = l[n] /\ n \in 1..(i - 1) /\ n \in 1..Len(l)
        /\ n >= i /\ n <= k => R[n] = mid[n - i + 1] /\ n - i + 1 \in 1..Len(mid)
        /\ n > k => /\ R[n] = l[n - i + 1 - Len(mid) + j]
                    /\ n - i + 1 - Len(mid) + j \in (j + 1)..Len(l)
                    /\ n - i + 1 - Len(mid) + j \in 1..Len(l)
  <2> TAKE n \in 1..Len(R)
  <2>1. R[n] = IF n < i THEN l[n]
               ELSE IF n <= i - 1 + Len(mid) THEN mid[n - i + 1]
               ELSE l[n - i + 1 - Len(mid) + j]
    BY <1>1 DEF Spliced
  <2>2. n \in Int /\ n >= 1 /\ n <= Len(R)
    BY <1>2, <1>4
  <2>3. n < i => R[n] = l[n] /\ n \in 1..(i - 1) /\ n \in 1..Len(l)
    BY <2>1, <2>2, <1>2
  <2>4. n >= i /\ n <= k => R[n] = mid[n - i + 1] /\ n - i + 1 \in 1..Len(mid)
    BY <2>1, <2>2, <1>2
  <2>5. n > k => ~ n < i /\ ~ n <= i - 1 + Len(mid)
    BY <2>2, <1>2
  <2>6. n > k => /\ n - i + 1 - Len(mid) + j \in (j + 1)..Len(l)
                 /\ n - i + 1 - Len(mid) + j \in 1..Len(l)
    BY <2>2, <1>2, <1>4
  <2> QED BY <2>1, <2>3, <2>4, <2>5, <2>6
<1>6. CASE q < i
  <2>1. p \in 1..Len(l) /\ q \in 1..Len(l) /\ R[p] = l[p] /\ R[q] = l[q]
    BY <1>2, <1>3, <1>5, <1>6
  <2> QED BY <2>1, <1>3 DEF Ordered
<1>7. CASE p < i /\ q >= i /\ q <= k
  BY <1>5, <1>7, Zenon
<1>8. CASE p < i /\ q > k
  <2> DEFINE v == q - i + 1 - Len(mid) + j
  <2>1. R[p] = l[p] /\ p \in 1..Len(l) /\ R[q] = l[v] /\ v \in 1..Len(l)
    BY <1>5, <1>8
  <2>2. p < v
    BY <1>2, <1>8
  <2> HIDE DEF v
  <2> QED BY <2>1, <2>2 DEF Ordered
<1>9. CASE p >= i /\ q <= k
  <2> DEFINE u == p - i + 1
             v == q - i + 1
  <2>1. R[p] = mid[u] /\ u \in 1..Len(mid) /\ R[q] = mid[v] /\ v \in 1..Len(mid)
    BY <1>2, <1>3, <1>5, <1>9
  <2>2. u < v
    BY <1>2, <1>3
  <2> HIDE DEF u, v
  <2> QED BY <2>1, <2>2 DEF Ordered
<1>10. CASE p >= i /\ p <= k /\ q > k
  BY <1>5, <1>10, Zenon
<1>11. CASE p > k
  <2> DEFINE u == p - i + 1 - Len(mid) + j
             v == q - i + 1 - Len(mid) + j
  <2>1. q > k
    BY <1>2, <1>3, <1>11
  <2>2. R[p] = l[u] /\ u \in 1..Len(l) /\ R[q] = l[v] /\ v \in 1..Len(l)
    BY <1>5, <1>11, <2>1
  <2>3. u < v
    BY <1>2, <1>3
  <2> HIDE DEF u, v
  <2> QED BY <2>2, <2>3 DEF Ordered
<1>12. k \in Int /\ p \in Int /\ q \in Int
  BY <1>2
<1> HIDE DEF k
<1> QED BY <1>2, <1>3, <1>6, <1>7, <1>8, <1>9, <1>10, <1>11, <1>12

-----------------------------------------------------------------------------
(* Arithmetic *)

LEMMA Modulo ==
  ASSUME NEW m \in Nat \ {0}, NEW x \in Int
  PROVE  x % m \in 0..(m - 1) /\ x = m * (x \div m) + (x % m)
  OBVIOUS

LEMMA MultipleOf ==
  ASSUME NEW m \in Nat \ {0}, NEW q \in Int
  PROVE  (m * q) % m = 0
  OBVIOUS

(* Multiples of m are closed under sums and differences. *)
LEMMA SumOfMultiples ==
  ASSUME NEW m \in Nat \ {0}, NEW x \in Int, NEW y \in Int, x % m = 0, y % m = 0
  PROVE  (x + y) % m = 0 /\ (x - y) % m = 0
<1>1. x = m * (x \div m) /\ y = m * (y \div m) /\ x \div m \in Int /\ y \div m \in Int
  BY Modulo
<1> DEFINE a == x \div m
           b == y \div m
<1>2. x + y = m * (a + b) /\ x - y = m * (a - b) /\ a + b \in Int /\ a - b \in Int
  BY <1>1
<1> HIDE DEF a, b
<1>3. (m * (a + b)) % m = 0 /\ (m * (a - b)) % m = 0
  BY <1>2, MultipleOf, Zenon
<1> QED BY <1>2, <1>3

(* A multiple of m that is not zero is no closer to zero than m. *)
LEMMA SmallMultiple ==
  ASSUME NEW m \in Nat \ {0}, NEW x \in Int, x % m = 0, -m < x, x < m
  PROVE  x = 0
  OBVIOUS

(* Round() rounds up to a multiple of MIN_MEMBLOCK_SIZE. *)
LEMMA RoundsUp ==
  ASSUME NEW size \in Nat \ {0}
  PROVE  /\ Round(size) \in Nat \ {0}
         /\ Round(size) >= size
         /\ Round(size) % MIN_MEMBLOCK_SIZE = 0
         /\ Round(size) >= MIN_MEMBLOCK_SIZE
<1> DEFINE M == MIN_MEMBLOCK_SIZE
           q == (size + M - 1) \div M
<1>1. M \in Nat \ {0}
  BY MemBlockAssumption
<1>2. q \in Int /\ q * M >= size /\ q * M = M * q
  BY <1>1
<1>3. q >= 1
  BY <1>1, <1>2
<1>4. q * M >= M
  BY <1>1, <1>2, <1>3
<1>5. (M * q) % M = 0
  BY <1>1, <1>2, MultipleOf
<1> QED BY <1>1, <1>2, <1>4, <1>5 DEF Round

(* Rounding again changes nothing: free_memblock() finds the size that was *)
(* allocated. *)
LEMMA RoundsOnce ==
  ASSUME NEW size \in Nat, size % MIN_MEMBLOCK_SIZE = 0
  PROVE  Round(size) = size
<1> DEFINE M == MIN_MEMBLOCK_SIZE
           q == size \div M
<1>1. M \in Nat \ {0}
  BY MemBlockAssumption
<1>2. q \in Int /\ size = M * q
  BY <1>1, Modulo
<1>3. (M * q + M - 1) \div M = q
  BY <1>1, <1>2
<1> QED BY <1>1, <1>2, <1>3 DEF Round

-----------------------------------------------------------------------------
(* The inductive invariant *)

M == MIN_MEMBLOCK_SIZE

TypeInv ==
  /\ free_blocks \in Seq(BlockType)
  /\ allocated \in SUBSET BlockType
  /\ cached \in SUBSET allocated
  /\ request \in Requests \union {NoRequest}
  /\ phase \in {"search", "discard"}

(* A free block is inside the heap, and its ends are multiples of the      *)
(* smallest size except where they are the ends of the heap. *)
FreeBlock(b) ==
  /\ b.size > 0
  /\ HeapStart <= b.start /\ End(b) <= HeapEnd
  /\ b.start = HeapStart \/ b.start % M = 0
  /\ End(b) = HeapEnd \/ End(b) % M = 0

HeldBlock(b) == b.size > 0 /\ b.start % M = 0 /\ b.size % M = 0

Inv ==
  /\ TypeInv
  /\ \A i \in 1..Len(free_blocks) : FreeBlock(free_blocks[i])
  /\ \A b \in allocated : HeldBlock(b)
  /\ Coalesced
  /\ NoOverlap
  /\ LeaksOnlyAtEnds

LEMMA Constants ==
  M \in Nat \ {0} /\ HeapStart \in Nat /\ HeapLen \in Nat \ {0} /\ HeapEnd \in Nat /\ HeapEnd = HeapStart + HeapLen
<1>1. M \in Nat \ {0} /\ HeapStart \in Nat /\ HeapSize \in Nat /\ HeapSize >= M
  BY MemBlockAssumption DEF M
<1>2. (HeapSize \div M) \in Nat \ {0}
  BY <1>1
<1>3. (HeapSize \div M) * M \in Nat \ {0}
  BY <1>1, <1>2
<1> QED BY <1>1, <1>3 DEF HeapEnd, HeapLen, M

LEMMA Initially == MemInit => Inv
<1> SUFFICES ASSUME MemInit PROVE Inv
  OBVIOUS
<1>1. HeapStart \in Nat /\ HeapLen \in Nat \ {0} /\ HeapEnd = HeapStart + HeapLen /\ M \in Nat \ {0}
  BY Constants
<1>2. /\ free_blocks \in Seq(BlockType) /\ Len(free_blocks) = 1
      /\ free_blocks[1] = [start |-> HeapStart, size |-> HeapLen]
  BY <1>1 DEF MemInit, BlockType
<1>3. TypeInv
  BY <1>2 DEF MemInit, TypeInv
<1>4. \A i \in 1..Len(free_blocks) : FreeBlock(free_blocks[i])
  BY <1>1, <1>2 DEF FreeBlock, End
<1>5. Coalesced
  BY <1>2 DEF Coalesced
<1>6. LeaksOnlyAtEnds
  BY <1>1, <1>2 DEF LeaksOnlyAtEnds, End, M
<1> QED BY <1>3, <1>4, <1>5, <1>6 DEF MemInit, Inv, NoOverlap

-----------------------------------------------------------------------------
(* alloc_memblock() *)

(* What is cut out of a free block with enough space: it is aligned, and   *)
(* the parts before and after it are inside the free block. *)
LEMMA CutFacts ==
  ASSUME Inv, request \in Requests, NEW i \in 1..Len(free_blocks)
  PROVE  /\ Alignment(request) \in Nat \ {0}
         /\ Alignment(request) % M = 0
         /\ pre_size(request, i) \in Nat
         /\ pre_size(request, i) < Alignment(request)
         /\ post_size(request, i) \in Int
         /\ Round(request.size) \in Nat \ {0}
         /\ Round(request.size) % M = 0
         /\ Round(request.size) >= M
         /\ (free_blocks[i].start + pre_size(request, i)) % M = 0
         /\ (free_blocks[i].start + pre_size(request, i) - request.offset)
              % Alignment(request) = 0
<1> DEFINE A == Alignment(request)
           f == free_blocks[i].start
           z == free_blocks[i].size
           o == request.offset
           p == pre_size(request, i)
           d == o - f
<1>1. M \in Nat \ {0}
  BY Constants
<1>2. request.size \in Nat \ {0} /\ request.align \in Nat \ {0} /\ o \in Int
  BY MemBlockAssumption
<1>3. o % M = 0 /\ (request.align > M => request.align % M = 0)
  BY AlignedRequests DEF M
<1>4. M % M = 0
  BY <1>1
<1>5. A \in Nat \ {0} /\ A % M = 0
  BY <1>1, <1>2, <1>3, <1>4 DEF Alignment, M
<1>6. free_blocks[i] \in BlockType
  BY ElementOfSeq DEF Inv, TypeInv
<1>7. f \in Int /\ z \in Int
  BY <1>6 DEF BlockType
<1>8. p = d % A /\ d \in Int
  BY <1>2, <1>7 DEF pre_size
<1>9. Round(request.size) \in Nat \ {0} /\ Round(request.size) % M = 0 /\ Round(request.size) >= M
  BY <1>2, RoundsUp DEF M
<1>10. post_size(request, i) = z - p - Round(request.size)
  BY DEF post_size
<1> HIDE DEF A, f, z, o, p, d
<1>11. p \in Nat /\ p < A /\ d = A * (d \div A) + p /\ d \div A \in Int
  <2>1. d % A \in 0..(A - 1) /\ d = A * (d \div A) + (d % A)
    BY ONLY <1>5, <1>8, Modulo, Zenon
  <2>2. d \div A \in Int
    BY ONLY <1>5, <1>8
  <2> QED BY <2>1, <2>2, <1>5, <1>8
<1> DEFINE q == d \div A
<1>12. f + p = o - A * q /\ q \in Int
  BY <1>2, <1>5, <1>7, <1>8, <1>11 DEF d
<1> HIDE DEF q
<1>13. f + p - o = A * (-q) /\ -q \in Int
  BY <1>2, <1>5, <1>7, <1>11, <1>12
<1>14. (f + p - o) % A = 0
  BY <1>5, <1>13, MultipleOf
<1>15. (A * q) % M = 0
  <2> DEFINE c == A \div M
  <2>1. A = M * c /\ c \in Int
    BY <1>1, <1>5, Modulo
  <2> HIDE DEF c
  <2>2. A * q = M * (c * q) /\ c * q \in Int
    BY <1>1, <1>12, <2>1
  <2> QED BY <1>1, <2>2, MultipleOf
<1>16. (f + p) % M = 0
  <2>1. A * q \in Int
    BY <1>5, <1>12
  <2>2. (o - A * q) % M = 0
    BY <1>1, <1>2, <1>3, <1>15, <2>1, SumOfMultiples
  <2> QED BY <1>12, <2>2
<1> QED BY <1>5, <1>7, <1>9, <1>10, <1>11, <1>14, <1>16 DEF A, f, p, o

(* The remainder is the part before, if large enough, then the part after. *)
LEMMA RemainderFacts ==
  ASSUME Inv, request \in Requests, NEW i \in 1..Len(free_blocks),
         Fits(request, i),
         NEW pre, pre = [start |-> free_blocks[i].start, size |-> pre_size(request, i)],
         NEW post, post = [start |-> End(Cut(request, i)), size |-> post_size(request, i)]
  PROVE  /\ Remainder(request, i) \in Seq(BlockType)
         /\ Ordered(Remainder(request, i))
         /\ \A m \in 1..Len(Remainder(request, i)) :
              \/ Remainder(request, i)[m] = pre /\ pre.size >= M
              \/ Remainder(request, i)[m] = post /\ post.size >= M
         /\ pre.size >= M =>
              \E m \in 1..Len(Remainder(request, i)) : Remainder(request, i)[m] = pre
         /\ post.size >= M =>
              \E m \in 1..Len(Remainder(request, i)) : Remainder(request, i)[m] = post
<1> DEFINE R == Remainder(request, i)
<1>1. /\ M \in Nat \ {0} /\ pre_size(request, i) \in Nat /\ post_size(request, i) \in Int
      /\ Round(request.size) \in Nat \ {0}
  BY Constants, CutFacts
<1>2. free_blocks[i] \in BlockType
  BY ElementOfSeq DEF Inv, TypeInv
<1>3. free_blocks[i].start \in Int
  BY <1>2 DEF BlockType
<1>4. pre \in BlockType /\ post \in BlockType /\ End(pre) < post.start
  BY <1>1, <1>3 DEF BlockType, End, Cut
<1>5. R = (IF pre.size >= M THEN <<pre>> ELSE <<>>) \o (IF post.size >= M THEN <<post>> ELSE <<>>)
  BY DEF Remainder, M
<1> HIDE DEF R
<1>6. CASE pre.size >= M /\ post.size >= M
  <2>1. R = <<pre>> \o <<post>>
    BY <1>5, <1>6
  <2>2. R \in Seq(BlockType) /\ Len(R) = 2 /\ R[1] = pre /\ R[2] = post
    BY <1>4, <2>1
  <2>3. Ordered(R)
    BY <1>4, <2>2 DEF Ordered
  <2> QED BY <1>6, <2>2, <2>3 DEF R
<1>7. CASE pre.size >= M /\ ~ post.size >= M
  <2>1. R = <<pre>> \o <<>>
    BY <1>5, <1>7
  <2>2. R \in Seq(BlockType) /\ Len(R) = 1 /\ R[1] = pre
    BY <1>4, <2>1
  <2> QED BY <1>7, <2>2 DEF R, Ordered
<1>8. CASE ~ pre.size >= M /\ post.size >= M
  <2>1. R = <<>> \o <<post>>
    BY <1>5, <1>8
  <2>2. R \in Seq(BlockType) /\ Len(R) = 1 /\ R[1] = post
    BY <1>4, <2>1
  <2> QED BY <1>8, <2>2 DEF R, Ordered
<1>9. CASE ~ pre.size >= M /\ ~ post.size >= M
  <2>1. R = <<>> \o <<>>
    BY <1>5, <1>9
  <2>2. R \in Seq(BlockType) /\ Len(R) = 0
    BY <2>1
  <2> QED BY <1>9, <2>2 DEF R, Ordered
<1> QED BY <1>6, <1>7, <1>8, <1>9

(* A turn of the loop that finds a block keeps the invariant. *)
LEMMA GrantKeeps ==
  ASSUME Inv, NEW i \in 1..Len(free_blocks), Grant(i)
  PROVE  Inv'
<1> DEFINE l == free_blocks
           mid == Remainder(request, i)
           f == free_blocks[i]
           cut == Cut(request, i)
           pre == [start |-> f.start, size |-> pre_size(request, i)]
           post == [start |-> End(cut), size |-> post_size(request, i)]
<1>1. request \in Requests /\ Fits(request, i)
  BY DEF Inv, TypeInv, Grant
<1>2. l \in Seq(BlockType) /\ Len(l) \in Nat /\ i \in 1..(Len(l) + 1) /\ i \in (i - 1)..Len(l)
  BY LenProperties DEF Inv, TypeInv
<1>3. \A n \in 1..Len(l) : l[n] \in BlockType /\ l[n].start \in Int /\ l[n].size \in Int
  <2>1. \A n \in 1..Len(l) : l[n] \in BlockType
    BY <1>2, ElementOfSeq
  <2> QED BY <2>1 DEF BlockType
<1>4. M \in Nat \ {0} /\ HeapStart \in Nat /\ HeapEnd \in Nat
  BY Constants
<1>5. /\ pre_size(request, i) \in Nat /\ post_size(request, i) \in Nat
      /\ Round(request.size) \in Nat \ {0} /\ Round(request.size) % M = 0
      /\ (f.start + pre_size(request, i)) % M = 0
      /\ f.size = pre_size(request, i) + Round(request.size) + post_size(request, i)
  <2>1. /\ pre_size(request, i) \in Nat /\ post_size(request, i) \in Int
        /\ Round(request.size) \in Nat \ {0} /\ Round(request.size) % M = 0
        /\ (f.start + pre_size(request, i)) % M = 0
    BY <1>1, CutFacts
  <2>2. post_size(request, i) >= 0
    BY <1>1 DEF Fits
  <2>3. post_size(request, i) = f.size - pre_size(request, i) - Round(request.size)
    BY DEF post_size
  <2>4. f.size \in Int
    BY <1>3
  <2> QED BY <2>1, <2>2, <2>3, <2>4
<1>6. /\ cut \in BlockType /\ cut.size > 0 /\ cut.start % M = 0 /\ cut.size % M = 0
      /\ f.start <= cut.start /\ End(cut) <= End(f)
      /\ cut.start = f.start + pre.size /\ End(f) = End(cut) + post.size
      /\ End(cut) % M = 0 /\ End(pre) = cut.start /\ post.start = End(cut)
  <2>1. /\ cut.start = f.start + pre_size(request, i) /\ cut.size = Round(request.size)
        /\ cut = [start |-> f.start + pre_size(request, i), size |-> Round(request.size)]
    BY DEF Cut
  <2>2. f.start \in Int /\ f.size \in Int
    BY <1>3
  <2>3. End(cut) % M = 0
    <3>1. cut.start \in Int /\ cut.size \in Int /\ cut.start % M = 0 /\ cut.size % M = 0
      BY <1>5, <2>1, <2>2
    <3> HIDE DEF cut
    <3> QED BY <3>1, <1>4, SumOfMultiples DEF End
  <2> DEFINE p == pre_size(request, i)
             z == Round(request.size)
             t == post_size(request, i)
             a == f.start
  <2>4. /\ cut.start = a + p /\ cut.size = z /\ pre.start = a /\ pre.size = p
        /\ End(cut) = a + p + z /\ End(pre) = a + p /\ post.start = a + p + z
        /\ post.size = t /\ End(f) = a + (p + z + t)
    BY <1>5, <2>1 DEF End
  <2>5. p \in Nat /\ z \in Nat \ {0} /\ t \in Nat /\ a \in Int
    BY <1>5, <2>2
  <2>6. cut \in BlockType
    BY <2>1, <2>5 DEF BlockType
  <2>7. cut.start % M = 0 /\ cut.size % M = 0
    BY <1>5, <2>4
  <2> HIDE DEF p, z, t, a, cut, pre, post
  <2> QED BY <2>3, <2>4, <2>5, <2>6, <2>7 DEF a
<1>7. /\ mid \in Seq(BlockType) /\ Ordered(mid)
      /\ \A m \in 1..Len(mid) : \/ mid[m] = pre /\ pre.size >= M
                                \/ mid[m] = post /\ post.size >= M
      /\ pre.size >= M => \E m \in 1..Len(mid) : mid[m] = pre
      /\ post.size >= M => \E m \in 1..Len(mid) : mid[m] = post
  BY <1>1, RemainderFacts
<1>8. \A m \in 1..Len(mid) :
        /\ mid[m].size > 0 /\ f.start <= mid[m].start /\ End(mid[m]) <= End(f)
        /\ Apart(cut, mid[m])
        /\ mid[m].start = f.start \/ mid[m].start % M = 0
        /\ End(mid[m]) = End(f) \/ End(mid[m]) % M = 0
  <2>1. f.start \in Int /\ f.size \in Int /\ cut.start \in Int /\ cut.size \in Int
    BY <1>3, <1>6 DEF BlockType
  <2>2. ASSUME pre.size >= M
        PROVE  /\ pre.size > 0 /\ f.start <= pre.start /\ End(pre) <= End(f)
               /\ Apart(cut, pre) /\ pre.start = f.start /\ End(pre) % M = 0
    <3>1. pre.size \in Int /\ post.size \in Int /\ pre.start = f.start /\ post.size >= 0
      BY <1>5
    <3>2. End(pre) = cut.start /\ cut.start % M = 0 /\ End(cut) = cut.start + cut.size
      BY <1>6 DEF End
    <3> HIDE DEF pre, post, cut, f
    <3>3. End(f) = End(cut) + post.size /\ cut.size > 0
      BY <1>6
    <3>4. pre.size > 0 /\ f.start <= pre.start /\ End(pre) <= End(f) /\ Apart(cut, pre)
      BY <1>4, <2>1, <2>2, <3>1, <3>2, <3>3 DEF Apart
    <3> QED BY <3>1, <3>2, <3>4
  <2>3. ASSUME post.size >= M
        PROVE  /\ post.size > 0 /\ f.start <= post.start /\ End(post) <= End(f)
               /\ Apart(cut, post) /\ post.start % M = 0 /\ End(post) = End(f)
    <3>1. pre.size \in Int /\ post.size \in Int /\ End(post) = post.start + post.size
      BY <1>5 DEF End
    <3>2. End(cut) = cut.start + cut.size
      BY DEF End
    <3> HIDE DEF pre, post, cut, f
    <3>3. /\ End(f) = End(cut) + post.size /\ cut.size > 0 /\ post.start = End(cut)
          /\ f.start <= cut.start
      BY <1>6
    <3>4. /\ post.size > 0 /\ f.start <= post.start /\ End(post) <= End(f)
          /\ Apart(cut, post) /\ End(post) = End(f)
      BY <1>4, <2>1, <2>3, <3>1, <3>2, <3>3, SMTT(30) DEF Apart
    <3> QED BY <1>6, <3>4
  <2> HIDE DEF pre, post, cut, f, mid
  <2> QED BY <1>7, <2>2, <2>3
<1> DEFINE R == Splice(l, i, i, mid)
<1>9. /\ free_blocks' = R /\ allocated' = allocated \union {cut}
      /\ cached' = cached /\ request' = NoRequest /\ phase' = phase
  BY DEF Grant
<1>10. R \in Seq(BlockType)
  BY <1>2, <1>7, SpliceElements
<1>11. Members(R, l, i, i, mid)
  BY <1>2, <1>7, SpliceMembers
<1>12. Ordered(l)
  BY DEF Inv, Coalesced, Ordered
<1>13. \A m \in 1..Len(l) : FreeBlock(l[m])
  BY DEF Inv
<1> HIDE DEF R, mid, l, f, cut, pre, post
<1>14. \A m \in 1..Len(l) : m # i => End(l[m]) < f.start \/ End(f) < l[m].start
  BY <1>2, <1>12 DEF Ordered, f, l
<1>15. FreeBlock(f) /\ f.start \in Int /\ f.size \in Int /\ End(f) \in Int
  BY <1>3, <1>13 DEF f, l, End
<1>16. cut.start \in Int /\ cut.size \in Int /\ End(cut) \in Int
  BY <1>6 DEF BlockType, End
<1>17. \A m \in 1..Len(mid) : mid[m].start \in Int /\ mid[m].size \in Int /\ End(mid[m]) \in Int
  <2>1. \A m \in 1..Len(mid) : mid[m] \in BlockType
    BY <1>7, ElementOfSeq
  <2> QED BY <2>1 DEF BlockType, End
<1>18. \A m \in 1..Len(l) : End(l[m]) \in Int
  BY <1>3 DEF End
<1>19. \A b \in allocated : b.start \in Int /\ b.size \in Int /\ End(b) \in Int /\ b.size > 0
  BY DEF Inv, TypeInv, BlockType, HeldBlock, End
<1>20. \A b \in allocated : Apart(b, f)
  BY DEF Inv, NoOverlap, f
<1>21. \A b \in allocated : Apart(b, cut) /\ Apart(cut, b) /\ \A m \in 1..Len(mid) : Apart(b, mid[m])
  <2> TAKE b \in allocated
  <2>1. Apart(b, f) /\ b.start \in Int /\ End(b) \in Int
    BY <1>19, <1>20
  <2>2. Apart(b, cut) /\ Apart(cut, b)
    BY <2>1, <1>6, <1>15, <1>16 DEF Apart
  <2>3. ASSUME NEW m \in 1..Len(mid) PROVE Apart(b, mid[m])
    BY <2>1, <1>8, <1>15, <1>17 DEF Apart
  <2> QED BY <2>2, <2>3
<1>22. \A m \in 1..Len(l) : m # i => Apart(cut, l[m])
  <2>1. f.start <= cut.start /\ End(cut) <= End(f)
    BY <1>6
  <2> SUFFICES ASSUME NEW m \in 1..Len(l), m # i PROVE Apart(cut, l[m])
    OBVIOUS
  <2>2. l[m].start \in Int /\ End(l[m]) \in Int
    BY <1>3, <1>18
  <2>3. End(l[m]) < f.start \/ End(f) < l[m].start
    BY <1>14
  <2> QED BY ONLY <2>1, <2>2, <2>3, <1>15, <1>16, SMTT(30) DEF Apart
<1>23. TypeInv'
  BY <1>6, <1>9, <1>10 DEF Inv, TypeInv
<1>24. \A n \in 1..Len(R) : FreeBlock(R[n])
  <2>1. \A m \in 1..Len(mid) : FreeBlock(mid[m])
    BY <1>4, <1>8, <1>15, <1>17, SMTT(30) DEF FreeBlock
  <2> QED BY <1>11, <1>13, <2>1 DEF Members
<1>25. \A b \in allocated' : HeldBlock(b)
  BY <1>6, <1>9 DEF Inv, HeldBlock
<1>26. Ordered(R)
  <2>1. \A m \in 1..Len(l) : l[m].size > 0
    BY <1>13 DEF FreeBlock
  <2>2. \A m \in 1..Len(mid) : \A n \in 1..(i - 1) : End(l[n]) < mid[m].start
    <3> TAKE m \in 1..Len(mid)
    <3> TAKE n \in 1..(i - 1)
    <3>1. n \in 1..Len(l) /\ n < i
      BY <1>2
    <3>2. End(l[n]) < f.start
      BY <3>1, <1>12 DEF Ordered, f, l
    <3> QED BY <3>1, <3>2, <1>8, <1>15, <1>17, <1>18, SMTT(30)
  <2>3. \A m \in 1..Len(mid) : \A n \in (i + 1)..Len(l) : End(mid[m]) < l[n].start
    <3> TAKE m \in 1..Len(mid)
    <3> TAKE n \in (i + 1)..Len(l)
    <3>1. n \in 1..Len(l) /\ i < n
      BY <1>2
    <3>2. End(f) < l[n].start
      BY <3>1, <1>12 DEF Ordered, f, l
    <3> QED BY <3>1, <3>2, <1>3, <1>8, <1>15, <1>17
  <2> QED BY <1>2, <1>7, <1>12, <2>1, <2>2, <2>3, SpliceOrdered DEF R
<1>27. Coalesced'
  BY <1>9, <1>26 DEF Coalesced, Ordered
<1>28. NoOverlap'
  <2>1. \A b \in allocated' : HeapStart <= b.start /\ End(b) <= HeapEnd
    <3>1. HeapStart <= cut.start /\ End(cut) <= HeapEnd
      BY <1>4, <1>6, <1>15, <1>16, SMTT(30) DEF FreeBlock
    <3> QED BY <1>9, <3>1 DEF Inv, NoOverlap
  <2>2. \A b, c \in allocated' : b # c => Apart(b, c)
    BY <1>9, <1>21 DEF Inv, NoOverlap
  <2>3. \A b \in allocated' : \A n \in 1..Len(R) : Apart(b, R[n])
    <3> SUFFICES ASSUME NEW b \in allocated', NEW n \in 1..Len(R) PROVE Apart(b, R[n])
      OBVIOUS
    <3>1. CASE b = cut
      <4>1. \A m \in 1..Len(mid) : Apart(cut, mid[m])
        BY <1>8
      <4>2. \A m \in 1..Len(l) : m < i \/ m > i => Apart(cut, l[m])
        BY <1>2, <1>22
      <4> QED BY ONLY <3>1, <4>1, <4>2, <1>11, n \in 1..Len(R), SMTT(30) DEF Members
    <3>2. CASE b \in allocated
      <4>1. \A m \in 1..Len(l) : Apart(b, l[m])
        BY <3>2 DEF Inv, NoOverlap, l
      <4> QED BY <3>2, <4>1, <1>11, <1>21 DEF Members
    <3> QED BY <1>9, <3>1, <3>2
  <2>4. \A b \in allocated' : \A n \in 1..Len(free_blocks') : Apart(b, free_blocks'[n])
    BY <1>9, <2>3
  <2> HIDE DEF R
  <2> QED BY <2>1, <2>2, <2>4 DEF NoOverlap
<1>29. LeaksOnlyAtEnds'
  <2> SUFFICES ASSUME NEW a \in HeapStart..(HeapEnd - M), a % M = 0
               PROVE  \/ \E b \in allocated' : b.start <= a /\ a < End(b)
                      \/ \E n \in 1..Len(R) : R[n].start <= a /\ a < End(R[n])
    BY <1>9 DEF LeaksOnlyAtEnds, M
  <2>1. CASE \E b \in allocated : b.start <= a /\ a < End(b)
    BY <1>9, <2>1
  <2>2. CASE \E m \in 1..Len(l) : m # i /\ l[m].start <= a /\ a < End(l[m])
    BY <1>11, <1>2, <2>2, SMTT(30) DEF Members
  <2>3. CASE f.start <= a /\ a < End(f)
    <3>1. a \in Int /\ a + M <= HeapEnd
      BY <1>4
    <3>2. CASE a < cut.start
      <4>1. (cut.start - a) % M = 0
        BY <1>4, <1>6, <1>16, <3>1, SumOfMultiples
      <4>2. ~ cut.start - a < M
        BY <1>4, <1>16, <3>1, <3>2, <4>1, SmallMultiple
      <4>3. pre.size \in Int /\ pre.size >= M /\ pre.start = f.start /\ End(pre) = cut.start
        <5>1. pre.size \in Int /\ pre.start = f.start
          BY <1>5 DEF pre
        <5>2. cut.start = f.start + pre.size /\ End(pre) = cut.start
          BY <1>6
        <5> QED BY ONLY <5>1, <5>2, <1>4, <1>15, <1>16, <2>3, <3>1, <4>2
      <4>4. PICK m \in 1..Len(mid) : mid[m] = pre
        BY <1>7, <4>3
      <4>5. PICK n \in 1..Len(R) : R[n] = mid[m]
        BY <1>11 DEF Members
      <4> QED BY <2>3, <3>2, <4>3, <4>4, <4>5
    <3>3. CASE cut.start <= a /\ a < End(cut)
      BY <1>9, <3>3
    <3>4. CASE End(cut) <= a
      <4>1. post.size \in Int /\ post.start = End(cut) /\ End(post) = End(f) /\ End(f) = End(cut) + post.size
        BY <1>5, <1>6 DEF post, End
      <4>2. End(f) - a >= M
        <5>1. CASE End(f) = HeapEnd
          BY <5>1, <1>4, <1>15, <3>1
        <5>2. CASE End(f) % M = 0
          <6>1. (End(f) - a) % M = 0
            BY <5>2, <1>4, <1>15, <3>1, SumOfMultiples
          <6> QED BY <6>1, <1>4, <1>15, <2>3, <3>1, SmallMultiple
        <5> QED BY <5>1, <5>2, <1>15 DEF FreeBlock
      <4>3. post.size >= M
        BY <1>4, <1>15, <1>16, <3>1, <3>4, <4>1, <4>2
      <4> QED BY <1>7, <1>11, <2>3, <3>4, <4>1, <4>3, SMTT(30) DEF Members
    <3> QED BY <1>16, <3>1, <3>2, <3>3, <3>4
  <2>4. \/ \E b \in allocated : b.start <= a /\ a < End(b)
        \/ \E m \in 1..Len(l) : l[m].start <= a /\ a < End(l[m])
    BY DEF Inv, LeaksOnlyAtEnds, M, l
  <2> QED BY <2>1, <2>2, <2>3, <2>4 DEF f, l
<1>30. \A n \in 1..Len(free_blocks') : FreeBlock(free_blocks'[n])
  BY <1>9, <1>24
<1> QED BY <1>23, <1>25, <1>27, <1>28, <1>29, <1>30 DEF Inv, FreeBlock, HeldBlock, M, HeapEnd, HeapLen

-----------------------------------------------------------------------------
(* free_memblock() *)

(* Where the block goes: the free blocks before k end at or below it, the  *)
(* others start at or above its end. *)
LEMMA Position ==
  ASSUME Inv, NEW b \in allocated, NEW k \in 1..(Len(free_blocks) + 1),
         \A i \in 1..(k - 1) : free_blocks[i].start < End(b),
         k <= Len(free_blocks) => free_blocks[k].start >= End(b)
  PROVE  /\ \A m \in 1..Len(free_blocks) : m < k => End(free_blocks[m]) <= b.start
         /\ \A m \in 1..Len(free_blocks) : m >= k => free_blocks[m].start >= End(b)
<1> DEFINE l == free_blocks
<1>1. Len(l) \in Nat /\ \A n \in 1..Len(l) : l[n] \in BlockType
  BY LenProperties, ElementOfSeq DEF Inv, TypeInv
<1>2. \A n \in 1..Len(l) : l[n].start \in Int /\ End(l[n]) \in Int /\ l[n].start < End(l[n])
  BY <1>1 DEF BlockType, End, Inv, FreeBlock
<1>3. b.start \in Int /\ End(b) \in Int /\ b.start < End(b)
  BY DEF Inv, TypeInv, BlockType, HeldBlock, End
<1>4. \A n \in 1..Len(l) : Apart(b, l[n])
  BY DEF Inv, NoOverlap
<1>5. Ordered(l)
  BY DEF Inv, Coalesced, Ordered
<1>6. k \in Nat
  BY <1>1
<1> HIDE DEF l
<1>7. ASSUME NEW m \in 1..Len(l), m < k PROVE End(l[m]) <= b.start
  <2>1. m \in 1..(k - 1)
    BY <1>1, <1>6, <1>7
  <2>2. l[m].start < End(b)
    BY <2>1 DEF l
  <2> QED BY <2>2, <1>2, <1>3, <1>4 DEF Apart
<1>8. ASSUME NEW m \in 1..Len(l), m >= k PROVE l[m].start >= End(b)
  <2>1. k \in 1..Len(l) /\ l[k].start >= End(b)
    BY <1>1, <1>6, <1>8 DEF l
  <2>2. m = k \/ k < m
    BY <1>1, <1>6, <1>8
  <2>3. CASE k < m
    <3>1. End(l[k]) < l[m].start
      BY <2>1, <2>3, <1>5 DEF Ordered
    <3> QED BY <2>1, <3>1, <1>2, <1>3, SMTT(30)
  <2> QED BY <2>1, <2>2, <2>3
<1> QED BY <1>7, <1>8 DEF l

(* Freeing a block that is held keeps the invariant. *)
LEMMA FreeKeeps ==
  ASSUME Inv, NEW b \in allocated, free_memblock(b.start, b.size),
         request' = request, phase' \in {"search", "discard"}
  PROVE  Inv' /\ allocated' = allocated \ {b} /\ cached' = cached \ {b}
<1> DEFINE l == free_blocks
<1>1. b \in BlockType /\ b.start \in Int /\ b.size \in Nat /\ End(b) \in Int
      /\ b.start < End(b) /\ b = [start |-> b.start, size |-> b.size]
  BY DEF Inv, TypeInv, BlockType, HeldBlock, End
<1>2. b.start % M = 0 /\ b.size % M = 0 /\ End(b) % M = 0
  <2>1. b.start % M = 0 /\ b.size % M = 0
    BY DEF Inv, HeldBlock
  <2> QED BY <1>1, <2>1, Constants, SumOfMultiples DEF End
<1>3. Round(b.size) = b.size
  BY <1>1, <1>2, RoundsOnce DEF M
<1>4. PICK k \in 1..(Len(l) + 1) :
         /\ \A i \in 1..(k - 1) : l[i].start < End(b)
         /\ k <= Len(l) => l[k].start >= End(b)
         /\ free_blocks' = Inserted(l, b.start, b.size, k)
  BY <1>3 DEF free_memblock, End
<1>5. allocated' = allocated \ {b} /\ cached' = cached \ {b}
  BY <1>1, <1>3 DEF free_memblock
<1>6. /\ l \in Seq(BlockType) /\ Len(l) \in Nat /\ k \in Nat /\ k >= 1 /\ k <= Len(l) + 1
      /\ \A n \in 1..Len(l) : l[n] \in BlockType
  BY LenProperties, ElementOfSeq DEF Inv, TypeInv
<1>7. \A n \in 1..Len(l) : /\ l[n].start \in Int /\ End(l[n]) \in Int /\ l[n].size > 0
                           /\ l[n].start < End(l[n]) /\ FreeBlock(l[n])
  BY <1>6 DEF BlockType, End, Inv, FreeBlock
<1>8. /\ \A m \in 1..Len(l) : m < k => End(l[m]) <= b.start
      /\ \A m \in 1..Len(l) : m >= k => l[m].start >= End(b)
  BY <1>4, Position
<1>9. Ordered(l)
  BY DEF Inv, Coalesced, Ordered
<1> DEFINE before == k > 1 /\ End(l[k - 1]) = b.start
           after == k <= Len(l) /\ l[k].start = End(b)
           i == IF before THEN k - 1 ELSE k
           j == IF after THEN k ELSE k - 1
           s == IF before THEN l[k - 1].start ELSE b.start
           e == IF after THEN End(l[k]) ELSE End(b)
           x == [start |-> s, size |-> e - s]
           R == Splice(l, i, j, <<x>>)
<1>10. free_blocks' = R
  BY <1>4 DEF Inserted, End
<1>11. before => k - 1 \in 1..Len(l)
  BY <1>6
<1>12. after => k \in 1..Len(l)
  BY <1>6
<1>13. i \in 1..(Len(l) + 1) /\ j \in (i - 1)..Len(l) /\ i \in Int /\ j \in Int
  BY <1>6
<1>14. s \in Int /\ e \in Int /\ s <= b.start /\ End(b) <= e
  BY <1>1, <1>7, <1>11, <1>12, SMTT(30)
<1>15. x \in BlockType /\ x.start = s /\ End(x) = e
  BY <1>14, SMTT(30) DEF BlockType, End
<1>16. <<x>> \in Seq(BlockType) /\ Len(<<x>>) = 1 /\ <<x>>[1] = x
  BY <1>15
<1>17. FreeBlock(x)
  <2>1. x.size > 0
    BY <1>1, <1>14
  <2>2. HeapStart <= b.start /\ End(b) <= HeapEnd
    BY DEF Inv, NoOverlap
  <2>3. HeapStart <= s /\ (s = HeapStart \/ s % M = 0)
    BY <2>2, <1>2, <1>7, <1>11 DEF FreeBlock
  <2>4. e <= HeapEnd /\ (e = HeapEnd \/ e % M = 0)
    BY <2>2, <1>2, <1>7, <1>12 DEF FreeBlock
  <2> HIDE DEF s, e, x
  <2> QED BY <2>1, <2>3, <2>4, <1>15 DEF FreeBlock
<1>18. \A n \in 1..(i - 1) : End(l[n]) < s
  <2> SUFFICES ASSUME NEW n \in 1..(i - 1) PROVE End(l[n]) < s
    OBVIOUS
  <2>1. n \in 1..Len(l) /\ n < k /\ n \in Int
    BY <1>6
  <2>2. CASE before
    <3>1. n < k - 1 /\ k - 1 \in 1..Len(l)
      BY <1>6, <1>11, <2>2
    <3> QED BY <2>1, <2>2, <3>1, <1>9 DEF Ordered
  <2>3. CASE ~ before
    <3>1. CASE n = k - 1
      BY <2>1, <2>3, <3>1, <1>1, <1>6, <1>7, <1>8
    <3>2. CASE n < k - 1
      <4>1. k - 1 \in 1..Len(l) /\ k - 1 < k
        BY <1>6, <2>1, <3>2
      <4>2. End(l[n]) < l[k - 1].start
        BY <2>1, <3>2, <4>1, <1>9 DEF Ordered
      <4>3. End(l[k - 1]) <= b.start
        BY <4>1, <1>8
      <4>4. s = b.start /\ l[k - 1].start < End(l[k - 1])
        BY <2>3, <4>1, <1>7
      <4>5. /\ l[k - 1].start \in Int /\ End(l[k - 1]) \in Int /\ End(l[n]) \in Int
            /\ b.start \in Int
        BY <2>1, <4>1, <1>1, <1>7
      <4> QED BY ONLY <4>2, <4>3, <4>4, <4>5
    <3> QED BY <1>6, <2>1, <3>1, <3>2
  <2> QED BY <2>2, <2>3
<1>19. \A n \in (j + 1)..Len(l) : e < l[n].start
  <2> SUFFICES ASSUME NEW n \in (j + 1)..Len(l) PROVE e < l[n].start
    OBVIOUS
  <2>1. n \in 1..Len(l) /\ n >= k /\ n \in Int
    BY <1>6
  <2>2. CASE after
    <3>1. k < n /\ k \in 1..Len(l)
      BY <1>6, <1>12, <2>2
    <3> QED BY <2>1, <2>2, <3>1, <1>9 DEF Ordered
  <2>3. CASE ~ after
    <3>1. CASE n = k
      BY <2>1, <2>3, <3>1, <1>1, <1>6, <1>7, <1>8
    <3>2. CASE k < n
      <4>1. k \in 1..Len(l) /\ k >= k
        BY <1>6, <2>1, <3>2
      <4>2. End(l[k]) < l[n].start
        BY <2>1, <3>2, <4>1, <1>9 DEF Ordered
      <4>3. End(b) <= l[k].start
        BY <4>1, <1>8
      <4>4. e = End(b) /\ l[k].start < End(l[k])
        BY <2>3, <4>1, <1>7
      <4>5. /\ l[k].start \in Int /\ End(l[k]) \in Int /\ l[n].start \in Int
            /\ End(b) \in Int
        BY <2>1, <4>1, <1>1, <1>7
      <4> QED BY ONLY <4>2, <4>3, <4>4, <4>5
    <3> QED BY <1>6, <2>1, <3>1, <3>2
  <2> QED BY <2>2, <2>3
<1>20. /\ \A m \in 1..Len(l) : m < i \/ m > j \/ (s <= l[m].start /\ End(l[m]) <= e)
  BY <1>1, <1>6, <1>7, <1>8, <1>14, SMTT(30)
<1>21. \A c \in allocated : c # b => Apart(c, x)
  <2> SUFFICES ASSUME NEW c \in allocated, c # b PROVE End(c) <= s \/ e <= c.start
    BY <1>15 DEF Apart
  <2>1. c.start \in Int /\ End(c) \in Int /\ c.start < End(c)
    BY DEF Inv, TypeInv, BlockType, HeldBlock, End
  <2>2. Apart(c, b)
    BY DEF Inv, NoOverlap
  <2>3. \A m \in 1..Len(l) : Apart(c, l[m])
    BY DEF Inv, NoOverlap
  <2>4. CASE End(c) <= b.start
    <3>1. CASE before
      <4>1. End(l[k - 1]) = b.start /\ s = l[k - 1].start /\ k - 1 \in 1..Len(l)
        BY <3>1, <1>11
      <4>2. End(c) <= s \/ End(l[k - 1]) <= c.start
        BY <4>1, <2>3 DEF Apart
      <4> QED BY ONLY <2>1, <2>4, <4>1, <4>2, <1>1
    <3> QED BY <2>4, <3>1
  <2>5. CASE End(b) <= c.start
    <3>1. CASE after
      <4>1. l[k].start = End(b) /\ e = End(l[k]) /\ k \in 1..Len(l)
        BY <3>1, <1>12
      <4>2. End(c) <= l[k].start \/ e <= c.start
        BY <4>1, <2>3 DEF Apart
      <4> QED BY ONLY <2>1, <2>5, <4>1, <4>2, <1>1
    <3> QED BY <2>5, <3>1
  <2> QED BY <2>2, <2>4, <2>5 DEF Apart
<1> HIDE DEF l, s, e, x, i, j, before, after, R
<1>22. R \in Seq(BlockType) /\ Members(R, l, i, j, <<x>>)
  BY <1>6, <1>13, <1>16, SpliceElements, SpliceMembers, Zenon DEF R
<1>23. Ordered(R)
  <2>1. Ordered(<<x>>)
    BY <1>16 DEF Ordered
  <2>2. \A m \in 1..Len(<<x>>) : \A n \in 1..(i - 1) : End(l[n]) < <<x>>[m].start
    BY <1>15, <1>16, <1>18
  <2>3. \A m \in 1..Len(<<x>>) : \A n \in (j + 1)..Len(l) : End(<<x>>[m]) < l[n].start
    BY <1>15, <1>16, <1>19
  <2>4. \A m \in 1..Len(l) : l[m].size > 0
    BY <1>7
  <2> QED BY <1>6, <1>9, <1>13, <1>16, <2>1, <2>2, <2>3, <2>4, SpliceOrdered, Zenon DEF R
<1>24. \A n \in 1..Len(R) : R[n] = x \/ \E m \in 1..Len(l) : (m < i \/ m > j) /\ R[n] = l[m]
  BY <1>16, <1>22 DEF Members
<1>25. PICK n \in 1..Len(R) : R[n] = x
  <2>1. 1 \in 1..Len(<<x>>)
    BY <1>16
  <2>2. \A m \in 1..Len(<<x>>) : \E n \in 1..Len(R) : R[n] = <<x>>[m]
    BY <1>22 DEF Members
  <2> QED BY <1>16, <2>1, <2>2
<1>26. TypeInv'
  BY <1>5, <1>10, <1>22 DEF Inv, TypeInv
<1>27. \A m \in 1..Len(free_blocks') : FreeBlock(free_blocks'[m])
  BY <1>7, <1>10, <1>17, <1>24
<1>28. \A c \in allocated' : HeldBlock(c)
  BY <1>5 DEF Inv
<1>29. Coalesced'
  BY <1>10, <1>23 DEF Coalesced, Ordered
<1>30. NoOverlap'
  <2>1. /\ \A c \in allocated' : HeapStart <= c.start /\ End(c) <= HeapEnd
        /\ \A c, d \in allocated' : c # d => Apart(c, d)
    BY <1>5 DEF Inv, NoOverlap
  <2>2. \A c \in allocated : \A m \in 1..Len(l) : Apart(c, l[m])
    BY DEF Inv, NoOverlap, l
  <2>3. \A c \in allocated' : \A m \in 1..Len(free_blocks') : Apart(c, free_blocks'[m])
    BY <1>5, <1>10, <1>21, <1>24, <2>2
  <2> QED BY <2>1, <2>3 DEF NoOverlap
<1>31. LeaksOnlyAtEnds'
  <2> SUFFICES ASSUME NEW a \in HeapStart..(HeapEnd - M), a % M = 0
               PROVE  \/ \E c \in allocated' : c.start <= a /\ a < End(c)
                      \/ \E m \in 1..Len(R) : R[m].start <= a /\ a < End(R[m])
    BY <1>10 DEF LeaksOnlyAtEnds, M
  <2>1. a \in Int
    BY Constants
  <2>2. s <= a /\ a < e => R[n].start <= a /\ a < End(R[n])
    BY <1>15, <1>25
  <2>3. CASE \E c \in allocated : c.start <= a /\ a < End(c)
    <3>1. PICK c \in allocated : c.start <= a /\ a < End(c)
      BY <2>3
    <3>2. CASE c = b
      BY <1>1, <1>14, <2>1, <2>2, <3>1, <3>2
    <3> QED BY <1>5, <3>1, <3>2
  <2>4. CASE \E m \in 1..Len(l) : l[m].start <= a /\ a < End(l[m])
    <3>1. PICK m \in 1..Len(l) : l[m].start <= a /\ a < End(l[m])
      BY <2>4
    <3>2. CASE s <= l[m].start /\ End(l[m]) <= e
      BY <1>7, <1>14, <2>1, <2>2, <3>1, <3>2, SMTT(30)
    <3>3. CASE m < i \/ m > j
      BY <1>22, <3>1, <3>3, SMTT(30) DEF Members
    <3> QED BY <1>20, <3>2, <3>3
  <2> QED BY <2>3, <2>4 DEF Inv, LeaksOnlyAtEnds, M, l
<1> QED BY <1>5, <1>26, <1>27, <1>28, <1>29, <1>30, <1>31 DEF Inv, FreeBlock, HeldBlock, M, HeapEnd, HeapLen

-----------------------------------------------------------------------------
(* The invariant holds *)

LEMMA StepKeeps == Inv /\ [MemNext]_memvars => Inv'
<1> SUFFICES ASSUME Inv, [MemNext]_memvars PROVE Inv'
  OBVIOUS
<1>1. ASSUME /\ UNCHANGED <<free_blocks, allocated>>
             /\ cached' \in SUBSET allocated
             /\ request' \in Requests \union {NoRequest}
             /\ phase' \in {"search", "discard"}
      PROVE  Inv'
  BY <1>1 DEF Inv, TypeInv, Coalesced, NoOverlap, LeaksOnlyAtEnds
<1>2. CASE \E r \in Requests : Ask(r)
  BY <1>1, <1>2 DEF Ask, Inv, TypeInv
<1>3. CASE \E i \in 1..Len(free_blocks) : Grant(i)
  BY <1>3, GrantKeeps
<1>4. CASE Refuse
  BY <1>1, <1>4 DEF Refuse, Inv, TypeInv
<1>5. CASE \E b \in cached : Discard(b)
  BY <1>5, FreeKeeps DEF Discard, Inv, TypeInv
<1>6. CASE Resume
  BY <1>1, <1>6 DEF Resume, Inv, TypeInv
<1>7. CASE \E b \in allocated : Release(b)
  BY <1>7, FreeKeeps DEF Release, Inv, TypeInv
<1>8. CASE \E B \in SUBSET allocated : Keep(B)
  BY <1>1, <1>8 DEF Keep, Inv, TypeInv
<1>9. CASE UNCHANGED memvars
  BY <1>1, <1>9 DEF memvars, Inv, TypeInv
<1> QED BY <1>2, <1>3, <1>4, <1>5, <1>6, <1>7, <1>8, <1>9 DEF MemNext

LEMMA InvHolds == MemSpec => []Inv
  BY Initially, StepKeeps, PTL DEF MemSpec

(* The free list is always in address order with no two blocks touching:   *)
(* every free_memblock() merges all it can. *)
THEOREM ListCoalesced == MemSpec => []Coalesced
<1>1. Inv => Coalesced
  BY DEF Inv
<1> QED BY InvHolds, <1>1, PTL

(* No two callers ever hold the same byte, and none holds a free one. *)
THEOREM BlocksDisjoint == MemSpec => []NoOverlap
<1>1. Inv => NoOverlap
  BY DEF Inv
<1> QED BY InvHolds, <1>1, PTL

(* However requests and frees are interleaved, alloc_memblock() loses      *)
(* memory only at the ends of the heap, as its comments claim. *)
THEOREM LeaksBounded == MemSpec => []LeaksOnlyAtEnds
<1>1. Inv => LeaksOnlyAtEnds
  BY DEF Inv
<1> QED BY InvHolds, <1>1, PTL

-----------------------------------------------------------------------------
(* The allocator implements the promise of module Heap *)

(* The remainder of x is the smallest number congruent to it. *)
LEMMA Smallest ==
  ASSUME NEW m \in Nat \ {0}, NEW x \in Int, NEW y \in Nat, (y - x) % m = 0
  PROVE  x % m <= y
<1> DEFINE q == x \div m
           r == x % m
           t == (y - x) \div m
<1>1. /\ r \in 0..(m - 1) /\ x = m * q + r /\ q \in Int
      /\ y - x = m * t /\ t \in Int
  BY Modulo
<1> HIDE DEF q, r, t
<1>2. y = m * (q + t) + r /\ q + t \in Int
  BY <1>1
<1>3. q + t >= 0
  <2>1. m * (q + t) > -m
    BY <1>1, <1>2
  <2> QED BY <1>2, <2>1
<1>4. m * (q + t) >= 0
  BY <1>2, <1>3
<1> QED BY <1>1, <1>2, <1>4 DEF r

(* If alloc_memblock() finds no block with enough space, there is no place *)
(* in the heap that would do: neither the order of the list nor the way it *)
(* is cut up hides one. *)
LEMMA NoFitNoCandidate ==
  ASSUME Inv, request \in Requests, NoFit
  PROVE  H!Candidates(request) = {}
<1> DEFINE l == free_blocks
           A == Alignment(request)
           z == Round(request.size)
<1>1. SUFFICES ASSUME NEW b \in H!Candidates(request) PROVE FALSE
  OBVIOUS
<1>2. A \in Nat \ {0} /\ A % M = 0 /\ z \in Nat \ {0} /\ z % M = 0 /\ z >= M
  BY RoundsUp, MemBlockAssumption, AlignedRequests, Constants DEF Alignment, M
<1>3. M \in Nat \ {0} /\ HeapStart \in Nat /\ HeapEnd \in Nat
  BY Constants
<1>4. /\ b.start \in HeapStart..(HeapEnd - z) /\ b.size = z
      /\ (b.start - request.offset) % A = 0
      /\ \A c \in allocated : H!Apart(b, c)
  BY DEF H!Candidates, H!Round, H!Alignment, Round, Alignment
<1>5. /\ Len(l) \in Nat
      /\ \A n \in 1..Len(l) : /\ l[n].start \in Int /\ l[n].size \in Int
                              /\ End(l[n]) = l[n].start + l[n].size
                              /\ l[n].start < End(l[n]) /\ FreeBlock(l[n])
  <2>1. Len(l) \in Nat /\ \A n \in 1..Len(l) : l[n] \in BlockType
    BY LenProperties, ElementOfSeq DEF Inv, TypeInv
  <2> QED BY <2>1 DEF BlockType, End, Inv, FreeBlock
<1>6. \A a \in HeapStart..(HeapEnd - M) : a % M = 0 =>
        \/ \E c \in allocated : c.start <= a /\ a < End(c)
        \/ \E n \in 1..Len(l) : l[n].start <= a /\ a < End(l[n])
  BY DEF Inv, LeaksOnlyAtEnds, M
<1>7. \A c \in allocated : c.start \in Int /\ c.size \in Int /\ End(c) = c.start + c.size /\ End(c) \in Int
  BY DEF Inv, TypeInv, BlockType, End
<1>8. Ordered(l)
  BY DEF Inv, Coalesced, Ordered
<1>9. request.offset \in Int /\ request.offset % M = 0
  BY MemBlockAssumption, AlignedRequests DEF M
<1>10. \A i \in 1..Len(l) : post_size(request, i) < 0
  <2>1. \A i \in 1..Len(l) : post_size(request, i) \in Int
    BY CutFacts
  <2> QED BY <2>1 DEF NoFit, Fits
<1>11. \A i \in 1..Len(l) :
         post_size(request, i) = l[i].size - ((request.offset - l[i].start) % A) - z
  BY DEF post_size, pre_size
<1> DEFINE s == b.start
           o == request.offset
<1>12. s \in Int /\ HeapStart <= s /\ s + z <= HeapEnd
  BY <1>2, <1>3, <1>4
<1>13. \A c \in allocated : s + z <= c.start \/ End(c) <= s
  BY <1>4, <1>7 DEF H!Apart
<1>14. (s - o) % A = 0 /\ o \in Int /\ o % M = 0
  BY <1>4, <1>9
<1> HIDE DEF l, A, z, s, o
<1>15. s % M = 0
  <2> DEFINE q == (s - o) \div A
             c == A \div M
  <2>1. s - o = A * q /\ q \in Int /\ A = M * c /\ c \in Int
    BY <1>2, <1>3, <1>12, <1>14, Modulo
  <2> HIDE DEF q, c
  <2>2. s - o = M * (c * q) /\ c * q \in Int
    BY <1>3, <2>1
  <2>3. (s - o) % M = 0
    BY <1>3, <2>2, MultipleOf
  <2>4. ((s - o) + o) % M = 0
    BY ONLY <2>3, <1>3, <1>12, <1>14, s - o \in Int, SumOfMultiples, Zenon
  <2>5. (s - o) + o = s
    BY <1>12, <1>14
  <2> QED BY <2>4, <2>5
<1>16. PICK i \in 1..Len(l) : l[i].start <= s /\ s < End(l[i])
  <2>1. s \in HeapStart..(HeapEnd - M)
    BY <1>2, <1>3, <1>12
  <2>2. ~ \E c \in allocated : c.start <= s /\ s < End(c)
    BY <1>2, <1>7, <1>12, <1>13
  <2> QED BY <2>1, <2>2, <1>6, <1>15
<1>17. End(l[i]) >= s + z
  <2> DEFINE a == End(l[i])
  <2>1. SUFFICES ASSUME a < s + z PROVE FALSE
    <3>1. End(l[i]) \in Int /\ s + z \in Int
      BY <1>2, <1>5, <1>12
    <3> QED BY <3>1
  <2>2. a \in Int /\ s < a /\ a % M = 0
    BY <2>1, <1>2, <1>3, <1>5, <1>12, <1>16, SMTT(30) DEF FreeBlock
  <2> HIDE DEF a
  <2>3. a + M <= s + z
    <3>1. z \in Int /\ z % M = 0 /\ s \in Int
      BY <1>2, <1>12
    <3>2. s + z \in Int /\ (s + z) % M = 0
      <4>1. M \in Nat \ {0} /\ s % M = 0
        BY <1>3, <1>15
      <4>2. (s + z) % M = 0
        BY ONLY <3>1, <4>1, SumOfMultiples, Zenon
      <4> QED BY ONLY <3>1, <4>2
    <3> DEFINE y == s + z
    <3>3. y \in Int /\ y % M = 0
      BY <3>2
    <3> HIDE DEF y
    <3>4. (y - a) % M = 0 /\ y - a \in Int
      BY ONLY <3>3, <2>2, <1>3, SumOfMultiples
    <3>5. a < y
      BY <2>1 DEF y, a
    <3>6. ~ y - a < M
      BY ONLY <3>3, <3>4, <3>5, <2>2, <1>3, SmallMultiple
    <3>7. a + M <= y
      BY ONLY <3>3, <3>6, <2>2, <1>3
    <3> QED BY <3>7 DEF y
  <2>4. a \in HeapStart..(HeapEnd - M)
    BY <1>2, <1>3, <1>12, <2>2, <2>3
  <2>5. ~ \E c \in allocated : c.start <= a /\ a < End(c)
    BY <1>2, <1>7, <1>12, <1>13, <2>1, <2>2
  <2>6. PICK j \in 1..Len(l) : l[j].start <= a /\ a < End(l[j])
    BY <1>6, <2>2, <2>4, <2>5
  <2>7. CASE i < j
    BY <1>5, <1>8, <2>2, <2>6, <2>7 DEF Ordered, a
  <2>8. CASE j < i
    BY <1>5, <1>8, <1>12, <1>16, <2>2, <2>6, <2>8, SMTT(30) DEF Ordered, a
  <2>9. CASE i = j
    BY <2>2, <2>6, <2>9 DEF a
  <2> QED BY <1>5, <2>7, <2>8, <2>9
<1>18. (o - l[i].start) % A <= s - l[i].start
  <2> DEFINE x == o - l[i].start
             y == s - l[i].start
  <2>1. x \in Int /\ y \in Nat /\ y - x = s - o
    BY <1>5, <1>12, <1>14, <1>16
  <2> HIDE DEF x, y
  <2>2. (y - x) % A = 0
    BY <1>14, <2>1
  <2> QED BY <1>2, <2>1, <2>2, Smallest, Zenon DEF x, y
<1> DEFINE p == (o - l[i].start) % A
<1>19. p \in Int
  <2>1. o - l[i].start \in Int
    BY <1>5, <1>14
  <2> QED BY ONLY <1>2, <2>1
<1>20. l[i].size - p - z < 0
  BY <1>10, <1>11 DEF o
<1>21. p <= s - l[i].start
  BY <1>18
<1>22. l[i].start \in Int /\ l[i].size \in Int /\ l[i].start + l[i].size >= s + z
  BY <1>5, <1>17
<1>23. z \in Int /\ s \in Int
  BY <1>2, <1>12
<1> HIDE DEF p
<1> QED BY ONLY <1>19, <1>20, <1>21, <1>22, <1>23

(* What alloc_memblock() cuts out is one of the places that would do. *)
LEMMA CutIsCandidate ==
  ASSUME Inv, NEW i \in 1..Len(free_blocks), Grant(i)
  PROVE  Cut(request, i) \in H!Candidates(request)
<1> DEFINE cut == Cut(request, i)
           z == Round(request.size)
<1>1. request \in Requests /\ Inv'
  BY GrantKeeps, Zenon DEF Inv, TypeInv, Grant
<1>2. /\ cut.start = free_blocks[i].start + pre_size(request, i) /\ cut.size = z
      /\ cut = [start |-> cut.start, size |-> z]
  BY DEF Cut
<1>3. (cut.start - request.offset) % Alignment(request) = 0
  <2> DEFINE u == free_blocks[i].start + pre_size(request, i)
  <2>1. cut.start = u
    BY <1>2
  <2>2. (u - request.offset) % Alignment(request) = 0
    <3>1. free_blocks[i].start \in Int /\ request.offset \in Int
      <4>1. free_blocks[i] \in BlockType
        BY ElementOfSeq DEF Inv, TypeInv
      <4> QED BY <1>1, <4>1, MemBlockAssumption DEF BlockType
    <3>2. /\ Alignment(request) \in Nat \ {0} /\ pre_size(request, i) \in Nat
          /\ (free_blocks[i].start + pre_size(request, i) - request.offset)
              % Alignment(request) = 0
      BY <1>1, CutFacts
    <3> QED BY ONLY <3>1, <3>2
  <2> HIDE DEF cut, u
  <2> QED BY ONLY <2>1, <2>2
<1>4. cut \in allocated'
  BY DEF Grant
<1>5. z \in Nat \ {0}
  BY <1>1, CutFacts
<1>6. cut.start \in Int /\ HeapStart <= cut.start /\ cut.start + z <= HeapEnd
  BY <1>1, <1>2, <1>4 DEF Inv, TypeInv, BlockType, NoOverlap, End, HeapEnd, HeapLen
<1>7. cut.start \in HeapStart..(HeapEnd - z)
  BY <1>5, <1>6, Constants
<1>8. \A c \in allocated : H!Apart(cut, c)
  <2> SUFFICES ASSUME NEW c \in allocated PROVE H!Apart(cut, c)
    OBVIOUS
  <2>1. Apart(c, free_blocks[i])
    BY DEF Inv, NoOverlap
  <2>2. free_blocks[i] \in BlockType /\ c \in BlockType
    BY ElementOfSeq DEF Inv, TypeInv
  <2>3. pre_size(request, i) \in Nat /\ post_size(request, i) >= 0 /\ post_size(request, i) \in Int
    BY <1>1, CutFacts DEF Grant, Fits
  <2>4. post_size(request, i) = free_blocks[i].size - pre_size(request, i) - z
    BY DEF post_size
  <2> HIDE DEF z
  <2> QED BY <1>2, <1>5, <2>1, <2>2, <2>3, <2>4, SMTT(30) DEF Apart, End, H!Apart, BlockType
<1> HIDE DEF cut, z
<1> QED BY <1>2, <1>3, <1>7, <1>8, SMTT(30) DEF H!Candidates, H!Round, H!Alignment, Round, Alignment, z, cut

(* A step of the allocator is a step of the promise. *)
LEMMA StepPromised == Inv /\ [MemNext]_memvars => [H!Next]_(H!hvars)
<1> SUFFICES ASSUME Inv, [MemNext]_memvars PROVE [H!Next]_(H!hvars)
  OBVIOUS
<1>1. NoRequest = H!NoRequest
  BY DEF NoRequest, H!NoRequest
<1>2. request # NoRequest => request \in Requests
  BY DEF Inv, TypeInv
<1>3. CASE \E r \in Requests : Ask(r)
  BY <1>1, <1>3 DEF Ask, H!Ask, H!Next
<1>4. ASSUME NEW i \in 1..Len(free_blocks), Grant(i) PROVE H!Grant
  BY <1>1, <1>4, CutIsCandidate DEF Grant, H!Grant
<1>5. CASE Refuse
  <2>1. H!Candidates(request) = {}
    BY <1>2, <1>5, NoFitNoCandidate DEF Refuse
  <2>2. H!Refuse
    BY <1>1, <1>5, <2>1 DEF Refuse, H!Refuse
  <2> QED BY <2>2 DEF H!Next
<1>6. ASSUME NEW b \in cached, Discard(b) PROVE H!Discard
  <2>1. phase = "search" => H!Candidates(request) = {}
    BY <1>2, <1>6, NoFitNoCandidate DEF Discard
  <2>2. b \in allocated /\ allocated' = allocated \ {b} /\ cached' = cached \ {b}
    BY <1>6, FreeKeeps DEF Discard, Inv, TypeInv
  <2> QED BY <1>1, <1>6, <2>1, <2>2 DEF Discard, H!Discard
<1>7. CASE Resume
  BY <1>7 DEF Resume, H!Resume, H!Next
<1>8. ASSUME NEW b \in allocated, Release(b) PROVE H!Release
  <2>1. allocated' = allocated \ {b} /\ cached' = cached \ {b}
    BY <1>8, FreeKeeps DEF Release, Inv, TypeInv
  <2> QED BY <1>1, <1>8, <2>1, SMTT(30) DEF Release, H!Release
<1>9. CASE \E B \in SUBSET allocated : Keep(B)
  BY <1>1, <1>9 DEF Keep, H!Keep, H!Next
<1>10. CASE UNCHANGED memvars
  BY <1>10 DEF memvars, H!hvars
<1> QED BY <1>3, <1>4, <1>5, <1>6, <1>7, <1>8, <1>9, <1>10 DEF MemNext, H!Next

(* The block allocator implements module Heap: memory handed out is inside *)
(* the heap, aligned as asked and held by nobody else, and a request is    *)
(* refused, or cached data discarded for it, only when no such memory is   *)
(* left. *)
THEOREM AllocatorKeepsPromise == MemSpec => HeapPromise
<1>1. MemInit => H!Init
  BY DEF MemInit, H!Init, NoRequest, H!NoRequest
<1> QED BY <1>1, InvHolds, StepPromised, PTL DEF MemSpec, HeapPromise, H!HeapSpec

===============================================================================
