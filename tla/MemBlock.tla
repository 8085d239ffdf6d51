------------------------------- MODULE MemBlock -------------------------------
(***************************************************************************)
(* The block allocator of core/malloc.c: alloc_memblock(), free_memblock(),*)
(* discard_cache() and mpopulate() over the list free_blocks.              *)
(*                                                                         *)
(* A block is its first address and its size.  The list is the sequence of *)
(* free blocks from its head; that it is in address order is a property,   *)
(* not part of the representation.  alloc_memblock() is a loop: it looks   *)
(* for the first block with enough space and, when there is none, lets the *)
(* cache discarders free something and looks again.  Each turn of the loop *)
(* is a step, and no caller runs until it ends.                            *)
(***************************************************************************)
EXTENDS Integers, Sequences

CONSTANTS
  HeapStart, HeapSize, \* heap[HEAP_SIZE], aligned for a pointer only
  MIN_MEMBLOCK_SIZE,   \* a power of two, at least sizeof(struct memory_block)
  Requests             \* arguments of alloc_memblock(): size, align, offset

(* Sizes are far below the range of size_t, so rounding up cannot wrap.    *)
ASSUME MemBlockAssumption ==
  /\ HeapStart \in Nat
  /\ HeapSize \in Nat /\ HeapSize >= MIN_MEMBLOCK_SIZE
  /\ MIN_MEMBLOCK_SIZE \in Nat \ {0}
  /\ Requests \subseteq [size : Nat \ {0}, align : Nat \ {0}, offset : Int]

(* Alignments are powers of two, and offsets whole blocks: every caller    *)
(* but the IPoIB driver passes offset zero.                                *)
ASSUME AlignedRequests ==
  \A r \in Requests :
     /\ r.offset % MIN_MEMBLOCK_SIZE = 0
     /\ r.align > MIN_MEMBLOCK_SIZE => r.align % MIN_MEMBLOCK_SIZE = 0

VARIABLES
  free_blocks, \* the free list, head first
  freemem,     \* the counter of free memory
  allocated,   \* the blocks callers hold
  cached,      \* those of them that a cache discarder would free
  request,     \* arguments of the alloc_memblock() in progress, or NoRequest
  phase        \* "search" or, while discard_cache() frees blocks, "discard"

memvars == <<free_blocks, freemem, allocated, cached, request, phase>>

-----------------------------------------------------------------------------
(* Blocks and lists of blocks *)

End(b) == b.start + b.size

NoRequest == [size |-> 0, align |-> 1, offset |-> 0]

(* size rounded up to a multiple of MIN_MEMBLOCK_SIZE, as both functions do *)
Round(size) ==
  ((size + MIN_MEMBLOCK_SIZE - 1) \div MIN_MEMBLOCK_SIZE) * MIN_MEMBLOCK_SIZE

(* align_mask + 1, for align a power of two                                *)
Alignment(r) == IF r.align > MIN_MEMBLOCK_SIZE THEN r.align ELSE MIN_MEMBLOCK_SIZE

(* l with its elements i to j replaced by those of mid                     *)
Splice(l, i, j, mid) == SubSeq(l, 1, i - 1) \o mid \o SubSeq(l, j + 1, Len(l))

-----------------------------------------------------------------------------
(* alloc_memblock() *)

pre_size(r, i) == (r.offset - free_blocks[i].start) % Alignment(r)

(* Mutant: the space before the aligned address is not taken off.          *)
post_size_whole(r, i) == free_blocks[i].size - Round(r.size)

post_size(r, i) == free_blocks[i].size - pre_size(r, i) - Round(r.size)

Fits(r, i) == post_size(r, i) >= 0

(* The block cut out of free block i.                                      *)
Cut(r, i) == [start |-> free_blocks[i].start + pre_size(r, i), size |-> Round(r.size)]

(* What is left of free block i: the part before and the part after, each  *)
(* leaked when it is too small to be a block.                              *)
Remainder(r, i) ==
  (IF pre_size(r, i) >= MIN_MEMBLOCK_SIZE
   THEN <<[start |-> free_blocks[i].start, size |-> pre_size(r, i)]>> ELSE <<>>)
  \o
  (IF post_size(r, i) >= MIN_MEMBLOCK_SIZE
   THEN <<[start |-> End(Cut(r, i)), size |-> post_size(r, i)]>> ELSE <<>>)

(* The first turn of the loop: alloc_memblock() is called.                 *)
Ask(r) ==
  /\ request = NoRequest
  /\ request' = r
  /\ UNCHANGED <<free_blocks, freemem, allocated, cached, phase>>

(* A turn that finds a block with enough space, and returns.               *)
Grant(i) ==
  /\ request # NoRequest
  /\ phase = "search"
  /\ Fits(request, i)
  /\ \A j \in 1..(i - 1) : ~ Fits(request, j)
  /\ free_blocks' = Splice(free_blocks, i, i, Remainder(request, i))
  /\ freemem' = freemem - Round(request.size)
  /\ allocated' = allocated \union {Cut(request, i)}
  /\ request' = NoRequest
  /\ UNCHANGED <<cached, phase>>

NoFit == \A i \in 1..Len(free_blocks) : ~ Fits(request, i)

(* A turn that finds none, with nothing left to discard: NULL.             *)
Refuse ==
  /\ request # NoRequest
  /\ phase = "search"
  /\ NoFit
  /\ cached = {}
  /\ request' = NoRequest
  /\ UNCHANGED <<free_blocks, freemem, allocated, cached, phase>>

-----------------------------------------------------------------------------
(* free_memblock() *)

(* Mutant: the block that follows is not merged.                           *)
Inserted_apart(l, p, size, k) ==
  LET before == k > 1 /\ End(l[k - 1]) = p
      start  == IF before THEN l[k - 1].start ELSE p
  IN  Splice(l, IF before THEN k - 1 ELSE k, k - 1,
             <<[start |-> start, size |-> p + size - start]>>)

(* The free list with [p, p + size) inserted before block k and merged     *)
(* with its neighbours where they touch.  The end of the block being freed *)
(* does not move when it is merged with the one before it, and in a list   *)
(* in address order only block k - 1 can end where it starts.              *)
Inserted(l, p, size, k) ==
  LET before == k > 1 /\ End(l[k - 1]) = p
      after  == k <= Len(l) /\ l[k].start = p + size
      start  == IF before THEN l[k - 1].start ELSE p
      end    == IF after THEN End(l[k]) ELSE p + size
  IN  Splice(l, IF before THEN k - 1 ELSE k, IF after THEN k ELSE k - 1,
             <<[start |-> start, size |-> end - start]>>)

(* The walk stops at the first block that does not start before the end of *)
(* the one being freed.                                                    *)
free_memblock(p, size) ==
  LET s == Round(size)
  IN  /\ \E k \in 1..(Len(free_blocks) + 1) :
           /\ \A i \in 1..(k - 1) : free_blocks[i].start < p + s
           /\ k <= Len(free_blocks) => free_blocks[k].start >= p + s
           /\ free_blocks' = Inserted(free_blocks, p, s, k)
      /\ freemem' = freemem + s
      /\ allocated' = allocated \ {[start |-> p, size |-> s]}
      /\ cached' = cached \ {[start |-> p, size |-> s]}

(* A cache discarder (tcp_discard, arp_discard) frees a block.             *)
Discard(b) ==
  /\ request # NoRequest
  /\ phase = "search" => NoFit
  /\ b \in cached
  /\ free_memblock(b.start, b.size)
  /\ phase' = "discard"
  /\ UNCHANGED request

(* discard_cache() returns how many it discarded: search again.            *)
Resume ==
  /\ phase = "discard"
  /\ phase' = "search"
  /\ UNCHANGED <<free_blocks, freemem, allocated, cached, request>>

(* A caller frees a block.                                                 *)
Release(b) ==
  /\ request = NoRequest
  /\ b \in allocated
  /\ free_memblock(b.start, b.size)
  /\ UNCHANGED <<request, phase>>

(* A caller keeps blocks where a discarder will find them.                 *)
Keep(B) ==
  /\ request = NoRequest
  /\ cached' = cached \union B
  /\ UNCHANGED <<free_blocks, freemem, allocated, request, phase>>

-----------------------------------------------------------------------------
(* The whole allocator *)

(* mpopulate() rounds the length of the heap down before it is freed.      *)
HeapLen == (HeapSize \div MIN_MEMBLOCK_SIZE) * MIN_MEMBLOCK_SIZE

HeapEnd == HeapStart + HeapLen

(* init_heap()                                                             *)
MemInit ==
  /\ free_blocks = <<[start |-> HeapStart, size |-> HeapLen]>>
  /\ freemem = HeapLen
  /\ allocated = {}
  /\ cached = {}
  /\ request = NoRequest
  /\ phase = "search"

MemNext ==
  \/ \E r \in Requests : Ask(r)
  \/ \E i \in 1..Len(free_blocks) : Grant(i)
  \/ Refuse
  \/ \E b \in cached : Discard(b)
  \/ Resume
  \/ \E b \in allocated : Release(b)
  \/ \E B \in SUBSET allocated : Keep(B)

MemSpec == MemInit /\ [][MemNext]_memvars

-----------------------------------------------------------------------------
(* Properties *)

Apart(b, c) == End(b) <= c.start \/ End(c) <= b.start

(* The free list is in address order, with a gap between any two blocks:   *)
(* free_memblock() has merged every pair that touches.                     *)
Coalesced ==
  \A i, j \in 1..Len(free_blocks) :
     i < j => End(free_blocks[i]) < free_blocks[j].start

(* No byte is handed out twice, nor handed out while it is on the free     *)
(* list, and nothing outside the heap is.                                  *)
NoOverlap ==
  /\ \A b \in allocated : HeapStart <= b.start /\ End(b) <= HeapEnd
  /\ \A b, c \in allocated : b # c => Apart(b, c)
  /\ \A b \in allocated : \A i \in 1..Len(free_blocks) : Apart(b, free_blocks[i])

(* Every aligned unit of the heap is on the free list or held by a caller. *)
(* alloc_memblock() leaks what is too small to be a block, "which can      *)
(* happen only at the very end of the heap" and at its very start.         *)
LeaksOnlyAtEnds ==
  \A a \in HeapStart..(HeapEnd - MIN_MEMBLOCK_SIZE) :
     a % MIN_MEMBLOCK_SIZE = 0 =>
       \/ \E b \in allocated : b.start <= a /\ a < End(b)
       \/ \E i \in 1..Len(free_blocks) :
            free_blocks[i].start <= a /\ a < End(free_blocks[i])

(* The free list and the callers' blocks refine the promise of module Heap. *)
H == INSTANCE Heap WITH Unit <- MIN_MEMBLOCK_SIZE, live <- allocated

HeapPromise == H!HeapSpec

===============================================================================
