-------------------------------- MODULE Malloc --------------------------------
(***************************************************************************)
(* The allocators callers use, over the block allocator of MemBlock:       *)
(* malloc(), zalloc(), realloc() and free() of core/malloc.c, which keep   *)
(* the size of a block in a header before it, and alloc_iob(),             *)
(* alloc_iob_raw() and free_iob() of core/iobuf.c, which keep the          *)
(* descriptor of an I/O buffer behind its data or in a block of its own.   *)
(*                                                                         *)
(* Every function here runs to its end before another starts, alloc_       *)
(* memblock() and free_memblock() being calls it makes on the way: cont    *)
(* says what is done with the block that is being allocated, and todo      *)
(* holds the calls of free_memblock() still to be made.                    *)
(***************************************************************************)
EXTENDS MemBlock, FiniteSets

CONSTANTS
  Sizes,       \* sizes callers of realloc() ask for
  IobLens,     \* lengths callers of alloc_iob() ask for
  HDR,         \* offsetof(struct autosized_block, data)
  IOB_SIZE,    \* sizeof(struct io_buffer)
  IOB_ALIGN,   \* its alignment
  IOB_ZLEN,    \* shortest I/O buffer
  MaxHandles   \* bound on the pointers callers hold

VARIABLES
  handles,     \* the pointers callers hold
  cont,        \* what the caller of alloc_memblock() does next
  todo         \* the free_memblock() calls of the function that is running

vars == <<memvars, handles, cont, todo>>

NULL == [kind |-> "null"]

Idle == [for |-> "nothing"]

-----------------------------------------------------------------------------
(* Pointers *)

(* What malloc() returns: past the header, which holds the size.           *)
autosized(b, size) == [kind |-> "auto", ptr |-> b.start + HDR, size |-> size]

(* An I/O buffer: its data, and where its descriptor is.  A descriptor of  *)
(* its own came from malloc(), so that its header holds its size.          *)
io_buffer(head, len, iobuf) ==
  [kind |-> "iob", head |-> head, end |-> head + len, iobuf |-> iobuf,
   size |-> IOB_SIZE + HDR, queued |-> FALSE]

(* Mutant: the descriptor of an inline buffer is not counted.              *)
FreeCalls_short(h) ==
  CASE h.kind = "null" -> <<>>
    [] h.kind = "auto" -> <<[ptr |-> h.ptr - HDR, size |-> h.size]>>
    [] h.kind = "iob" ->
         IF h.end = h.iobuf
         THEN <<[ptr |-> h.head, size |-> h.end - h.head]>>
         ELSE <<[ptr |-> h.head, size |-> h.end - h.head],
                [ptr |-> h.iobuf - HDR, size |-> h.size]>>

(* The free_memblock() calls free() or free_iob() makes for a pointer.     *)
(* free_iob() takes the descriptor to be inline when it starts where the   *)
(* data ends.                                                              *)
FreeCalls(h) ==
  CASE h.kind = "null" -> <<>>
    [] h.kind = "auto" -> <<[ptr |-> h.ptr - HDR, size |-> h.size]>>
    [] h.kind = "iob" ->
         IF h.end = h.iobuf
         THEN <<[ptr |-> h.head, size |-> h.end - h.head + IOB_SIZE]>>
         ELSE <<[ptr |-> h.head, size |-> h.end - h.head],
                [ptr |-> h.iobuf - HDR, size |-> h.size]>>

CallBlock(c) == [start |-> c.ptr, size |-> Round(c.size)]

BlocksOf(h) == {CallBlock(FreeCalls(h)[i]) : i \in DOMAIN FreeCalls(h)}

(* What the discarders free: I/O buffers that wait in a receive queue.     *)
Discardable == {h \in handles : h.kind = "iob" /\ h.queued}

-----------------------------------------------------------------------------
(* realloc(), and with it malloc(), zalloc() and free() *)

Quiet == request = NoRequest /\ phase = "search" /\ cont = Idle /\ todo = <<>>

(* realloc() with a size: the new block is allocated first.                *)
realloc(old, new_size) ==
  /\ Quiet
  /\ new_size > 0
  /\ old # NULL \/ Cardinality(handles) < MaxHandles
  /\ Ask([size |-> new_size + HDR, align |-> 1, offset |-> 0])
  /\ cont' = [for |-> "realloc", old |-> old, size |-> new_size + HDR]
  /\ UNCHANGED <<handles, todo>>

(* realloc() with no size: free().                                         *)
free(old) ==
  /\ Quiet
  /\ old.kind = "auto"
  /\ handles' = handles \ {old}
  /\ todo' = FreeCalls(old)
  /\ UNCHANGED <<memvars, cont>>

-----------------------------------------------------------------------------
(* I/O buffers *)

RoundUpTo(n, m) == ((n + m - 1) \div m) * m

PowerOfTwo(n) == CHOOSE p \in {2^k : k \in 0..n} : p >= n /\ (p = 1 \/ p \div 2 < n)

(* alloc_iob() and the first allocation of alloc_iob_raw(): data and       *)
(* descriptor in one block unless that would cross the alignment.          *)
alloc_iob(want) ==
  LET padded == IF want < IOB_ZLEN THEN IOB_ZLEN ELSE want
      len    == RoundUpTo(padded, IOB_ALIGN)
      align  == PowerOfTwo(padded)
      inline == len + IOB_SIZE <= align
  IN  /\ Quiet
      /\ Cardinality(handles) < MaxHandles
      /\ Ask([size |-> IF inline THEN len + IOB_SIZE ELSE len,
              align |-> align, offset |-> 0])
      /\ cont' = [for |-> IF inline THEN "inline" ELSE "data", len |-> len]
      /\ UNCHANGED <<handles, todo>>

(* The second allocation of alloc_iob_raw(), for the descriptor.           *)
alloc_descriptor ==
  /\ cont.for = "descriptor"
  /\ Ask([size |-> IOB_SIZE + HDR, align |-> 1, offset |-> 0])
  /\ cont' = [cont EXCEPT !.for = "detached"]
  /\ UNCHANGED <<handles, todo>>

(* Called by the owner of a buffer, or for a queued one at shutdown.       *)
free_iob(h) ==
  /\ Quiet
  /\ h.kind = "iob"
  /\ handles' = handles \ {h}
  /\ todo' = FreeCalls(h)
  /\ UNCHANGED <<memvars, cont>>

-----------------------------------------------------------------------------
(* The calls made on the way *)

(* alloc_memblock() returns block b.                                       *)
Use(b) ==
  CASE cont.for = "realloc" ->
         /\ handles' = (handles \ {cont.old}) \union {autosized(b, cont.size)}
         /\ todo' = FreeCalls(cont.old)
         /\ cont' = Idle
    [] cont.for = "inline" ->
         /\ handles' = handles \union
                         {io_buffer(b.start, cont.len, b.start + cont.len)}
         /\ cont' = Idle
         /\ UNCHANGED todo
    [] cont.for = "data" ->
         /\ cont' = [for |-> "descriptor", len |-> cont.len, head |-> b.start]
         /\ UNCHANGED <<handles, todo>>
    [] cont.for = "detached" ->
         /\ handles' = handles \union
                         {io_buffer(cont.head, cont.len, b.start + HDR)}
         /\ cont' = Idle
         /\ UNCHANGED todo

(* Mutant: realloc() frees the old block before the new one is known.      *)
Refused_freed ==
  /\ cont' = Idle
  /\ todo' = IF cont.for = "detached" THEN <<[ptr |-> cont.head, size |-> cont.len]>>
             ELSE IF cont.for = "realloc" THEN FreeCalls(cont.old) ELSE todo

(* alloc_memblock() returns NULL: realloc() leaves the old block alone and *)
(* alloc_iob_raw() frees the data it has no descriptor for.                *)
Refused ==
  /\ cont' = Idle
  /\ todo' = IF cont.for = "detached" THEN <<[ptr |-> cont.head, size |-> cont.len]>>
             ELSE todo

Allocate ==
  /\ todo = <<>>
  /\ \/ \E i \in 1..Len(free_blocks) : Grant(i) /\ Use(Cut(request, i))
     \/ Refuse /\ Refused /\ UNCHANGED handles

(* discard_cache(): a discarder frees one I/O buffer, and maybe another    *)
(* of the next connection.                                                 *)
discard_cache ==
  /\ todo = <<>>
  /\ request # NoRequest
  /\ phase = "search" => NoFit
  /\ \E h \in Discardable :
       /\ handles' = handles \ {h}
       /\ todo' = FreeCalls(h)
  /\ UNCHANGED <<memvars, cont>>

(* The next free_memblock() call of the function that is running.          *)
FreeNext ==
  /\ todo # <<>>
  /\ free_memblock(Head(todo).ptr, Head(todo).size)
  /\ todo' = Tail(todo)
  /\ phase' = IF request = NoRequest THEN phase ELSE "discard"
  /\ UNCHANGED <<request, handles, cont>>

Discarded == todo = <<>> /\ Resume /\ UNCHANGED <<handles, cont, todo>>

(* A received buffer is put in a queue that tcp_discard() searches.        *)
Queue(h) ==
  /\ Quiet
  /\ h.kind = "iob" /\ ~ h.queued
  /\ handles' = (handles \ {h}) \union {[h EXCEPT !.queued = TRUE]}
  /\ Keep(BlocksOf(h))
  /\ UNCHANGED <<cont, todo>>

Init ==
  /\ MemInit
  /\ handles = {}
  /\ cont = Idle
  /\ todo = <<>>

Next ==
  \/ \E n \in Sizes : realloc(NULL, n)
  \/ \E n \in Sizes, h \in handles : h.kind = "auto" /\ realloc(h, n)
  \/ \E h \in handles : free(h)
  \/ \E n \in IobLens : alloc_iob(n)
  \/ alloc_descriptor
  \/ \E h \in handles : free_iob(h)
  \/ Allocate
  \/ discard_cache
  \/ FreeNext
  \/ Discarded
  \/ \E h \in handles : Queue(h)

Spec == Init /\ [][Next]_vars

-----------------------------------------------------------------------------
(* Properties *)

(* Every call of free_memblock() names a block alloc_memblock() returned   *)
(* and that is still held, with the size it was rounded to: realloc() by   *)
(* the size in the header, free_iob() by where the descriptor is.  So this *)
(* layer is a caller the block allocator allows for.                       *)
BlockDiscipline == MemSpec

===============================================================================
