--------------------------------- MODULE Heap ---------------------------------
(***************************************************************************)
(* What core/malloc.c promises its callers, without the free list: memory  *)
(* handed out is inside the heap, aligned as asked and shared with nobody, *)
(* and an allocation is refused only when no such memory is left and       *)
(* nothing cached could be given up for it.                                *)
(***************************************************************************)
EXTENDS Integers

CONSTANTS
  HeapStart, HeapEnd, \* the heap is the addresses HeapStart..HeapEnd-1
  Unit,               \* sizes and alignments are multiples of this
  Requests            \* allocations callers ask for: size, align, offset

VARIABLES
  live,    \* the blocks callers hold
  cached,  \* those of them that a cache discarder can give up
  request, \* the allocation in progress, NoRequest for none
  phase    \* whether that allocation is discarding cached data

hvars == <<live, cached, request, phase>>

NoRequest == [size |-> 0, align |-> 1, offset |-> 0]

Round(size) == ((size + Unit - 1) \div Unit) * Unit

Alignment(r) == IF r.align > Unit THEN r.align ELSE Unit

Apart(b, c) == b.start + b.size <= c.start \/ c.start + c.size <= b.start

(* The blocks that would satisfy request r with nothing given up.          *)
Candidates(r) ==
  {b \in [start : HeapStart..(HeapEnd - Round(r.size)), size : {Round(r.size)}] :
     /\ (b.start - r.offset) % Alignment(r) = 0
     /\ \A c \in live : Apart(b, c)}

Init ==
  /\ live = {}
  /\ cached = {}
  /\ request = NoRequest
  /\ phase = "search"

Ask ==
  /\ request = NoRequest
  /\ request' \in Requests
  /\ UNCHANGED <<live, cached, phase>>

Grant ==
  /\ request # NoRequest
  /\ phase = "search"
  /\ \E b \in Candidates(request) : live' = live \union {b}
  /\ request' = NoRequest
  /\ UNCHANGED <<cached, phase>>

Refuse ==
  /\ request # NoRequest
  /\ phase = "search"
  /\ Candidates(request) = {}
  /\ cached = {}
  /\ request' = NoRequest
  /\ UNCHANGED <<live, cached, phase>>

Discard ==
  /\ request # NoRequest
  /\ phase = "search" => Candidates(request) = {}
  /\ \E b \in cached :
       /\ live' = live \ {b}
       /\ cached' = cached \ {b}
  /\ phase' = "discard"
  /\ UNCHANGED request

Resume ==
  /\ phase = "discard"
  /\ phase' = "search"
  /\ UNCHANGED <<live, cached, request>>

Release ==
  /\ request = NoRequest
  /\ \E b \in live :
       /\ live' = live \ {b}
       /\ cached' = cached \ {b}
  /\ UNCHANGED <<request, phase>>

Keep ==
  /\ request = NoRequest
  /\ \E B \in SUBSET live : cached' = cached \union B
  /\ UNCHANGED <<live, request, phase>>

Next == Ask \/ Grant \/ Refuse \/ Discard \/ Resume \/ Release \/ Keep

HeapSpec == Init /\ [][Next]_hvars

===============================================================================
