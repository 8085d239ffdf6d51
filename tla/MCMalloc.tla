------------------------------- MODULE MCMalloc -------------------------------
(* Malloc for TLC: the requests its callers make of alloc_memblock().      *)
EXTENDS Malloc

MCRequests ==
  {[size |-> n + HDR, align |-> 1, offset |-> 0] : n \in Sizes \union {IOB_SIZE}}
  \union
  {[size |-> n, align |-> a, offset |-> 0] : n \in 1..8, a \in {2, 4, 8}}

===============================================================================
