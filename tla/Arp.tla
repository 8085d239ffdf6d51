-------------------------------- MODULE Arp --------------------------------
(***************************************************************************)
(* The ARP cache of net/arp.c, as functions on the state of the IP stack.  *)
(* The field arp is the list arp_entries, most recently used first; an     *)
(* entry has the device, the protocol addresses it is for (net_dest,       *)
(* net_source), the link-layer address learnt (ll_dest), whether its retry *)
(* timer runs and how often that has expired, and the packets that wait.   *)
(*                                                                         *)
(* Any allocation may first evict entries: alloc_memblock() discards one   *)
(* cached item after another until it finds room, or gives up when nothing *)
(* is left to discard.  The parameter mem of an operation is the number of *)
(* entries its allocation evicts, or ENOMEM; drv is the number a driver    *)
(* that allocates in its transmit() evicts.                                *)
(***************************************************************************)
EXTENDS NetDevice

CONSTANTS
  ARP_TRIES   \* expiries of an entry's timer before it reports failure

ASSUME ArpAssumption == ARP_TRIES \in Nat \ {0}

ENOMEM == 100

arp_resolved(e) == ~e.running

ArpIndex(s, d, a) ==
  {i \in DOMAIN s.arp : s.arp[i].netdev = d /\ s.arp[i].net_dest = a}

HasEntry(s, d, a) == ArpIndex(s, d, a) # {}

(* The entry for <<d, a>>, which must exist, moved to the start of the     *)
(* cache.                                                                  *)
arp_find(s, d, a) ==
  LET i == Min(ArpIndex(s, d, a))
  IN  [s EXCEPT !.arp = <<s.arp[i]>> \o RemoveAt(s.arp, i)]

(* Mutant: the entry's reference to the device is kept.                    *)
arp_destroy_noput(s, i) ==
  FoldLeft(netdev_tx_err, [s EXCEPT !.arp = RemoveAt(@, i)], s.arp[i].tx_queue)

arp_destroy(s, i) ==
  netdev_put(FoldLeft(netdev_tx_err, [s EXCEPT !.arp = RemoveAt(@, i)],
                      s.arp[i].tx_queue),
             s.arp[i].netdev)

arp_discard(s) == IF s.arp = <<>> THEN s ELSE arp_destroy(s, Len(s.arp))

(* n rounds of the allocator's discard loop.                               *)
discard_cache(s, n) ==
  FoldLeft(LAMBDA t, i : arp_discard(t), s, [i \in 1..n |-> i])

alloc_memblock(s, mem) ==
  discard_cache(s, IF mem = ENOMEM THEN Len(s.arp) ELSE mem)

net_tx(s, d, f, drv) ==
  LET t == netdev_tx(s, d, f)
  IN  IF s.dev[d].open THEN discard_cache(t, drv) ELSE t

arp_create(s, d, a, src) ==
  [netdev_get(s, d) EXCEPT !.arp =
     <<[netdev |-> d, net_dest |-> a, net_source |-> src, ll_dest |-> 0,
        running |-> TRUE, tries |-> 0, tx_queue |-> <<>>]>> \o @]

(* A packet for which no entry can be made is neither queued nor freed.    *)
arp_tx(s, p, d, a, src, mem, drv) ==
  LET t == IF HasEntry(s, d, a) THEN arp_find(s, d, a)
           ELSE LET u == alloc_memblock(s, mem)
                IN  IF mem = ENOMEM THEN u ELSE arp_create(u, d, a, src)
  IN  IF ~HasEntry(t, d, a) THEN [t EXCEPT !.lost = @ \cup {p}]
      ELSE IF arp_resolved(Head(t.arp))
      THEN net_tx(t, d, [packet |-> p, netdev |-> d, next_hop |-> a,
                         ll |-> Head(t.arp).ll_dest], drv)
      ELSE [t EXCEPT !.arp[1].tx_queue = Append(@, p)]

(* One round of arp_update()'s loop: the next packet of the entry, if the  *)
(* entry still has one, that is, if no transmission evicted it.            *)
transmit_next(s, d, a, ll, drv) ==
  IF ~HasEntry(s, d, a) THEN s
  ELSE LET i == Min(ArpIndex(s, d, a))
       IN  net_tx([s EXCEPT !.arp[i].tx_queue = Tail(@)], d,
                  [packet |-> Head(s.arp[i].tx_queue), netdev |-> d,
                   next_hop |-> a, ll |-> ll], drv)

(* Mutant: the queue is copied before the loop.                            *)
arp_update_copied(s, ll, drv) ==
  LET e == Head(s.arp)
      t == [s EXCEPT !.arp[1].ll_dest = ll, !.arp[1].running = FALSE]
  IN  FoldLeft(LAMBDA u, p :
                 net_tx(IF HasEntry(u, e.netdev, e.net_dest)
                        THEN [u EXCEPT !.arp[Min(ArpIndex(u, e.netdev,
                                                          e.net_dest))]
                                            .tx_queue = Tail(@)]
                        ELSE u,
                        e.netdev,
                        [packet |-> p, netdev |-> e.netdev,
                         next_hop |-> e.net_dest, ll |-> ll], drv),
               t, e.tx_queue)

(* Mutant: the newest packet goes first.                                   *)
arp_update_lifo(s, ll, drv) ==
  LET e == Head(s.arp)
      t == [s EXCEPT !.arp[1].ll_dest = ll, !.arp[1].running = FALSE,
                     !.arp[1].tx_queue = Reverse(@)]
  IN  FoldLeft(LAMBDA u, p : transmit_next(u, e.netdev, e.net_dest, ll, drv),
               t, e.tx_queue)

(* Mutant: an address once learnt is kept.                                 *)
arp_update_once(s, ll, drv) ==
  LET e == Head(s.arp)
      t == [s EXCEPT !.arp[1].ll_dest = IF arp_resolved(e) THEN @ ELSE ll,
                     !.arp[1].running = FALSE]
  IN  FoldLeft(LAMBDA u, p : transmit_next(u, e.netdev, e.net_dest, ll, drv),
               t, e.tx_queue)

(* arp_update() of the entry at the start of the cache.                    *)
arp_update(s, ll, drv) ==
  LET e == Head(s.arp)
      t == [s EXCEPT !.arp[1].ll_dest = ll, !.arp[1].running = FALSE]
  IN  FoldLeft(LAMBDA u, p : transmit_next(u, e.netdev, e.net_dest, ll, drv),
               t, e.tx_queue)

(* Mutant: the timer is not restarted when the request cannot be built.    *)
arp_expired_stopped(s, i, mem, drv) ==
  LET e == s.arp[i]
      t == [s EXCEPT !.arp[i].tries = @ + 1, !.arp[i].running = mem # ENOMEM]
      u == alloc_memblock(t, IF mem = ENOMEM THEN 0 ELSE mem)
  IN  IF e.tries = ARP_TRIES THEN arp_destroy(s, i)
      ELSE IF mem = ENOMEM THEN u
      ELSE net_tx(u, e.netdev, [packet |-> OWN_FRAME], drv)

(* The i-th entry's timer expires.  The entry may be evicted by the        *)
(* allocation of its own request, which is sent all the same.              *)
arp_expired(s, i, mem, drv) ==
  LET e == s.arp[i]
      u == alloc_memblock([s EXCEPT !.arp[i].tries = @ + 1], mem)
  IN  IF e.tries = ARP_TRIES THEN arp_destroy(s, i)
      ELSE IF mem = ENOMEM THEN u
      ELSE net_tx(u, e.netdev, [packet |-> OWN_FRAME], drv)

(* An ARP packet f = [op, sender_pa, sender_ha, target_pa]; Owned says     *)
(* which addresses the device has.                                         *)
arp_rx(s, d, f, Owned, drv) ==
  LET t == IF HasEntry(s, d, f.sender_pa)
           THEN arp_update(arp_find(s, d, f.sender_pa), f.sender_ha, drv)
           ELSE s
  IN  IF f.op = "request" /\ f.target_pa \in Owned
      THEN net_tx(t, d, [packet |-> OWN_FRAME], drv)
      ELSE t

(* Every entry of every device goes when one device is closed.             *)
arp_flush(s, d) ==
  IF s.dev[d].open THEN s
  ELSE FoldLeft(LAMBDA t, e : arp_destroy(t, 1), s, s.arp)
=============================================================================
