-------------------------------- MODULE Ipv4 --------------------------------
(***************************************************************************)
(* Routing, transmission and fragment reassembly of net/ipv4.c, as         *)
(* functions on the state of the IP stack.  Further fields:                *)
(*   settings  for each device its settings ip, netmask and gateway,       *)
(*   routes    the list ipv4_miniroutes,                                   *)
(*   frags     the list ipv4_fragments,                                    *)
(*   up        the datagrams handed to the transport layer.                *)
(*                                                                         *)
(* Addresses are scaled down from 32 to 4 bits, with the classes of the    *)
(* full size: a leading 0 is class A, 10 class B, 110 class C, 1110 is     *)
(* multicast and 1111 the limited broadcast address.  A netmask is given   *)
(* by its number of host bits, so NO_MASK, every bit a host bit, is the    *)
(* netmask 0.  Datagrams are sequences of 8-byte units, and a unit is the  *)
(* pair of the datagram it belongs to and its position in it.              *)
(***************************************************************************)
EXTENDS Arp

CONSTANTS
  Datagrams   \* [id -> [src, ident, len]]: what senders send in fragments

Addresses == 0..15

NO_ADDR == 0

MULTICAST == 14

INADDR_BROADCAST == 15

NO_MASK == 4

NoDevice == "none"

LL_BROADCAST == 98

LL_MULTICAST == 99

Unset == [ip |-> NO_ADDR, netmask |-> NO_MASK, gateway |-> NO_ADDR]

(* Ids that a sender gives to datagrams which are under way together       *)
(* differ.                                                                 *)
ASSUME DatagramAssumption ==
  \A g, h \in DOMAIN Datagrams :
    g # h => \/ Datagrams[g].src # Datagrams[h].src
             \/ Datagrams[g].ident # Datagrams[h].ident

SameNet(a, b, hostbits) == a \div 2^hostbits = b \div 2^hostbits

IsBroadcast(a, hostbits) == a % 2^hostbits = 2^hostbits - 1

class_mask(a) == IF a < 8 THEN 3 ELSE IF a < 12 THEN 2 ELSE 1

-----------------------------------------------------------------------------
(* The routing table *)

(* Routes without a gateway go to the front, so they are tried first.      *)
add_ipv4_miniroute(s, d, ip, netmask, gateway) ==
  LET r == [netdev |-> d, address |-> ip, netmask |-> netmask,
            gateway |-> gateway]
  IN  [netdev_get(s, d) EXCEPT !.routes =
         IF gateway = NO_ADDR THEN <<r>> \o @ ELSE Append(@, r)]

del_ipv4_miniroutes(s) ==
  FoldLeft(LAMBDA t, r : netdev_put(t, r.netdev), [s EXCEPT !.routes = <<>>],
           s.routes)

(* The devices that are to have a route, in the order of the list.         *)
Configured(s) == SelectSeq(s.net_devices, LAMBDA d : s.settings[d].ip # NO_ADDR)

(* The route of each device that has an address.  The first that cannot be *)
(* allocated ends it; fit is the number of routes made by then.            *)
ipv4_create_routes(s, mem, fit) ==
  LET Add(t, d) ==
        LET c == s.settings[d]
        IN  add_ipv4_miniroute(t, d, c.ip,
              IF c.netmask = NO_MASK THEN class_mask(c.ip) ELSE c.netmask,
              c.gateway)
      t == del_ipv4_miniroutes(s)
      ds == Configured(s)
  IN  IF ds = <<>> THEN t
      ELSE FoldLeft(Add, alloc_memblock(t, mem),
                    IF mem = ENOMEM /\ fit < Len(ds) THEN SubSeq(ds, 1, fit)
                    ELSE ds)

(* Positions of the routes that can carry a packet to a.                   *)
usable_routes(s, a) ==
  {i \in DOMAIN s.routes :
     LET r == s.routes[i]
     IN  /\ s.dev[r.netdev].open
         /\ SameNet(a, r.address, r.netmask) \/ r.gateway # NO_ADDR}

OwnAddresses(s, d) ==
  {s.routes[i].address : i \in {j \in DOMAIN s.routes : s.routes[j].netdev = d}}

-----------------------------------------------------------------------------
(* Transmission: netdev is the device to use if no route is found.  The    *)
(* next hop, once chosen, is looked up by the link layer's own rule:       *)
(* broadcast, multicast or ARP.                                            *)

link_tx(s, p, d, next_hop, netmask, src, mem, drv) ==
  LET Direct(ll) == net_tx(s, d, [packet |-> p, netdev |-> d,
                                  next_hop |-> next_hop, ll |-> ll], drv)
  IN  IF IsBroadcast(next_hop, netmask) THEN Direct(LL_BROADCAST)
      ELSE IF next_hop = MULTICAST THEN Direct(LL_MULTICAST)
      ELSE arp_tx(s, p, d, next_hop, src, mem, drv)

ipv4_tx(s, p, dest, netdev, mem, drv) ==
  LET usable == IF dest \in {INADDR_BROADCAST, MULTICAST} THEN {}
                ELSE usable_routes(s, dest)
      r == s.routes[Min(usable)]
  IN  IF usable # {}
      THEN link_tx(s, p, r.netdev,
                   IF SameNet(dest, r.address, r.netmask) THEN dest
                   ELSE r.gateway,
                   r.netmask, r.address, mem, drv)
      ELSE IF netdev # NoDevice
      THEN link_tx(s, p, netdev, dest, NO_MASK, NO_ADDR, mem, drv)
      ELSE free_iob(s, p)

-----------------------------------------------------------------------------
(* Reception.  A fragment is [gram, offset, len] of some datagram.         *)

more_frags(f) == f.offset + f.len < Datagrams[f.gram].len

units(f) == [i \in 1..f.len |-> <<f.gram, f.offset + i>>]

(* Mutant: buffers are told apart by the id alone.                         *)
ipv4_fragment_ident(s, f) ==
  {i \in DOMAIN s.frags : s.frags[i].ident = Datagrams[f.gram].ident}

(* The reassembly buffer of a fragment's datagram, if there is one.        *)
ipv4_fragment(s, f) ==
  {i \in DOMAIN s.frags : /\ s.frags[i].src = Datagrams[f.gram].src
                          /\ s.frags[i].ident = Datagrams[f.gram].ident}

(* Expected next is what directly follows the units held so far: anything  *)
(* else is dropped.                                                        *)
ipv4_reassemble(s, f, mem) ==
  LET found == ipv4_fragment(s, f)
      i == Min(found)
      t == alloc_memblock(s, mem)
      data == s.frags[i].data \o units(f)
  IN  IF f.offset # (IF found = {} THEN 0 ELSE Len(s.frags[i].data)) THEN s
      ELSE IF mem = ENOMEM THEN t
      ELSE IF found = {}
      THEN [t EXCEPT !.frags =
              <<[src |-> Datagrams[f.gram].src,
                 ident |-> Datagrams[f.gram].ident, data |-> units(f)]>> \o @]
      ELSE IF more_frags(f) THEN [t EXCEPT !.frags[i].data = data]
      ELSE [t EXCEPT !.frags = RemoveAt(@, i), !.up = @ \cup {data}]

ipv4_fragment_expired(s, i) == [s EXCEPT !.frags = RemoveAt(@, i)]

(* dest is the datagram's destination, multicast whether the frame was a   *)
(* link-layer multicast or broadcast.                                      *)
ipv4_rx(s, d, f, dest, multicast, mem) ==
  IF /\ ~multicast
     /\ OwnAddresses(s, d) # {}
     /\ dest \notin OwnAddresses(s, d)
  THEN s
  ELSE IF f.offset # 0 \/ more_frags(f) THEN ipv4_reassemble(s, f, mem)
  ELSE [s EXCEPT !.up = @ \cup {units(f)}]
=============================================================================
