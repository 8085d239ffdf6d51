------------------------------ MODULE IpStack ------------------------------
(***************************************************************************)
(* The IP stack of one host: network devices, settings, routes, ARP cache  *)
(* and fragment reassembly, and the network cards, neighbours and memory   *)
(* pressure around them.  Every action is one turn of the event loop or    *)
(* one call from a user of the stack.                                      *)
(***************************************************************************)
EXTENDS Ipv4

CONSTANTS
  Booted,       \* the devices that are up when the stack starts, in order
  Via,          \* devices users of the stack name for want of a route
  Settings,     \* [device -> set of settings it may be given]
  Dests,        \* destinations packets are sent to
  Arrivals,     \* destinations of the datagrams received
  Neighbours,   \* protocol addresses that speak ARP
  LLAddrs,      \* link-layer addresses they may have
  Mem,          \* what an allocation may meet: entries evicted, or ENOMEM
  Drv,          \* entries a driver's transmit() may evict
  MaxEvents     \* bound: packets sent and received, settings stored, devices
                \* registered, opened, closed and removed, together

ASSUME StackAssumption ==
  /\ Settings \in [Devices -> SUBSET [ip : Addresses, netmask : 0..NO_MASK,
                                      gateway : Addresses]]
  /\ Booted \in Seq(Devices) /\ Via \subseteq Devices \cup {NoDevice}
  /\ Dests \subseteq Addresses \ {NO_ADDR} /\ Arrivals \cup Neighbours \subseteq Addresses
  /\ LLAddrs \subseteq Nat \ {0, LL_BROADCAST, LL_MULTICAST}
  /\ Mem \subseteq Nat /\ Drv \subseteq Nat

VARIABLES
  stack,     \* the state of the stack
  next,      \* packets handed to ipv4_tx() so far
  claimed,   \* for each device, the address a neighbour last claimed, or 0
  events     \* events so far

vars == <<stack, next, claimed, events>>

Blank ==
  [net_devices |-> <<>>, open_list |-> <<>>,
   dev |-> [d \in Devices |-> [driver |-> TRUE, open |-> FALSE, refs |-> 1,
                               tx_queue |-> <<>>]],
   freed |-> [p \in Packets |-> 0], lost |-> {}, sent |-> <<>>,
   settings |-> [d \in Devices |-> Unset],
   arp |-> <<>>, routes |-> <<>>, frags |-> <<>>, up |-> {}]

BootUp(s, d) ==
  [netdev_open(register_list(s, d), d) EXCEPT
     !.settings[d] = CHOOSE c \in Settings[d] : c.ip # NO_ADDR]

(* The first devices have been registered, opened and configured.          *)
Init ==
  /\ stack = ipv4_create_routes(FoldLeft(BootUp, Blank, Booted), 0, 0)
  /\ next = 0
  /\ claimed = [d \in Devices |-> [a \in Neighbours |-> 0]]
  /\ events = 0

Event == events < MaxEvents /\ events' = events + 1

(* What an allocation may meet, and how many routes may be made before one *)
(* fails.                                                                  *)
HasRoom(s, m) == m = ENOMEM \/ m <= Len(s.arp)

Fit(m) == IF m = ENOMEM THEN 0..(Len(stack.net_devices) - 1) ELSE {0}

Usable(d) == stack.dev[d].driver /\ Listed(stack, d)

-----------------------------------------------------------------------------
(* Devices come and go *)

(* Registering settings applies them, and every driver's probe succeeds.   *)
register_netdev(d, mem, fit) ==
  /\ stack.dev[d].driver /\ ~Listed(stack, d)
  /\ Event
  /\ stack' = ipv4_create_routes(register_list(stack, d), mem, fit)
  /\ UNCHANGED <<next, claimed>>

(* A probe fails: the drivers before it, ARP among them or not, remove the *)
(* device again and the settings are cleared and applied anew, but the     *)
(* device stays on the list.  Its hardware driver drops its reference.     *)
register_failed(d, arp, mem, fit, mem2, fit2) ==
  /\ stack.dev[d].driver /\ ~Listed(stack, d)
  /\ Event
  /\ LET s == ipv4_create_routes(register_list(stack, d), mem, fit)
         t == IF arp THEN arp_flush(s, d) ELSE s
         u == ipv4_create_routes([t EXCEPT !.settings[d] = Unset], mem2, fit2)
     IN  /\ HasRoom(t, mem2)
         /\ stack' = netdev_put([u EXCEPT !.dev[d].driver = FALSE], d)
  /\ UNCHANGED <<next, claimed>>

OpenDevice(d) ==
  /\ Usable(d) /\ ~stack.dev[d].open
  /\ Event
  /\ stack' = arp_flush(netdev_open(stack, d), d)
  /\ UNCHANGED <<next, claimed>>

netdev_close(s, d) ==
  IF s.dev[d].open
  THEN netdev_tx_flush(arp_flush(close_mark(s, d), d), d)
  ELSE s

CloseDevice(d) ==
  /\ Usable(d) /\ stack.dev[d].open
  /\ Event
  /\ stack' = netdev_close(stack, d)
  /\ UNCHANGED <<next, claimed>>

(* Mutant: the settings are cleared after the routes were made anew.       *)
unregister_netdev_late(s, d, mem, fit) ==
  LET t == arp_flush(netdev_close(s, d), d)
      u == [ipv4_create_routes(t, mem, fit) EXCEPT !.settings[d] = Unset]
  IN  unregister_list(u, d)

unregister_netdev(s, d, mem, fit) ==
  LET t == arp_flush(netdev_close(s, d), d)
      u == ipv4_create_routes([t EXCEPT !.settings[d] = Unset], mem, fit)
  IN  unregister_list(u, d)

(* The driver unregisters its device and drops its reference.              *)
RemoveDevice(d, mem, fit) ==
  /\ Usable(d)
  /\ Event
  /\ stack' = netdev_put([unregister_netdev(stack, d, mem, fit)
                            EXCEPT !.dev[d].driver = FALSE], d)
  /\ UNCHANGED <<next, claimed>>

(* A setting is stored (by DHCP or the user): all routes are made anew.    *)
StoreSettings(d, c, mem, fit) ==
  /\ Usable(d)
  /\ stack' = ipv4_create_routes([stack EXCEPT !.settings[d] = c], mem, fit)
  /\ Event
  /\ UNCHANGED <<next, claimed>>

-----------------------------------------------------------------------------
(* Traffic *)

Transmit(dest, netdev, mem, drv) ==
  /\ next + 1 \in Packets
  /\ netdev # NoDevice => Usable(netdev)
  /\ next' = next + 1
  /\ Event
  /\ stack' = ipv4_tx(stack, next + 1, dest, netdev, mem, drv)
  /\ UNCHANGED claimed

(* The card has transmitted the oldest frame: its driver completes it.     *)
TransmitComplete(d) ==
  /\ stack.dev[d].open /\ stack.dev[d].tx_queue # <<>>
  /\ stack' = netdev_tx_complete_next_err(stack, d)
  /\ UNCHANGED <<next, claimed, events>>

ReceiveArp(d, f, drv) ==
  /\ Listed(stack, d) /\ stack.dev[d].open
  /\ stack' = arp_rx(stack, d, f, OwnAddresses(stack, d), drv)
  /\ claimed' = [claimed EXCEPT ![d][f.sender_pa] = f.sender_ha]
  /\ Event
  /\ UNCHANGED next

ReceiveIp(d, f, dest, mem) ==
  /\ Listed(stack, d) /\ stack.dev[d].open
  /\ stack' = ipv4_rx(stack, d, f, dest,
                      dest \in {MULTICAST, INADDR_BROADCAST}, mem)
  /\ Event
  /\ UNCHANGED <<next, claimed>>

ArpTimer(d, a, mem, drv) ==
  /\ \E i \in ArpIndex(stack, d, a) :
       /\ stack.arp[i].running
       /\ stack' = arp_expired(stack, i, mem, drv)
  /\ UNCHANGED <<next, claimed, events>>

FragmentTimer(i) ==
  /\ i \in DOMAIN stack.frags
  /\ stack' = ipv4_fragment_expired(stack, i)
  /\ UNCHANGED <<next, claimed, events>>

NextHops ==
  (Dests \cup UNION {{c.gateway : c \in Settings[d]} : d \in Devices})
  \ {NO_ADDR, MULTICAST, INADDR_BROADCAST}

(* The target of a reply is not looked at.                                 *)
ArpPackets ==
  [op : {"request"}, sender_pa : Neighbours, sender_ha : LLAddrs,
   target_pa : Arrivals]
  \cup [op : {"reply"}, sender_pa : Neighbours, sender_ha : LLAddrs,
         target_pa : {NO_ADDR}]

Fragments ==
  UNION {{f \in [gram : {g}, offset : 0..(Datagrams[g].len - 1),
                 len : 1..Datagrams[g].len] :
            f.offset + f.len <= Datagrams[g].len} : g \in DOMAIN Datagrams}

Next ==
  \/ \E d \in Devices :
       \/ \E m \in Mem : HasRoom(stack, m) /\ \E k \in Fit(m) : register_netdev(d, m, k)
       \/ \E m, m2 \in Mem, arp \in BOOLEAN :
            /\ HasRoom(stack, m)
            /\ \E k \in Fit(m), k2 \in Fit(m2) : register_failed(d, arp, m, k, m2, k2)
       \/ OpenDevice(d) \/ CloseDevice(d) \/ TransmitComplete(d)
       \/ \E m \in Mem : HasRoom(stack, m) /\ \E k \in Fit(m) : RemoveDevice(d, m, k)
       \/ \E m \in Mem, c \in Settings[d] :
            HasRoom(stack, m) /\ \E k \in Fit(m) : StoreSettings(d, c, m, k)
       \/ \E f \in ArpPackets, v \in Drv : HasRoom(stack, v) /\ ReceiveArp(d, f, v)
       \/ \E f \in Fragments, a \in Arrivals, m \in Mem :
            HasRoom(stack, m) /\ ReceiveIp(d, f, a, m)
       \/ \E a \in NextHops, m \in Mem, v \in Drv :
            HasRoom(stack, m) /\ HasRoom(stack, v) /\ ArpTimer(d, a, m, v)
  \/ \E a \in Dests, d \in Via, m \in Mem, v \in Drv :
       HasRoom(stack, m) /\ HasRoom(stack, v) /\ Transmit(a, d, m, v)
  \/ \E i \in DOMAIN stack.frags : FragmentTimer(i)

Spec == Init /\ [][Next]_vars

(* The event loop polls the cards of open devices, and a card sooner or    *)
(* later transmits what it has accepted; it runs the retry timers, one     *)
(* expiry at a time.                                                       *)
(* This is the weak fairness of both, with what enables them spelled out.  *)
TransmitDue ==
  \E d \in Devices : stack.dev[d].open /\ stack.dev[d].tx_queue # <<>>

ArpDue == \E i \in DOMAIN stack.arp : stack.arp[i].running

Fairness ==
  /\ []<>~TransmitDue \/ []<><<\E d \in Devices : TransmitComplete(d)>>_vars
  /\ []<>~ArpDue \/ []<><<\E d \in Devices, a \in NextHops, m \in Mem, v \in Drv :
                             HasRoom(stack, m) /\ HasRoom(stack, v) /\ ArpTimer(d, a, m, v)>>_vars

FairSpec == Spec /\ Fairness

-----------------------------------------------------------------------------
(* Properties *)

Waiting(i) == ToSet(stack.arp[i].tx_queue)

(* The places that own the buffer of packet p: positions in the queues of  *)
(* ARP entries and devices, and the allocator, once for each free.         *)
Owners(p) ==
  UNION {{<<"arp", i, j>> : j \in {k \in DOMAIN stack.arp[i].tx_queue :
                                    stack.arp[i].tx_queue[k] = p}}
           : i \in DOMAIN stack.arp}
  \cup UNION {{<<"dev", d, j>> : j \in {k \in DOMAIN stack.dev[d].tx_queue :
                                         stack.dev[d].tx_queue[k] = p}}
                : d \in Devices}
  \cup {<<"free", 0, j>> : j \in 1..stack.freed[p]}

(* Every buffer given to ipv4_tx() has one owner: it waits for one ARP     *)
(* entry, is queued on one device, or has been freed once.  It is never    *)
(* freed twice, whatever is evicted, flushed or refused meanwhile.  The    *)
(* exception is a packet for which arp_tx() returns -ENOMEM: nobody owns   *)
(* that.                                                                   *)
OneOwner ==
  \A p \in 1..next : Cardinality(Owners(p)) = IF p \in stack.lost THEN 0 ELSE 1

(* Packets of one neighbour leave in the order they were given to          *)
(* ipv4_tx(), though some waited for ARP and some did not.                 *)
SentInOrder ==
  \A i, j \in DOMAIN stack.sent :
    /\ i < j
    /\ stack.sent[i].ll \in LLAddrs /\ stack.sent[j].ll \in LLAddrs
    /\ stack.sent[i].netdev = stack.sent[j].netdev
    /\ stack.sent[i].next_hop = stack.sent[j].next_hop
    => stack.sent[i].packet < stack.sent[j].packet

(* A resolved entry has the link-layer address its neighbour claimed last  *)
(* on that device and holds no packet back, and there is one entry for     *)
(* each neighbour.                                                         *)
CacheFresh ==
  \A i \in DOMAIN stack.arp :
    LET e == stack.arp[i]
    IN  /\ ArpIndex(stack, e.netdev, e.net_dest) = {i}
        /\ arp_resolved(e) => /\ e.ll_dest = claimed[e.netdev][e.net_dest]
                              /\ e.tx_queue = <<>>

(* The references of a device are those of its driver, the device list,    *)
(* the routes and the ARP entries, and a device that is off the list is    *)
(* named by none: when its driver lets go, it is freed.                    *)
DeviceReferences ==
  \A d \in Devices :
    LET routes == {i \in DOMAIN stack.routes : stack.routes[i].netdev = d}
        entries == {i \in DOMAIN stack.arp : stack.arp[i].netdev = d}
    IN  /\ stack.dev[d].refs =
             Cardinality(routes) + Cardinality(entries)
             + Cardinality({x \in {1} : stack.dev[d].driver})
             + Cardinality({x \in {1} : Listed(stack, d)})
        /\ ~Listed(stack, d) => routes \cup entries = {}

(* Every route comes from the present settings of a listed device, no      *)
(* device has two, and routes with a gateway come last, so that a          *)
(* destination that is local to some open device is never sent to a gateway.    *)
RoutesFollowSettings ==
  /\ \A i \in DOMAIN stack.routes :
       LET r == stack.routes[i]
           c == stack.settings[r.netdev]
       IN  /\ Listed(stack, r.netdev)
           /\ <<r.address, r.gateway>> = <<c.ip, c.gateway>>
           /\ r.address # NO_ADDR
           /\ c.netmask # NO_MASK => r.netmask = c.netmask
  /\ \A i, j \in DOMAIN stack.routes :
       i < j => /\ stack.routes[i].netdev # stack.routes[j].netdev
                /\ stack.routes[i].gateway # NO_ADDR
                   => stack.routes[j].gateway # NO_ADDR

(* What the transport layer gets is a whole datagram as it was sent, in    *)
(* order and with no unit of another, however fragments are lost,          *)
(* duplicated, reordered and cut differently.                              *)
ReassemblyExact ==
  \A data \in stack.up :
    \E g \in DOMAIN Datagrams :
      data = [i \in 1..Datagrams[g].len |-> <<g, i>>]

(* Every buffer given to ipv4_tx() and not lost is freed in the end: ARP   *)
(* entries are resolved, give up or are evicted, and cards transmit.  A    *)
(* buffer once freed stays so, and the packets are finitely many, so that  *)
(* this says that of each of them.                                         *)
EveryBufferFreed == []<>(\A p \in 1..next : p \in stack.lost \/ stack.freed[p] = 1)
=============================================================================
