------------------------------ MODULE NetDevice ------------------------------
(***************************************************************************)
(* The network devices of net/netdevice.c, as functions on the state s of  *)
(* the IP stack (a record, see IpStack).  The fields used here are         *)
(*   net_devices  the list of registered devices,                          *)
(*   open_list    the list open_net_devices, most recently opened first,   *)
(*   dev          for each device: driver (does its driver hold a          *)
(*                reference?), open, refs and tx_queue,                    *)
(*   freed        how often each packet's I/O buffer has been freed,       *)
(*   sent         the packets the drivers accepted, in order.              *)
(* A packet is a number; frames the stack makes itself (ARP) are 0, and    *)
(* their buffers are not followed.  The receive queue is empty between two *)
(* steps: net_poll() hands on every packet it finds, one step per packet.  *)
(***************************************************************************)
EXTENDS Integers, FiniteSets, SequencesExt

CONSTANTS
  Devices,   \* the network devices
  Packets,   \* packets handed to ipv4_tx(), numbered in that order
  TX_RING    \* transmit descriptors of a network card

ASSUME DeviceAssumption == TX_RING \in Nat /\ Packets \subseteq Nat \ {0}

OWN_FRAME == 0

free_iob(s, p) == IF p = OWN_FRAME THEN s ELSE [s EXCEPT !.freed[p] = @ + 1]

netdev_get(s, d) == [s EXCEPT !.dev[d].refs = @ + 1]

netdev_tx_err(s, p) == free_iob(s, p)

netdev_tx_complete_next_err(s, d) ==
  IF s.dev[d].tx_queue = <<>> THEN s
  ELSE netdev_tx_err([s EXCEPT !.dev[d].tx_queue = Tail(@)],
                     Head(s.dev[d].tx_queue))

netdev_tx_flush(s, d) ==
  FoldLeft(LAMBDA t, p : netdev_tx_complete_next_err(t, d), s,
           s.dev[d].tx_queue)

(* The last reference frees the device, and what it still holds.           *)
netdev_put(s, d) ==
  LET t == [s EXCEPT !.dev[d].refs = @ - 1]
  IN  IF t.dev[d].refs = 0 THEN netdev_tx_flush(t, d) ELSE t

(* The driver takes the frame while it has a free descriptor; a frame it   *)
(* refuses, and any frame for a closed device, is freed at once.           *)
netdev_tx(s, d, f) ==
  IF s.dev[d].open /\ Len(s.dev[d].tx_queue) < TX_RING
  THEN [s EXCEPT !.dev[d].tx_queue = Append(@, f.packet),
                 !.sent = IF f.packet = OWN_FRAME THEN @ ELSE Append(@, f)]
  ELSE netdev_tx_err(s, f.packet)

Listed(s, d) == d \in ToSet(s.net_devices)

(* netdev_open() once the driver's open() succeeded, up to its notify;     *)
(* netdev_close() before and after the notify it makes in between.         *)
netdev_open(s, d) ==
  IF s.dev[d].open THEN s
  ELSE [s EXCEPT !.dev[d].open = TRUE, !.open_list = <<d>> \o @]

close_mark(s, d) ==
  [s EXCEPT !.dev[d].open = FALSE, !.open_list = SelectSeq(@, LAMBDA e : e # d)]

(* register_netdev() puts the device on the list before it can fail.       *)
register_list(s, d) == [netdev_get(s, d) EXCEPT !.net_devices = Append(@, d)]

unregister_list(s, d) ==
  netdev_put([s EXCEPT !.net_devices = SelectSeq(@, LAMBDA e : e # d)], d)
=============================================================================
