------------------------------ MODULE TcpPeer ------------------------------
(***************************************************************************)
(* One connection of net/tcp.c, opened actively, against any peer that     *)
(* keeps to RFC 793.                                                       *)
(*                                                                         *)
(* The peer is external.  It has a stream of PeerBytes bytes with a SYN    *)
(* before and a FIN after it, cuts it into segments as it likes, and sends *)
(* nothing beyond the window it was last offered.  It acknowledges only    *)
(* what was sent to it and offers any window.  Any segment it may have     *)
(* sent can arrive now, later, twice or never, so the segments in flight   *)
(* need not be stored: "edge" and "heard" say which there can be.          *)
(***************************************************************************)
EXTENDS Tcp

CONSTANTS
  OurISS, PeerISS,   \* initial sequence numbers
  OurBytes,          \* bound: bytes our application sends
  MaxTries,          \* bound: expiries before the retry timer gives up
  MaxQueued,         \* bound: packets queued out of order
  MaxDiscards,       \* bound: discards under memory pressure
  Settings           \* the surroundings there can be: records with fields
                     \*   PeerBytes    length of the peer's stream
                     \*   PeerWindows  windows the peer may offer
                     \*   WriteLens    lengths of the buffers our application sends
                     \*   AppWindows   what our application may accept
                     \*   Enough       bytes after which our application closes
                     \*   Failures     ways in which a transmission may fail
                     \*   MayReset     whether the peer may reset the connection

ASSUME PeerAssumption ==
  /\ {OurISS, PeerISS} \subseteq 0..(SeqSpace - 1)
  /\ OurBytes \in Nat
  /\ \A s \in Settings :
       /\ {s.PeerBytes, s.Enough} \cup s.PeerWindows \cup s.AppWindows \subseteq Nat
       /\ s.WriteLens \subseteq Nat \ {0}
       /\ s.Failures \subseteq {"none", "alloc_iob", "tcpip_tx"}
       /\ s.MayReset \in BOOLEAN

VARIABLES
  tcp,       \* the connection
  edge,      \* right edge of the widest window offered, in peer positions
  heard,     \* sequence space of ours that reached the network
  discards,  \* discards so far
  setting    \* the member of Settings this behaviour takes place in

vars == <<tcp, edge, heard, discards, setting>>

PeerBytes == setting.PeerBytes
PeerWindows == setting.PeerWindows

Env == [fails : setting.Failures, app_win : setting.AppWindows,
        enough : {setting.Enough}, listener : {FALSE}]

(* Positions in the peer's sequence space: 0 is its SYN, 1..PeerBytes its  *)
(* data, PeerBytes + 1 its FIN.                                            *)
position(seq) == seq_sub(seq, PeerISS)

our_position(seq) == seq_sub(seq, OurISS)

peer_segment(from, to, ack, win) ==
  [src |-> "peer", sport |-> 9, dst |-> "us", dport |-> 1,
   seq |-> seq_add(PeerISS, from), ack |-> seq_add(OurISS, ack), win |-> win,
   flags |-> {"ACK"} \cup (IF from = 0 THEN {"SYN"} ELSE {})
                     \cup (IF from < to /\ to = PeerBytes + 2 THEN {"FIN"} ELSE {}),
   data |-> [k \in 1..most(least(to, PeerBytes + 1) - most(from, 1), 0) |->
               <<"peer", most(from, 1) + k - 1>>]]

(* The end of a handler: what it sent may now be acknowledged and answered.*)
Finish(c) ==
  LET sent == ToSet(c.out)
      ends == {our_position(s.seq) + Len(s.data)
                 + IF s.flags \cap {"SYN", "FIN"} # {} THEN 1 ELSE 0 : s \in sent}
      wins == {position(s.ack) + s.win : s \in {x \in sent : "ACK" \in x.flags}}
  IN  /\ Len(c.rx_queue) <= MaxQueued
      /\ tcp' = [c EXCEPT !.out = << >>]
      /\ heard' = Max({heard} \cup ends)
      /\ edge' = Max({edge} \cup wins)

tcp_rx(from, to, ack, win) ==
  /\ tcp.listed /\ ack <= heard
  /\ \E env \in Env : Finish(received(tcp, peer_segment(from, to, ack, win), env))
  /\ UNCHANGED <<discards, setting>>

(* The peer gives up, or refuses the connection.                           *)
peer_reset(from, ack) ==
  /\ tcp.listed /\ ack <= heard
  /\ \E env \in Env :
       Finish(received(tcp, [peer_segment(from, from, ack, 0) EXCEPT
                               !.flags = {"RST", "ACK"}], env))
  /\ UNCHANGED <<discards, setting>>

tcp_expired ==
  LET idle == [tcp EXCEPT !.timer = "stopped", !.tries = least(@ + 1, MaxTries)]
  IN  /\ tcp.timer # "stopped"
      /\ \/ tcp.timer = "running" /\ Finish(abort(idle))
         \/ tcp.tries < MaxTries /\ \E env \in Env : Finish(tcp_xmit(idle, env))
      /\ UNCHANGED <<discards, setting>>

tcp_wait_expired ==
  /\ tcp.wait
  /\ Finish(abort([tcp EXCEPT !.wait = FALSE]))
  /\ UNCHANGED <<discards, setting>>

Send(len) ==
  /\ tcp.opened /\ tcp_xfer_window(tcp) > 0
  /\ tcp.written + len <= OurBytes
  /\ \E env \in Env :
       Finish(tcp_xfer_deliver([tcp EXCEPT !.written = @ + len],
                               [k \in 1..len |-> <<"us", tcp.written + k>>], env))
  /\ UNCHANGED <<discards, setting>>

Close ==
  /\ tcp.opened
  /\ \E env \in Env : Finish(tcp_xfer_close(tcp, env))
  /\ UNCHANGED <<discards, setting>>

Discard ==
  /\ tcp.rx_queue # << >> /\ discards < MaxDiscards
  /\ tcp' = tcp_discard(tcp)
  /\ discards' = discards + 1
  /\ UNCHANGED <<edge, heard, setting>>

(* tcp_open() for a peer: SYN goes out when the timer without delay fires. *)
Init ==
  /\ tcp = [host |-> "us", id |-> 1, listed |-> TRUE, opened |-> TRUE, flags |-> {},
            peer |-> "peer", peer_port |-> 9, local_port |-> 1,
            tcp_state |-> TCP_SYN_SENT, prev_tcp_state |-> TCP_SYN_SENT,
            snd_seq |-> OurISS, snd_sent |-> 0, snd_win |-> 0, rcv_ack |-> 0,
            rcv_win |-> 0, max_rcv_win |-> TCP_MAX_WINDOW_SIZE,
            tx_queue |-> << >>, rx_queue |-> << >>,
            timer |-> "nodelay", wait |-> FALSE, tries |-> 0,
            pending_flags |-> 1, pending_data |-> 0, new_tcp_created |-> 0,
            up |-> << >>, written |-> 0, out |-> << >>]
  /\ edge = 0 /\ heard = 0 /\ discards = 0
  /\ setting \in Settings

(* The SYN comes with the acknowledgement of ours; the rest afterwards.    *)
Segment ==
  \E win \in PeerWindows, ack \in 1..heard :
    \/ tcp_rx(0, 1, ack, win)
    \/ \E from \in 1..edge : \E to \in from..least(edge, PeerBytes + 2) :
         tcp_rx(from, to, ack, win)

Next ==
  \/ Segment
  \/ setting.MayReset /\ \E from \in 0..edge, ack \in 1..heard : peer_reset(from, ack)
  \/ tcp_expired
  \/ tcp_wait_expired
  \/ Close
  \/ \E n \in setting.WriteLens : Send(n)
  \/ Discard

Spec == Init /\ [][Next]_vars

(* The network takes every packet, and the peer keeps its window open.     *)
Willing == setting.Failures = {"none"} /\ 0 \notin PeerWindows

(* Such a peer goes on: it answers the SYN, sends the next byte when the   *)
(* window admits it, and acknowledges all it has heard.  Changes(...) is   *)
(* ENABLED <<tcp_rx(...)>>_vars, written out for TLC's sake.               *)
NextPosition == IF "SYN" \in tcp.tcp_state.rcvd THEN position(tcp.rcv_ack) ELSE 0

Changes(from, to) ==
  /\ tcp.listed
  /\ \E win \in PeerWindows, env \in Env :
       received(tcp, peer_segment(from, to, heard, win), env) # tcp

NextByteDue ==
  /\ Willing /\ heard > 0 /\ NextPosition < least(most(edge, 1), PeerBytes + 2)
  /\ Changes(NextPosition, NextPosition + 1)

NextByte ==
  /\ Willing /\ heard > 0 /\ NextPosition < least(most(edge, 1), PeerBytes + 2)
  /\ \E win \in PeerWindows : tcp_rx(NextPosition, NextPosition + 1, heard, win)

AcknowledgeDue ==
  /\ Willing /\ "SYN" \in tcp.tcp_state.rcvd /\ edge > 0
  /\ Changes(NextPosition, NextPosition)

Acknowledge ==
  /\ Willing /\ "SYN" \in tcp.tcp_state.rcvd /\ edge > 0
  /\ \E win \in PeerWindows : tcp_rx(NextPosition, NextPosition, heard, win)

(* Weak fairness of the two timers and of such a peer: timers expire, and  *)
(* the network does not lose every copy of a segment.                      *)
FairSpec ==
  /\ Spec
  /\ []<>(tcp.timer = "stopped") \/ []<><<tcp_expired>>_vars
  /\ []<>(~ tcp.wait) \/ []<><<tcp_wait_expired>>_vars
  /\ []<>(~ NextByteDue) \/ []<><<NextByte>>_vars
  /\ []<>(~ AcknowledgeDue) \/ []<><<Acknowledge>>_vars

-----------------------------------------------------------------------------
(* Properties *)

(* The application is given the peer's stream in order, each byte once and *)
(* none left out, however it is segmented, overlapped, reordered, repeated *)
(* or discarded under memory pressure, and across the wrap of SEQ; and     *)
(* rcv_ack, which acknowledges it, stands at the byte after the last one   *)
(* given.                                                                  *)
StreamIntegrity ==
  /\ tcp.up = [k \in 1..Len(tcp.up) |-> <<"peer", k>>]
  /\ tcp.opened /\ "SYN" \in tcp.tcp_state.rcvd
       => position(tcp.rcv_ack) = 1 + Len(tcp.up)

(* "The retransmission timer will have been started if necessary": SYN,    *)
(* FIN or data the window admits never waits without the timer.            *)
NothingForgotten ==
  tcp.listed /\ (xmit_seq_len(tcp) > 0 \/ tcp.snd_sent > 0) => tcp.timer # "stopped"

(* pending_data counts the transmit queue, pending_flags the SYN or FIN    *)
(* outstanding, and both are zero once the connection is deleted, so that  *)
(* pending_wait() can return.                                              *)
PendingCounted ==
  /\ tcp.pending_data = Len(tcp.tx_queue)
  /\ tcp.pending_flags = Cardinality(TCP_FLAGS_SENDING(tcp.tcp_state) \cap {"SYN", "FIN"})

(* The right edge of the receive window never moves back.                  *)
WindowKept ==
  [][tcp'.listed /\ "SYN" \in tcp.tcp_state.rcvd =>
       tcp_cmp(seq_add(tcp'.rcv_ack, tcp'.rcv_win), seq_add(tcp.rcv_ack, tcp.rcv_win)) >= 0]_vars

(* An application that stays open is given the peer's whole stream, even   *)
(* if tcp_discard() has dropped packets of it.                             *)
EverythingDelivered == Willing => <>(~ tcp.opened \/ Len(tcp.up) = PeerBytes)

(* What the application has sent is acknowledged in the end, or the        *)
(* connection is deleted: it does not wait for ever on a peer that answers.*)
EverythingSent == Willing /\ tcp.tx_queue # << >> ~> tcp.tx_queue = << >>

=============================================================================
