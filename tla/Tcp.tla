------------------------------- MODULE Tcp -------------------------------
(***************************************************************************)
(* One TCP connection of net/tcp.c: the functions that act on a            *)
(* struct tcp_connection, as operators from a connection to a connection.  *)
(*                                                                         *)
(* A connection is a record.  Sequence numbers count modulo SeqSpace (2^32 *)
(* in the code) and a payload is a sequence of bytes.  The segments one    *)
(* handler transmits are gathered in the field "out", which is empty       *)
(* between handlers; "up" is the stream the application has been given     *)
(* and "opened" whether an application is plugged into the interface.      *)
(*                                                                         *)
(* Left out: options (MSS, timestamps), window scaling, checksums.         *)
(***************************************************************************)
EXTENDS Integers, Sequences, FiniteSets, SequencesExt

CONSTANTS
  SeqSpace,             \* size of the sequence space, 2^32 in the code
  TCP_MAX_WINDOW_SIZE,  \* largest window ever offered
  TCP_PATH_MTU,         \* most bytes in one segment
  WindowUnit            \* windows are kept multiples of this, 4 in the code

ASSUME TcpAssumption ==
  /\ SeqSpace \in Nat /\ SeqSpace > 0
  /\ TCP_MAX_WINDOW_SIZE \in Nat
  /\ TCP_PATH_MTU \in Nat \ {0}
  /\ WindowUnit \in Nat \ {0}

-----------------------------------------------------------------------------
(* Sequence numbers *)

seq_add(a, n) == (a + n) % SeqSpace

seq_sub(a, b) == (a - b) % SeqSpace

(* The difference read as a signed integer of the same width.              *)
tcp_cmp(a, b) ==
  LET d == seq_sub(a, b) IN IF 2 * d >= SeqSpace THEN d - SeqSpace ELSE d

tcp_in_window(seq, start, len) == seq_sub(seq, start) < len

-----------------------------------------------------------------------------
(* The state: the flags sent, acknowledged by the peer, and received *)

Flags == {"SYN", "ACK", "FIN", "RST"}

State(sent, acked, rcvd) == [sent |-> sent, acked |-> acked, rcvd |-> rcvd]

TCP_CLOSED == State({"RST"}, {}, {})
TCP_LISTEN == State({}, {}, {})
TCP_SYN_SENT == State({"SYN"}, {}, {})
TCP_SYN_RCVD == State({"SYN", "ACK"}, {}, {"SYN"})
TCP_ESTABLISHED == State({"SYN", "ACK"}, {"SYN"}, {"SYN"})
TCP_FIN_WAIT_1 == State({"SYN", "ACK", "FIN"}, {"SYN"}, {"SYN"})
TCP_FIN_WAIT_2 == State({"SYN", "ACK", "FIN"}, {"SYN", "FIN"}, {"SYN"})
TCP_CLOSING_OR_LAST_ACK == State({"SYN", "ACK", "FIN"}, {"SYN"}, {"SYN", "FIN"})
TCP_TIME_WAIT == State({"SYN", "ACK", "FIN"}, {"SYN", "FIN"}, {"SYN", "FIN"})
TCP_CLOSE_WAIT == State({"SYN", "ACK"}, {"SYN"}, {"SYN", "FIN"})

TCP_FLAGS_SENDING(s) == s.sent \ s.acked

TCP_CAN_SEND_DATA(s) == "SYN" \in s.acked /\ "FIN" \notin s.sent

TCP_HAS_BEEN_ESTABLISHED(s) == "SYN" \in s.acked /\ "SYN" \in s.rcvd

TCP_CLOSED_GRACEFULLY(s) == "FIN" \in s.acked /\ "FIN" \in s.rcvd

-----------------------------------------------------------------------------
(* Small helpers *)

least(a, b) == IF a < b THEN a ELSE b

most(a, b) == IF a > b THEN a ELSE b

(* pending_get() and pending_put(): the count never goes below zero.       *)
pending_get(n) == n + 1

pending_put(n) == most(n - 1, 0)

(* tcp_dump_state() also remembers the state it has reported.              *)
tcp_dump_state(c) == [c EXCEPT !.prev_tcp_state = c.tcp_state]

start_timer(c) == [c EXCEPT !.timer = "running"]

stop_timer(c) ==
  IF c.timer = "stopped" THEN c ELSE [c EXCEPT !.timer = "stopped", !.tries = most(@ - 1, 0)]

-----------------------------------------------------------------------------
(* Transmit data path *)

(* Bytes waiting in the transmit queue, whose members are I/O buffers.     *)
tx_data(c) == FlattenSeq(c.tx_queue)

tcp_xmit_win(c) ==
  IF TCP_CAN_SEND_DATA(c.tcp_state) THEN least(c.snd_win, TCP_PATH_MTU) ELSE 0

tcp_xfer_window(c) == IF c.tx_queue # << >> THEN 0 ELSE tcp_xmit_win(c)

(* Mutant: the buffers emptied by an acknowledgement stay counted.         *)
tcp_process_tx_queue_leak(c, len) ==
  LET before(i) == Len(FlattenSeq(SubSeq(c.tx_queue, 1, i - 1)))
      left == [i \in 1..Len(c.tx_queue) |->
                 SubSeq(c.tx_queue[i], most(len - before(i), 0) + 1, Len(c.tx_queue[i]))]
  IN  [c EXCEPT !.tx_queue = SelectSeq(left, LAMBDA b : b # << >>)]

(* tcp_process_tx_queue() with "remove": len bytes go from the front, and  *)
(* every buffer left empty is freed and its pending operation dropped.     *)
tcp_process_tx_queue(c, len) ==
  LET before(i) == Len(FlattenSeq(SubSeq(c.tx_queue, 1, i - 1)))
      left == [i \in 1..Len(c.tx_queue) |->
                 SubSeq(c.tx_queue[i], most(len - before(i), 0) + 1, Len(c.tx_queue[i]))]
      kept == SelectSeq(left, LAMBDA b : b # << >>)
  IN  [c EXCEPT !.tx_queue = kept,
                !.pending_data = most(@ - (Len(left) - Len(kept)), 0)]

(* Payload of the next segment.                                            *)
xmit_data(c) == SubSeq(tx_data(c), 1, least(tcp_xmit_win(c), Len(tx_data(c))))

xmit_seq_len(c) ==
  Len(xmit_data(c)) + IF TCP_FLAGS_SENDING(c.tcp_state) \cap {"SYN", "FIN"} # {} THEN 1
                      ELSE 0

(* Mutant: the window follows what the application accepts, both ways.     *)
xmit_rcv_win_shrink(c, app_win) ==
  LET offer == least(c.max_rcv_win, app_win) IN offer - (offer % WindowUnit)

(* The receive window only ever grows here, up to what the application     *)
(* accepts, rounded down.                                                  *)
xmit_rcv_win(c, app_win) ==
  LET offer == least(c.max_rcv_win, app_win)
  IN  most(c.rcv_win, offer - (offer % WindowUnit))

segment(c) ==
  [src |-> c.host, sport |-> c.local_port, dst |-> c.peer, dport |-> c.peer_port,
   seq |-> c.snd_seq, ack |-> c.rcv_ack, flags |-> TCP_FLAGS_SENDING(c.tcp_state),
   win |-> c.rcv_win, data |-> xmit_data(c)]

(* Mutant: the timer is started only once the segment has left.            *)
tcp_xmit_late(c, env) ==
  LET seq_len == xmit_seq_len(c)
      sized   == [c EXCEPT !.snd_sent = seq_len]
      offered == [sized EXCEPT !.rcv_win = xmit_rcv_win(c, env.app_win)]
      gone    == [offered EXCEPT !.flags = @ \ {"ACK_PENDING"},
                                 !.out = Append(@, segment(offered))]
  IN  IF c.timer # "stopped" THEN c
      ELSE IF (seq_len = 0 /\ "ACK_PENDING" \notin c.flags) \/ env.fails # "none" THEN sized
      ELSE IF seq_len > 0 THEN start_timer(gone) ELSE gone

(* tcp_xmit(): env says whether the I/O buffer can be allocated, whether   *)
(* the network layer takes the segment, and what the application accepts.  *)
tcp_xmit(c, env) ==
  LET seq_len == xmit_seq_len(c)
      sized   == [c EXCEPT !.snd_sent = seq_len]
      timed   == IF seq_len > 0 THEN start_timer(sized) ELSE sized
      offered == [timed EXCEPT !.rcv_win = xmit_rcv_win(c, env.app_win)]
      gone    == [offered EXCEPT !.flags = @ \ {"ACK_PENDING"},
                                 !.out = Append(@, segment(offered))]
  IN  IF c.timer # "stopped" THEN c
      ELSE IF seq_len = 0 /\ "ACK_PENDING" \notin c.flags THEN sized
      ELSE CASE env.fails = "alloc_iob" -> timed
             [] env.fails = "tcpip_tx"  -> offered
             [] OTHER                   -> gone

(* tcp_xmit_reset(): the answer to a segment that fits no connection.      *)
tcp_xmit_reset(s) ==
  [src |-> s.dst, sport |-> s.dport, dst |-> s.src, dport |-> s.sport,
   seq |-> s.ack, ack |-> s.seq, flags |-> {"RST", "ACK"}, win |-> 0, data |-> << >>]

-----------------------------------------------------------------------------
(* Receive data path *)

tcp_rx_seq(c, seq_len) ==
  [c EXCEPT !.rcv_ack = seq_add(@, seq_len),
            !.rcv_win = most(@ - seq_len, 0),
            !.flags = @ \cup {"ACK_PENDING"}]

tcp_rx_syn(c, seq) ==
  LET first  == "SYN" \notin c.tcp_state.rcvd
      synced == IF first THEN [c EXCEPT !.rcv_ack = seq] ELSE c
      sent   == IF c.tcp_state = TCP_LISTEN THEN {"SYN", "ACK"} ELSE {"ACK"}
  IN  IF seq # synced.rcv_ack THEN synced
      ELSE [tcp_rx_seq(synced, 1) EXCEPT !.tcp_state.sent = @ \cup sent,
                                         !.tcp_state.rcvd = @ \cup {"SYN"}]

(* An acknowledgement that ends the handling of its segment with a reset.  *)
ack_refused(c, ack) ==
  /\ seq_sub(ack, c.snd_seq) > c.snd_sent
  /\ ~ TCP_HAS_BEEN_ESTABLISHED(c.tcp_state)

(* FIN is sent once the application has closed and all its data is acked.  *)
send_fin(c) ==
  IF c.tx_queue = << >> /\ "FIN" \notin c.tcp_state.sent
  THEN [c EXCEPT !.tcp_state.sent = @ \cup {"FIN"}, !.pending_flags = pending_get(@)]
  ELSE c

(* Mutant: an old duplicate acknowledgement is not told from a new one.    *)
tcp_rx_ack_any(c, ack, win) ==
  LET ack_len == seq_sub(ack, c.snd_seq)
      acked   == TCP_FLAGS_SENDING(c.tcp_state) \cap {"SYN", "FIN"}
      moved   == [stop_timer(c) EXCEPT
                    !.snd_seq = ack, !.snd_sent = 0, !.snd_win = win,
                    !.pending_flags = IF acked # {} THEN pending_put(@) ELSE @]
      freed   == tcp_process_tx_queue(moved, ack_len - Cardinality(acked))
      marked  == [freed EXCEPT !.tcp_state.acked = @ \cup acked]
  IN  IF ack_len = 0 THEN c
      ELSE IF "XFER_CLOSED" \in c.flags THEN send_fin(marked) ELSE marked

tcp_rx_ack(c, ack, win) ==
  LET ack_len == seq_sub(ack, c.snd_seq)
      acked   == TCP_FLAGS_SENDING(c.tcp_state) \cap {"SYN", "FIN"}
      moved   == [stop_timer(c) EXCEPT
                    !.snd_seq = ack, !.snd_sent = 0, !.snd_win = win,
                    !.pending_flags = IF acked # {} THEN pending_put(@) ELSE @]
      freed   == tcp_process_tx_queue(moved, ack_len - Cardinality(acked))
      marked  == [freed EXCEPT !.tcp_state.acked = @ \cup acked]
  IN  IF ack_len > c.snd_sent \/ ack_len = 0 THEN c
      ELSE IF "XFER_CLOSED" \in c.flags THEN send_fin(marked) ELSE marked

-----------------------------------------------------------------------------
(* Open and close *)

(* The part of tcp_close() that deletes a connection which has received no *)
(* SYN, or has been forced to CLOSED.                                      *)
delete(c) ==
  [c EXCEPT !.tcp_state = TCP_CLOSED, !.prev_tcp_state = TCP_CLOSED,
            !.rx_queue = << >>, !.tx_queue = << >>,
            !.pending_data = most(@ - Len(c.tx_queue), 0),
            !.pending_flags = pending_put(pending_put(@)),
            !.timer = "stopped", !.wait = FALSE, !.tries = 0, !.listed = FALSE]

tcp_close(c) ==
  LET shut    == [c EXCEPT !.opened = FALSE, !.flags = @ \cup {"XFER_CLOSED"}]
      pretend == IF "SYN" \in c.tcp_state.acked THEN shut
                 ELSE tcp_rx_ack(shut, seq_add(shut.snd_seq, 1), 0)
      fin     == send_fin(pretend)
  IN  IF "SYN" \notin c.tcp_state.rcvd THEN delete(shut)
      ELSE IF fin # pretend THEN tcp_dump_state(fin) ELSE pretend

(* The application closes its end.                                         *)
tcp_xfer_close(c, env) == tcp_xmit(tcp_close(c), env)

(* The application hands over one I/O buffer.                              *)
tcp_xfer_deliver(c, iobuf, env) ==
  tcp_xmit([c EXCEPT !.tx_queue = Append(@, iobuf),
                     !.pending_data = pending_get(@)], env)

-----------------------------------------------------------------------------
(* Received data and FIN *)

(* xfer_deliver_iob(): an application that has all it wants (env.enough    *)
(* bytes) closes its end from inside the delivery.  Once the interface is  *)
(* shut down the data goes nowhere.                                        *)
xfer_deliver_iob(c, data, env) ==
  LET given == [c EXCEPT !.up = @ \o data]
  IN  IF ~ c.opened THEN c
      ELSE IF Len(given.up) >= env.enough THEN tcp_xfer_close(given, env) ELSE given

(* Mutant: the bytes already received are delivered again.                 *)
tcp_rx_data_whole(c, seq, data, env) ==
  LET already_rcvd == seq_sub(c.rcv_ack, seq)
  IN  IF already_rcvd >= Len(data) THEN c
      ELSE xfer_deliver_iob(tcp_rx_seq(c, Len(data) - already_rcvd), data, env)

tcp_rx_data(c, seq, data, env) ==
  LET already_rcvd == seq_sub(c.rcv_ack, seq)
      fresh        == SubSeq(data, already_rcvd + 1, Len(data))
  IN  IF already_rcvd >= Len(data) THEN c
      ELSE xfer_deliver_iob(tcp_rx_seq(c, Len(fresh)), fresh, env)

tcp_rx_fin(c, seq) ==
  IF seq # c.rcv_ack THEN c
  ELSE tcp_close([tcp_rx_seq(c, 1) EXCEPT !.tcp_state.rcvd = @ \cup {"FIN"}])

(* A reset is accepted in the window, or once our SYN is acknowledged.     *)
rst_accepted(c, seq) ==
  IF "SYN" \in c.tcp_state.rcvd THEN tcp_in_window(seq, c.rcv_ack, c.rcv_win)
  ELSE "SYN" \in c.tcp_state.acked

abort(c) == tcp_close([c EXCEPT !.tcp_state = TCP_CLOSED, !.prev_tcp_state = TCP_CLOSED])

(* tcp_rx_enqueue(): kept in order of sequence number, after its equals.   *)
tcp_rx_enqueue(c, seq, fin, data) ==
  LET seq_len == Len(data) + IF fin THEN 1 ELSE 0
      useless == \/ "SYN" \notin c.tcp_state.rcvd
                 \/ tcp_cmp(seq, seq_add(c.rcv_ack, c.rcv_win)) >= 0
                 \/ tcp_cmp(seq_add(seq, seq_len), c.rcv_ack) < 0
                 \/ seq_len = 0
      later   == SelectInSeq(c.rx_queue, LAMBDA q : tcp_cmp(seq, q.seq) < 0)
      place   == IF later = 0 THEN Len(c.rx_queue) + 1 ELSE later
  IN  IF useless THEN c
      ELSE [c EXCEPT !.rx_queue =
                       InsertAt(@, place, [seq |-> seq, fin |-> fin, data |-> data])]

(* One turn of tcp_process_rx_queue(): nothing beyond the first gap.       *)
process_first(c, env) ==
  IF c.rx_queue = << >> \/ tcp_cmp(Head(c.rx_queue).seq, c.rcv_ack) > 0 THEN c
  ELSE LET q    == Head(c.rx_queue)
           data == tcp_rx_data([c EXCEPT !.rx_queue = Tail(@)], q.seq, q.data, env)
       IN  IF q.fin THEN tcp_rx_fin(data, seq_add(q.seq, Len(q.data))) ELSE data

tcp_process_rx_queue(c, env) ==
  LET turn[i \in 0..Len(c.rx_queue)] == IF i = 0 THEN c ELSE process_first(turn[i - 1], env)
  IN  turn[Len(c.rx_queue)]

(* Mutant: the byte before the gap is not admitted either.                 *)
tcp_discard_tight(c) ==
  LET max_win == seq_sub(Last(c.rx_queue).seq, c.rcv_ack) - 1
  IN  [c EXCEPT !.rx_queue = Front(@), !.max_rcv_win = least(@, max_win)]

(* tcp_discard() on one connection: the last queued packet goes, and the   *)
(* window is limited so that it would not have been sent.                  *)
tcp_discard(c) ==
  LET max_win == seq_sub(Last(c.rx_queue).seq, c.rcv_ack)
  IN  [c EXCEPT !.rx_queue = Front(@), !.max_rcv_win = least(@, max_win)]

-----------------------------------------------------------------------------
(* tcp_rx(), once the connection is known *)

(* tcp_rx_ack() and the opening of the child interface, once the handshake *)
(* of a passive connection completes.                                      *)
child_due(c) ==
  /\ c.tcp_state = TCP_ESTABLISHED
  /\ c.prev_tcp_state = TCP_SYN_RCVD
  /\ c.new_tcp_created = 0

rx_ack_part(c, s, env) ==
  IF "ACK" \notin s.flags THEN c
  ELSE LET a == tcp_rx_ack(c, s.ack, s.win)
       IN  IF child_due(a) /\ env.listener
           THEN [a EXCEPT !.new_tcp_created = @ + 1, !.opened = TRUE] ELSE a

(* A packet out of order is always answered with an acknowledgement.       *)
rx_force_ack(c, s) ==
  IF "SYN" \in c.tcp_state.rcvd /\ s.seq # c.rcv_ack
  THEN [c EXCEPT !.flags = @ \cup {"ACK_PENDING"}] ELSE c

rx_syn_part(c, s) == IF "SYN" \in s.flags THEN tcp_rx_syn(c, s.seq) ELSE c

(* SEQ after the SYN, if there is one.                                     *)
rx_seq(s) == IF "SYN" \in s.flags THEN seq_add(s.seq, 1) ELSE s.seq

(* Mutant: the TIME_WAIT timer starts as soon as our FIN is acknowledged.  *)
rx_wait_part_any(c) ==
  IF "FIN" \in c.tcp_state.acked THEN [c EXCEPT !.wait = TRUE] ELSE c

rx_wait_part(c) ==
  IF TCP_CLOSED_GRACEFULLY(c.tcp_state) THEN [c EXCEPT !.wait = TRUE] ELSE c

(* Mutant: the packet is not followed by a transmission.                   *)
rx_rest_silent(c, s, env) ==
  LET queued == tcp_rx_enqueue(c, rx_seq(s), "FIN" \in s.flags, s.data)
  IN  rx_wait_part(tcp_dump_state(tcp_process_rx_queue(queued, env)))

(* tcp_rx() from the handling of ACK on, for a segment that is not refused *)
(* and not an accepted reset.                                              *)
rx_rest(c, s, env) ==
  LET queued    == tcp_rx_enqueue(c, rx_seq(s), "FIN" \in s.flags, s.data)
      processed == tcp_dump_state(tcp_process_rx_queue(queued, env))
  IN  rx_wait_part(tcp_xmit(processed, env))

received(c, s, env) ==
  LET synced == rx_syn_part(rx_force_ack(rx_ack_part(c, s, env), s), s)
  IN  IF "ACK" \in s.flags /\ ack_refused(c, s.ack)
      THEN [c EXCEPT !.out = <<tcp_xmit_reset(s)>>]
      ELSE IF "RST" \in s.flags /\ rst_accepted(synced, rx_seq(s)) THEN abort(synced)
      ELSE rx_rest(synced, s, env)

=============================================================================
