------------------------------ MODULE TcpNet ------------------------------
(***************************************************************************)
(* Hosts that run net/tcp.c and a network between them.                    *)
(*                                                                         *)
(* Every host keeps the list tcp_conns and the static pointer to the       *)
(* listening connection.  The network is the set of all segments ever      *)
(* sent: a segment may be received at any time, any number of times, in    *)
(* any order, or never.  Handlers run to completion: the stack is          *)
(* single-threaded, and packets, timers and applications are only served   *)
(* from the event loop.  tcp_discard() is in TcpPeer: this sender has one  *)
(* segment outstanding and so never leaves a gap in the receive queue.     *)
(***************************************************************************)
EXTENDS Tcp

CONSTANTS
  Clients, Servers,   \* hosts that open connections, hosts that listen
  LISTEN_PORT,        \* the port of every listening connection
  Ports,              \* ports a client may be bound to
  ISS,                \* for each host, what random() gives as its initial
                      \* sequence numbers, one for each connection
  AppWindows,         \* what an application may accept
  Enough,             \* bytes after which an application closes its end
  WriteLens,          \* lengths of the buffers an application sends
  MaxWork,            \* bound: connections allocated and different bytes sent
  MaxTries,           \* bound: expiries before the retry timer gives up
  MaxResets,          \* bound: resets sent to segments without connection
  MaxOpens,           \* bound: connections a client opens
  Failures,           \* ways in which a transmission may fail
  MayClose,           \* hosts whose applications may close connections
  MayShutdown,        \* hosts that may shut their stack down
  MayUnlisten         \* servers whose application may close the listener

Hosts == Clients \cup Servers

(* A connection sends a SYN, a FIN and at most MaxWork - 3 bytes.  random() *)
(* is taken to keep the sequence numbers of a host's connections apart.     *)
ASSUME NetAssumption ==
  /\ Clients \cap Servers = {}
  /\ LISTEN_PORT \notin Ports /\ 0 \notin Ports
  /\ ISS \in [Hosts -> Seq(0..(SeqSpace - 1))]
  /\ \A h \in Hosts :
        /\ Len(ISS[h]) >= MaxWork - 1
        /\ \A i, j \in DOMAIN ISS[h] :
              i # j => (ISS[h][i] - ISS[h][j]) % SeqSpace >= MaxWork - 1
  /\ AppWindows \subseteq Nat /\ WriteLens \subseteq Nat \ {0}
  /\ MaxWork \in Nat /\ Enough \in [Hosts -> Nat \ {0}]
  /\ Failures \subseteq {"none", "alloc_iob", "tcpip_tx"}

VARIABLES
  tcp_conns,   \* for each host, its list of connections
  listener,    \* for each host, the id the static pointer holds, or 0
  net,         \* the segments sent so far
  opens        \* for each host, the connections allocated so far

vars == <<tcp_conns, listener, net, opens>>

NoHost == "none"

(* What a handler meets: failures, the application's window and appetite,  *)
(* and whether the static pointer is set.                                  *)
Env(h) == [fails : Failures, app_win : AppWindows, enough : {Enough[h]},
           listener : {listener[h] # 0}]

-----------------------------------------------------------------------------
(* Connections *)

(* The work done so far, which is bounded by MaxWork.                      *)
Work == MapThenSumSet(LAMBDA h : opens[h], Hosts)
        + Cardinality(UNION {ToSet(s.data) : s \in net})

(* zalloc(), the initialisation in tcp_open(), and the ghost fields.       *)
fresh_connection(h, id, state, iss) ==
  [host |-> h, id |-> id, listed |-> TRUE, opened |-> TRUE, flags |-> {},
   peer |-> NoHost, peer_port |-> 0, local_port |-> 0,
   tcp_state |-> state, prev_tcp_state |-> state,
   snd_seq |-> iss, snd_sent |-> 0, snd_win |-> 0, rcv_ack |-> 0, rcv_win |-> 0,
   max_rcv_win |-> TCP_MAX_WINDOW_SIZE, tx_queue |-> << >>, rx_queue |-> << >>,
   timer |-> "stopped", wait |-> FALSE, tries |-> 0,
   pending_flags |-> 0, pending_data |-> 0, new_tcp_created |-> 0,
   up |-> << >>, written |-> 0, out |-> << >>]

(* tcp_bind() refuses a port that any listed connection has.               *)
tcp_bind(h, port) == \A i \in DOMAIN tcp_conns[h] : tcp_conns[h][i].local_port # port

(* The end of a handler: segments go to the network, a deleted connection  *)
(* leaves the list.                                                        *)
put_back(list, c) ==
  LET i    == SelectInSeq(list, LAMBDA x : x.id = c.id)
      done == [c EXCEPT !.out = << >>]
  IN  IF c.listed THEN ReplaceAt(list, i, done) ELSE RemoveAt(list, i)

Finish(h, list, c) ==
  /\ tcp_conns' = [tcp_conns EXCEPT ![h] = put_back(list, c)]
  /\ net' = net \cup ToSet(c.out)

-----------------------------------------------------------------------------
(* tcp_open() *)

tcp_open_active(h, s, port) ==
  /\ opens[h] < MaxOpens
  /\ tcp_bind(h, port)
  /\ LET c == [fresh_connection(h, opens[h] + 1, TCP_SYN_SENT, ISS[h][opens[h] + 1]) EXCEPT
                 !.peer = s, !.peer_port = LISTEN_PORT, !.local_port = port,
                 !.timer = "nodelay", !.pending_flags = pending_get(@)]
     IN  tcp_conns' = [tcp_conns EXCEPT ![h] = <<c>> \o @]
  /\ opens' = [opens EXCEPT ![h] = @ + 1]
  /\ UNCHANGED <<listener, net>>

(* The static pointer is set before tcp_bind() is tried.                   *)
tcp_open_listen(h) ==
  /\ opens[h] = 0
  /\ tcp_bind(h, LISTEN_PORT)
  /\ LET c == [fresh_connection(h, 1, TCP_LISTEN, ISS[h][1]) EXCEPT !.local_port = LISTEN_PORT]
     IN  tcp_conns' = [tcp_conns EXCEPT ![h] = <<c>> \o @]
  /\ listener' = [listener EXCEPT ![h] = 1]
  /\ opens' = [opens EXCEPT ![h] = 1]
  /\ UNCHANGED net

-----------------------------------------------------------------------------
(* tcp_rx() *)

(* tcp_demux(): the first connection between the two ports, else the last  *)
(* listening one if it has the port, else none (0).  The peer's address is *)
(* not looked at.                                                          *)
matching(h, s) ==
  SelectInSeq(tcp_conns[h], LAMBDA c : /\ c.local_port = s.dport
                                       /\ c.peer_port = s.sport /\ s.sport # 0)

listening(h) == SelectLastInSeq(tcp_conns[h], LAMBDA c : c.tcp_state = TCP_LISTEN)

tcp_demux(h, s) ==
  IF matching(h, s) # 0 THEN matching(h, s)
  ELSE IF listening(h) # 0 /\ tcp_conns[h][listening(h)].local_port = s.dport
       THEN listening(h)
  ELSE 0

(* The new connection a listening one makes for a segment.                 *)
clone(c, id, s) ==
  [c EXCEPT !.id = id, !.opened = FALSE, !.flags = {}, !.local_port = LISTEN_PORT,
            !.peer = s.src, !.peer_port = s.sport, !.prev_tcp_state = c.tcp_state,
            !.tx_queue = << >>, !.rx_queue = << >>, !.timer = "stopped",
            !.wait = FALSE, !.new_tcp_created = 0]

(* A segment for a connection other than a listening one.                  *)
rx_connection(h, s) ==
  LET i == tcp_demux(h, s)
      c == tcp_conns[h][i]
  IN  /\ i # 0 /\ c.tcp_state # TCP_LISTEN
      /\ \E env \in Env(h) : Finish(h, tcp_conns[h], received(c, s, env))
      /\ UNCHANGED <<listener, opens>>

(* A segment for a listening connection, which clones itself and draws a   *)
(* new initial sequence number.  If the clone cannot be allocated nothing  *)
(* changes, as if the network had lost the segment.                        *)
rx_listener(h, s) ==
  LET i    == tcp_demux(h, s)
      c    == tcp_conns[h][i]
      new  == clone(c, opens[h] + 1, s)
      list == Append(ReplaceAt(tcp_conns[h], i, [c EXCEPT !.snd_seq = ISS[h][opens[h] + 1]]), new)
  IN  /\ i # 0 /\ c.tcp_state = TCP_LISTEN
      /\ Work < MaxWork
      /\ \E env \in Env(h) : Finish(h, list, received(new, s, env))
      /\ opens' = [opens EXCEPT ![h] = @ + 1]
      /\ UNCHANGED listener

(* A segment that fits no connection is answered with a reset.             *)
rx_unknown(h, s) ==
  /\ tcp_demux(h, s) = 0
  /\ Cardinality({r \in net : "RST" \in r.flags}) < MaxResets
  /\ net' = net \cup {tcp_xmit_reset(s)}
  /\ UNCHANGED <<tcp_conns, listener, opens>>

tcp_rx(h, s) ==
  /\ s.dst = h
  /\ \/ rx_connection(h, s)
     \/ rx_listener(h, s)
     \/ rx_unknown(h, s)

-----------------------------------------------------------------------------
(* Timers, applications and shutdown *)

(* The retransmission timer: it gives up at the latest after MaxTries      *)
(* expiries, and never on the first expiry of a timer without delay.       *)
tcp_expired(h, i) ==
  LET c    == tcp_conns[h][i]
      idle == [c EXCEPT !.timer = "stopped", !.tries = least(@ + 1, MaxTries)]
  IN  /\ c.timer # "stopped"
      /\ \/ /\ c.timer = "running"
            /\ Finish(h, tcp_conns[h], abort(idle))
         \/ /\ c.tries < MaxTries
            /\ \E env \in Env(h) : Finish(h, tcp_conns[h], tcp_xmit(idle, env))
      /\ UNCHANGED <<listener, opens>>

tcp_wait_expired(h, i) ==
  /\ tcp_conns[h][i].wait
  /\ Finish(h, tcp_conns[h], abort([tcp_conns[h][i] EXCEPT !.wait = FALSE]))
  /\ UNCHANGED <<listener, opens>>

(* An application sends when the window says it may.                       *)
Send(h, i, len) ==
  LET c == tcp_conns[h][i]
      iobuf == [k \in 1..len |-> <<h, c.written + k>>]
  IN  /\ c.opened /\ tcp_xfer_window(c) > 0
      /\ Work + len <= MaxWork
      /\ \E env \in Env(h) :
           Finish(h, tcp_conns[h],
                  tcp_xfer_deliver([c EXCEPT !.written = @ + len], iobuf, env))
      /\ UNCHANGED <<listener, opens>>

Close(h, i) ==
  LET c == tcp_conns[h][i]
  IN  /\ c.opened
      /\ IF c.tcp_state = TCP_LISTEN THEN h \in MayUnlisten ELSE h \in MayClose
      /\ \E env \in Env(h) : Finish(h, tcp_conns[h], tcp_xfer_close(c, env))
      /\ UNCHANGED <<listener, opens>>

(* Every connection is forced to CLOSED and so deleted.                    *)
tcp_shutdown(h) ==
  /\ h \in MayShutdown /\ tcp_conns[h] # << >>
  /\ tcp_conns' = [tcp_conns EXCEPT ![h] = << >>]
  /\ UNCHANGED <<listener, net, opens>>

-----------------------------------------------------------------------------
Init ==
  /\ tcp_conns = [h \in Hosts |-> << >>]
  /\ listener = [h \in Hosts |-> 0]
  /\ net = {}
  /\ opens = [h \in Hosts |-> 0]

Timer(h) == \E i \in DOMAIN tcp_conns[h] : tcp_expired(h, i) \/ tcp_wait_expired(h, i)

Application(h) ==
  \/ h \in Clients /\ \E s \in Servers, p \in Ports : tcp_open_active(h, s, p)
  \/ h \in Servers /\ tcp_open_listen(h)
  \/ \E i \in DOMAIN tcp_conns[h] : Close(h, i) \/ \E n \in WriteLens : Send(h, i, n)

Next ==
  \E h \in Hosts :
    \/ \E s \in net : tcp_rx(h, s)
    \/ Timer(h)
    \/ Application(h)
    \/ tcp_shutdown(h)

Spec == Init /\ [][Next]_vars

-----------------------------------------------------------------------------
(* Properties *)

AllConns == UNION {ToSet(tcp_conns[h]) : h \in Hosts}

(* Data leaves the transmit queue (tcp_rx_ack()) only when the connection  *)
(* at the other end has passed it to its application, provided that the     *)
(* sequence numbers of a host's connections stay apart (NetAssumption).     *)
AckedWasDelivered ==
  \A c, d \in AllConns :
    (/\ c.peer = d.host /\ d.peer = c.host /\ d.opened
     /\ c.local_port = d.peer_port /\ d.local_port = c.peer_port)
      => c.written - Len(tx_data(c)) <= Len(d.up)

(* The assertions of tcp_xmit(), tcp_expired() and tcp_wait_expired(): SYN *)
(* and FIN are never sent together, and each timer runs only in the states *)
(* its handler expects.                                                    *)
AssertionsHold ==
  \A c \in AllConns :
    /\ ~ ({"SYN", "FIN"} \subseteq TCP_FLAGS_SENDING(c.tcp_state))
    /\ c.timer # "stopped" =>
         c.tcp_state \in {TCP_SYN_SENT, TCP_SYN_RCVD, TCP_ESTABLISHED, TCP_FIN_WAIT_1,
                         TCP_CLOSE_WAIT, TCP_CLOSING_OR_LAST_ACK}
    /\ c.wait => c.tcp_state = TCP_TIME_WAIT

=============================================================================
