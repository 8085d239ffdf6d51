------------------------------ MODULE BtSwarm ------------------------------
(***************************************************************************)
(* The BitTorrent clients of net/tcp/bittorrent.c: a chain of nodes, each  *)
(* of which opens a connection to the node with the next id, accepts one   *)
(* from the node before it and passes pieces on.                           *)
(*                                                                         *)
(* The three ids have the roles the code gives them: First (10) answers    *)
(* requests, Middle (11) asks First for every piece in turn, and Last (12) *)
(* asks for the pieces it is told of.  Messages are delivered whole and in *)
(* order by TCP; how they are cut into segments is the subject of          *)
(* BtFraming.  A node has at most one connection to another, so a peer is  *)
(* named by the node at its other end.                                     *)
(*                                                                         *)
(* Left out: the content of pieces, the bitmaps of peers (never read), the *)
(* counters pieces_received and pending_requests (never tested) and the    *)
(* failure to allocate the next receive buffer.                            *)
(***************************************************************************)
EXTENDS Integers, Sequences, FiniteSets, SequencesExt

CONSTANTS
  BT_NUMOFPIECES,   \* number of pieces
  Settled,          \* a node is started once the ones after it have settled
  ZeroWindow,       \* a peer may advertise a window of zero
  OpenMayFail,      \* opening a socket may fail
  PeerMayFail,      \* allocating a peer, its receive buffer or bitmap may fail
  PieceMayFail,     \* allocating a piece to send may fail
  MayDisconnect     \* connections may close

ASSUME SwarmAssumption ==
  /\ BT_NUMOFPIECES \in Nat \ {0}
  /\ {Settled, ZeroWindow, OpenMayFail, PeerMayFail, PieceMayFail, MayDisconnect}
       \subseteq BOOLEAN

First == 10
Middle == 11
Last_ == 12
Nodes == First..Last_
Pieces == 0..(BT_NUMOFPIECES - 1)

VARIABLES
  bt,     \* for each node, its bt_request
  peer,   \* for each node and remote node, its bt_peer
  tcp,    \* for each node that opens a connection, how far it has come
  chan,   \* for each ordered pair of nodes, the messages in flight
  busy    \* for each ordered pair of nodes, whether TCP has data not acknowledged

vars == <<bt, peer, tcp, chan, busy>>

(* bt_compute_records(): the one node this one connects to, or 0.          *)
record_id(n) == IF n + 1 > Last_ THEN 0 ELSE n + 1

-----------------------------------------------------------------------------
(* Sending.  A handler works on one node and what it sends:                *)
(* w.bt, w.peer (by remote node) and w.sent (by remote node).              *)

Worker(n) == [bt |-> bt[n], peer |-> peer[n], sent |-> [m \in Nodes |-> << >>]]

Message(kind, arg) == [kind |-> kind, arg |-> arg]

tx(w, m, kind, arg) == [w EXCEPT !.sent[m] = Append(@, Message(kind, arg))]

bt_tx_have_to_peers(w, index) ==
  [w EXCEPT !.sent = [m \in Nodes |->
     IF m \in ToSet(w.bt.peers) THEN Append(@[m], Message("HAVE", index)) ELSE @[m]]]

(* bt_tx_request() of bt_next_piece(): the head of the list is taken off.  *)
(* An empty list has no head: what is read then is not a piece at all.     *)
bt_next_piece(w, m) ==
  IF w.bt.rem_pieces = << >> THEN [w EXCEPT !.bt.stray = TRUE]
  ELSE tx([w EXCEPT !.bt.rem_pieces = Tail(@), !.bt.pieces_left = @ - 1],
          m, "REQUEST", Head(w.bt.rem_pieces))

(* bt_peer_xmit(): one queued piece, if the window is open.                *)
bt_peer_xmit(w, m, open) ==
  IF w.peer[m].queue = << >> \/ m \notin open THEN w
  ELSE tx([w EXCEPT !.peer[m].queue = Tail(@)], m, "PIECE", Head(w.peer[m].queue))

bt_tx_piece(w, m, index, open) ==
  bt_peer_xmit([w EXCEPT !.peer[m].queue = Append(@, index)], m, open)

xmit_all(w, open) == FoldLeft(LAMBDA v, m : bt_peer_xmit(v, m, open), w, w.bt.peers)

(* The end of a handler.                                                   *)
Finish(n, w) ==
  /\ bt' = [bt EXCEPT ![n] = w.bt]
  /\ peer' = [peer EXCEPT ![n] = w.peer]
  /\ busy' = [busy EXCEPT ![n] = [m \in Nodes |-> @[m] \/ w.sent[m] # << >>]]

Sends(n, w) ==
  /\ Finish(n, w)
  /\ chan' = [chan EXCEPT ![n] = [m \in Nodes |-> @[m] \o w.sent[m]]]

(* Peers whose window is open: the connection has come up, everything sent *)
(* has been acknowledged and the other end has not closed its window.      *)
windows(n) == {m \in ToSet(bt[n].peers) : (m < n \/ tcp[n] # "opening") /\ ~ busy[n][m]}

Windows(n) == IF ZeroWindow THEN SUBSET windows(n) ELSE {windows(n)}

-----------------------------------------------------------------------------
(* Creating and closing peers *)

(* A node that is neither caught in a loop nor past undefined behaviour.   *)
Running(n) == bt[n].started /\ ~ bt[n].hung /\ ~ bt[n].corrupt

NoPeer == [state |-> "NONE", id |-> 0, queue |-> << >>]

bt_create_peer(w, m, state) ==
  [w EXCEPT !.bt.refs = @ + 1, !.peer[m] = [NoPeer EXCEPT !.state = state]]

(* bt_create_peer() returns NULL: before it takes its reference, when the  *)
(* peer or the receive buffer cannot be allocated, or after, when the      *)
(* bitmap cannot.  That reference is never dropped; leaked counts these.   *)
create_failed(w) == {w, [w EXCEPT !.bt.refs = @ + 1, !.bt.leaked = @ + 1]}

(* Mutant: the reference to the request is kept.                           *)
bt_peer_close_leak(w, m) ==
  [w EXCEPT !.bt.peers = SelectSeq(@, LAMBDA x : x # m), !.peer[m] = NoPeer]

bt_peer_close(w, m) ==
  [w EXCEPT !.bt.peers = SelectSeq(@, LAMBDA x : x # m),
            !.bt.refs = @ - 1, !.peer[m] = NoPeer]

Offered(n, m) ==
  m = n - 1 /\ tcp[m] = "established" /\ Running(n) /\ ~ bt[n].closed

(* The listener hands over the connection that another node has opened.    *)
bt_xfer_open_child(n, m) ==
  /\ Offered(n, m)
  /\ tcp' = [tcp EXCEPT ![m] = "open"]
  /\ LET w == bt_create_peer(Worker(n), m, "HANDSHAKE_EXPECTED")
     IN  Sends(n, [w EXCEPT !.bt.peers = <<m>> \o @])

(* Without a peer it returns -ENOMEM, which tcp_rx() ignores: the          *)
(* connection stays up with nothing plugged into it.                       *)
child_failed(n, m) ==
  /\ PeerMayFail /\ Offered(n, m)
  /\ tcp' = [tcp EXCEPT ![m] = "unplugged"]
  /\ \E w \in create_failed(Worker(n)) : Sends(n, w)

(* The connection closes at this end.                                      *)
Disconnect(n, m) ==
  /\ MayDisconnect /\ Running(n) /\ m \in ToSet(bt[n].peers)
  /\ Sends(n, bt_peer_close(Worker(n), m))
  /\ UNCHANGED tcp

(* The listening socket or the parent closes the request: no more steps    *)
(* and no more connections.  Peers are left as they are.                   *)
bt_close(n) ==
  /\ MayDisconnect /\ Running(n) /\ ~ bt[n].closed
  /\ bt' = [bt EXCEPT ![n].closed = TRUE]
  /\ UNCHANGED <<peer, tcp, chan, busy>>

-----------------------------------------------------------------------------
(* bt_step() *)

Stepping(n, state) == Running(n) /\ ~ bt[n].closed /\ bt[n].state = state

Connecting(n) ==
  Stepping(n, "CONNECTING_TO_PEERS") /\ record_id(n) > 0 /\ ~ bt[n].connected

(* With one record, connecting to it is connecting to all.                 *)
connect(n) ==
  LET m == record_id(n)
      w == bt_create_peer(Worker(n), m, "CREATED")
  IN  /\ Connecting(n)
      /\ Sends(n, [w EXCEPT !.bt.peers = Append(@, m), !.bt.connected = TRUE,
                             !.bt.state = "SENDING_HANDSHAKE"])
      /\ tcp' = [tcp EXCEPT ![n] = "opening"]

(* bt_socket_open() closes the peer on failure, and then bt_step() closes  *)
(* it again: it is freed twice, after which anything may happen.           *)
connect_failed(n) ==
  LET m == record_id(n)
      w == bt_peer_close(bt_peer_close(bt_create_peer(Worker(n), m, "CREATED"), m), m)
  IN  /\ OpenMayFail /\ Connecting(n)
      /\ Sends(n, [w EXCEPT !.bt.corrupt = TRUE])
      /\ UNCHANGED tcp

(* bt_step() does not test what bt_create_peer() returns, and writes       *)
(* through the null pointer.                                               *)
connect_unmade(n) ==
  /\ PeerMayFail /\ Connecting(n)
  /\ \E w \in create_failed(Worker(n)) : Sends(n, [w EXCEPT !.bt.corrupt = TRUE])
  /\ UNCHANGED tcp

send_handshakes(n, open) ==
  LET shaken == {m \in open : peer[n][m].state = "CREATED"}
      w      == [Worker(n) EXCEPT
                   !.peer = [m \in Nodes |-> IF m \in shaken
                                             THEN [@[m] EXCEPT !.state = "HANDSHAKE_SENT"]
                                             ELSE @[m]],
                   !.sent = [m \in Nodes |-> IF m \in shaken
                                             THEN <<Message("HANDSHAKE", n)>> ELSE << >>]]
      all    == \A m \in ToSet(bt[n].peers) : w.peer[m].state = "HANDSHAKE_SENT"
  IN  /\ Stepping(n, "SENDING_HANDSHAKE")
      /\ Sends(n, [w EXCEPT !.bt.state = IF all THEN "DOWNLOADING" ELSE @])
      /\ UNCHANGED tcp

(* Middle, once it has two peers and has shaken hands with First.          *)
populate(n) ==
  LET w == [Worker(n) EXCEPT
              !.bt.rem_pieces = @ \o [k \in 1..BT_NUMOFPIECES |-> k - 1],
              !.bt.state = "SEEDING"]
  IN  /\ n = Middle /\ Stepping(n, "DOWNLOADING")
      /\ Len(bt[n].peers) = 2
      /\ \E m \in ToSet(bt[n].peers) : peer[n][m].id = n - 1 /\ Sends(n, bt_next_piece(w, m))
      /\ UNCHANGED tcp

(* Mutant: only a node in state SEEDING empties its queues.                *)
transmit_seeding(n, open) ==
  Stepping(n, "SEEDING") /\ Sends(n, xmit_all(Worker(n), open)) /\ UNCHANGED tcp

transmit(n, open) ==
  /\ Stepping(n, "SEEDING") \/ (n = First /\ Stepping(n, "DOWNLOADING"))
  /\ Sends(n, xmit_all(Worker(n), open))
  /\ UNCHANGED tcp

bt_step(n) ==
  \/ connect(n)
  \/ connect_failed(n)
  \/ connect_unmade(n)
  \/ \E open \in Windows(n) : send_handshakes(n, open) \/ transmit(n, open)
  \/ populate(n)

-----------------------------------------------------------------------------
(* bt_peer_socket_deliver() *)

(* While a handshake is awaited anything else is neither consumed nor      *)
(* refused: the loop over the buffer does not end.                         *)
rx_handshake(w, n, m, msg, open) ==
  LET shaken == [w EXCEPT !.peer[m].state = "HANDSHAKE_RCVD", !.peer[m].id = msg.arg]
      reply  == IF m \in open THEN tx(shaken, m, "HANDSHAKE", n) ELSE shaken
      keen   == tx(reply, m, "INTERESTED", 0)
  IN  IF msg.kind # "HANDSHAKE" THEN [w EXCEPT !.bt.hung = TRUE]
      ELSE IF w.peer[m].state = "HANDSHAKE_SENT"
           THEN tx(tx(shaken, m, "INTERESTED", 0), m, "KEEP_ALIVE", 0)
      ELSE IF n = Middle THEN [keen EXCEPT !.bt.state = "DOWNLOADING"] ELSE keen

(* Mutant: told of a piece it has asked for, the node asks again.          *)
rx_have_twice(w, m, index) ==
  IF w.peer[m].id > w.bt.id THEN w
  ELSE bt_next_piece(bt_next_piece([w EXCEPT !.bt.rem_pieces = @ \o <<index, index>>], m), m)

rx_have(w, m, index) ==
  IF w.peer[m].id > w.bt.id \/ index \in w.bt.bitmap THEN w
  ELSE bt_next_piece([w EXCEPT !.bt.rem_pieces = Append(@, index)], m)

(* Mutant: the next piece is asked for although the last has come.         *)
rx_piece_more(w, n, m, index) ==
  LET had == bt_tx_have_to_peers([w EXCEPT !.bt.bitmap = @ \cup {index}], index)
  IN  IF n = Middle THEN bt_next_piece(had, m)
      ELSE IF had.bt.bitmap = Pieces THEN [had EXCEPT !.bt.state = "SEEDING"] ELSE had

rx_piece(w, n, m, index) ==
  LET had == bt_tx_have_to_peers([w EXCEPT !.bt.bitmap = @ \cup {index}], index)
  IN  IF had.bt.bitmap = Pieces THEN [had EXCEPT !.bt.state = "SEEDING"]
      ELSE IF n = Middle THEN bt_next_piece(had, m) ELSE had

received(w, n, m, msg, open) ==
  CASE w.peer[m].state \in {"HANDSHAKE_SENT", "HANDSHAKE_EXPECTED"} ->
         rx_handshake(w, n, m, msg, open)
    [] OTHER ->
         CASE msg.kind = "HAVE"    -> rx_have(w, m, msg.arg)
           [] msg.kind = "REQUEST" -> bt_tx_piece(w, m, msg.arg, open)
           [] msg.kind = "PIECE"   -> rx_piece(w, n, m, msg.arg)
           [] OTHER                -> w

Deliverable(n, m) ==
  /\ Running(n) /\ m \in ToSet(bt[n].peers)
  /\ tcp[IF m < n THEN m ELSE n] = "open"
  /\ chan[m][n] # << >>

taken(m, n) == [chan EXCEPT ![m][n] = Tail(@)]

bt_peer_socket_deliver(n, m) ==
  /\ Deliverable(n, m)
  /\ \E open \in Windows(n) :
       LET w == received(Worker(n), n, m, Head(chan[m][n]), open)
       IN  /\ Finish(n, w)
           /\ chan' = [taken(m, n) EXCEPT ![n] = [x \in Nodes |-> @[x] \o w.sent[x]]]
  /\ UNCHANGED tcp

(* The piece asked for cannot be allocated: the request is gone.           *)
piece_refused(n, m) ==
  /\ PieceMayFail /\ Deliverable(n, m)
  /\ Head(chan[m][n]).kind = "REQUEST" /\ peer[n][m].state = "HANDSHAKE_RCVD"
  /\ chan' = taken(m, n)
  /\ UNCHANGED <<bt, peer, tcp, busy>>

-----------------------------------------------------------------------------
(* Starting nodes, and the part of TCP that matters here *)

(* Settled: the last node is started first, and the others once the next   *)
(* one has sent its handshakes.                                            *)
settled(n) ==
  \A m \in (n + 1)..Last_ : bt[m].started /\ (m = Last_ \/ bt[m].state = "DOWNLOADING")

bt_open(n) ==
  /\ ~ bt[n].started
  /\ Settled => settled(n)
  /\ bt' = [bt EXCEPT ![n].started = TRUE]
  /\ UNCHANGED <<peer, tcp, chan, busy>>

(* The opener of a connection sees it established first.                   *)
established(n) ==
  /\ tcp[n] = "opening" /\ Running(n) /\ Running(n + 1)
  /\ tcp' = [tcp EXCEPT ![n] = "established"]
  /\ UNCHANGED <<bt, peer, chan, busy>>

(* What arrives on a connection without a peer is acknowledged and freed.  *)
discarded(n, m) ==
  /\ m = n - 1 /\ tcp[m] = "unplugged" /\ Running(n) /\ chan[m][n] # << >>
  /\ chan' = taken(m, n)
  /\ UNCHANGED <<bt, peer, tcp, busy>>

(* Everything sent has been delivered, and its acknowledgement arrives.    *)
acknowledged(n, m) ==
  /\ busy[n][m] /\ chan[n][m] = << >>
  /\ busy' = [busy EXCEPT ![n][m] = FALSE]
  /\ UNCHANGED <<bt, peer, tcp, chan>>

-----------------------------------------------------------------------------
Init ==
  /\ bt = [n \in Nodes |->
             [id |-> n, started |-> FALSE, closed |-> FALSE, hung |-> FALSE, corrupt |-> FALSE, stray |-> FALSE,
              state |-> "CONNECTING_TO_PEERS", connected |-> FALSE, peers |-> << >>,
              refs |-> 0, leaked |-> 0, bitmap |-> {}, rem_pieces |-> << >>,
              pieces_left |-> BT_NUMOFPIECES]]
  /\ peer = [n \in Nodes |-> [m \in Nodes |-> NoPeer]]
  /\ tcp = [n \in Nodes |-> "closed"]
  /\ chan = [n \in Nodes |-> [m \in Nodes |-> << >>]]
  /\ busy = [n \in Nodes |-> [m \in Nodes |-> FALSE]]

Next ==
  \E n \in Nodes :
    \/ bt_open(n) \/ established(n) \/ bt_step(n) \/ bt_close(n)
    \/ \E m \in Nodes : \/ bt_xfer_open_child(n, m)
                        \/ child_failed(n, m)
                        \/ discarded(n, m)
                        \/ bt_peer_socket_deliver(n, m)
                        \/ piece_refused(n, m)
                        \/ acknowledged(n, m)
                        \/ Disconnect(n, m)

Spec == Init /\ [][Next]_vars

(* Every node is started, TCP comes up and delivers, the process of each   *)
(* node keeps running, and a window does not stay closed for ever.         *)
FairSpec ==
  /\ Spec
  /\ \A n \in Nodes :
       /\ WF_vars(bt_open(n)) /\ WF_vars(established(n))
       /\ WF_vars(connect(n)) /\ WF_vars(populate(n))
       /\ WF_vars(send_handshakes(n, windows(n))) /\ WF_vars(transmit(n, windows(n)))
       /\ \A m \in Nodes : /\ WF_vars(bt_xfer_open_child(n, m))
                           /\ WF_vars(bt_peer_socket_deliver(n, m))
                           /\ WF_vars(acknowledged(n, m))

-----------------------------------------------------------------------------
(* Properties *)

(* How often a message about a piece is on its way from one node.          *)
inflight(n, m, kind, i) == Cardinality({k \in DOMAIN chan[n][m] : chan[n][m][k] = Message(kind, i)})

queued(s, i) == Cardinality({k \in DOMAIN s : s[k] = i})

(* Each piece is in one place at a time on its way to a node: still listed *)
(* in rem_pieces, asked for, queued by the provider, on the wire or in the *)
(* bitmap.  bt_next_piece(), the REQUEST and PIECE handlers and the queue  *)
(* of bt_peer_xmit() neither lose nor repeat one while connections last.   *)
EachPieceOnce ==
  \A n \in {Middle, Last_}, i \in Pieces :
    LET p == n - 1
    IN  queued(bt[n].rem_pieces, i) + inflight(n, p, "REQUEST", i) + queued(peer[p][n].queue, i)
          + inflight(p, n, "PIECE", i) + (IF i \in bt[n].bitmap THEN 1 ELSE 0)
        = IF n = Middle THEN (IF bt[n].state = "SEEDING" THEN 1 ELSE 0)
          ELSE IF i \in bt[p].bitmap /\ inflight(p, n, "HAVE", i) = 0 THEN 1 ELSE 0

(* bt_next_piece() is never called with an empty list, whatever the order  *)
(* in which HAVE and PIECE messages arrive.                                *)
NextPieceExists == \A n \in Nodes : ~ bt[n].stray

(* Of the references that bt_create_peer() takes and bt_peer_close()       *)
(* drops, one is left for each peer of the list and one for each peer      *)
(* given up for want of a bitmap (bittorrent.c:684), which nothing drops   *)
(* again: a request that has met that failure is never freed.  It holds    *)
(* until a peer is closed twice or a null pointer is written through.      *)
PeerReferences ==
  \A n \in Nodes :
    bt[n].corrupt \/ bt[n].refs = Len(bt[n].peers) + bt[n].leaked

(* Nodes that follow the first get every piece when they are started in    *)
(* order and no connection is lost.                                        *)
EveryNodeComplete == <>(bt[Middle].bitmap = Pieces /\ bt[Last_].bitmap = Pieces)

=============================================================================
