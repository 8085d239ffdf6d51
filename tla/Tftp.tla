-------------------------------- MODULE Tftp --------------------------------
(***************************************************************************)
(* A TFTP, TFTM (RFC 2090 multicast) or MTFTP download and the servers it  *)
(* talks to.  A packet that was ever sent may be received at any later     *)
(* time, any number of times or never, so that no network is kept: a       *)
(* server session can deliver what it has sent so far.  Lengths and        *)
(* offsets are in units of which a block holds a few; unit k of the file   *)
(* holds the value k.                                                      *)
(***************************************************************************)
EXTENDS Integers, FiniteSets, FiniteSetsExt, Sequences, SequencesExt

CONSTANTS
  Modes,                  \* the openers tried: subset of DOMAIN Openers
  Lengths,                \* lengths of the file
  TFTP_DEFAULT_BLKSIZE,
  Blksizes,               \* block sizes a server may answer with
  MTFTP_MAX_TIMEOUTS,
  BlockMod,               \* 2^16, the number of block numbers on the wire
  MaxSessions             \* bound: server sessions

ASSUME TftpAssumption ==
  /\ Modes \subseteq {"tftp", "tftpsize", "tftm", "mtftp"}
  /\ Lengths \subseteq Nat \ {0}
  /\ Blksizes \cup {TFTP_DEFAULT_BLKSIZE} \subseteq Nat \ {0}
  /\ MTFTP_MAX_TIMEOUTS \in Nat /\ MaxSessions \in Nat
  /\ \A len \in Lengths, b \in Blksizes \cup {TFTP_DEFAULT_BLKSIZE} :
       len \div b + 2 < BlockMod

VARIABLES
  tftp,       \* the request, and what it has sent and delivered
  sessions,   \* the servers' sessions
  length      \* the length of the file

vars == <<tftp, sessions, length>>

-----------------------------------------------------------------------------
(* The block bitmap *)

NO_BITMAP == [length |-> 0, bits |-> {}]

(* New bits are clear.                                                     *)
bitmap_resize(b, new_length) == [b EXCEPT !.length = new_length]

bitmap_test(b, i) == i < b.length /\ i \in b.bits

(* Mutant: bits received beyond a gap are counted.                         *)
bitmap_first_gap_count(b) == Cardinality(b.bits)

bitmap_first_gap(b) == Min({i \in 0..b.length : ~bitmap_test(b, i)})

(* Without a bitmap the bit goes to memory nobody reads.                   *)
bitmap_set(b, i) == IF b.length = 0 THEN b ELSE [b EXCEPT !.bits = @ \cup {i}]

bitmap_full(b) == bitmap_first_gap(b) = b.length

-----------------------------------------------------------------------------
(* The request *)

Openers ==
  [tftp     |-> {"RRQ_SIZES"},
   tftpsize |-> {"RRQ_SIZES", "SIZEONLY"},
   tftm     |-> {"RRQ_SIZES", "RRQ_MULTICAST"},
   mtftp    |-> {"MTFTP_RECOVERY"}]

Active(t) == t.rc = "active"

(* Closing the interfaces also ends what they deliver; a second call finds *)
(* them unplugged.                                                         *)
tftp_done(t, rc) ==
  IF Active(t)
  THEN [t EXCEPT !.timer = "stopped", !.rc = rc, !.socket = "closed", !.mc_socket = FALSE]
  ELSE t

(* The server's name is resolved anew; until then nothing is sent.         *)
tftp_reopen(t, ok) ==
  LET u == [t EXCEPT !.flags = @ \ {"SEND_ACK"}, !.peer = 0,
                       !.socket = "resolving", !.rrqs = {}]
  IN  IF ok THEN u ELSE tftp_done(u, "error")

tftp_reopen_mc(t, ok) ==
  IF ok THEN [t EXCEPT !.mc_socket = TRUE] ELSE tftp_done(t, "error")

(* Mutant: the block that ends the file is not counted.                    *)
tftp_presize_short(t, filesize, ok) ==
  IF filesize <= t.filesize THEN t
  ELSE LET u == [t EXCEPT !.filesize = filesize]
       IN  IF ok THEN [u EXCEPT !.bitmap = bitmap_resize(@, Max({1, filesize \div t.blksize}))]
           ELSE tftp_done(u, "error")

tftp_presize(t, filesize, ok) ==
  IF filesize <= t.filesize THEN t
  ELSE LET u == [t EXCEPT !.filesize = filesize]
       IN  IF ok THEN [u EXCEPT !.bitmap = bitmap_resize(@, filesize \div t.blksize + 1)]
           ELSE tftp_done(u, "error")

(* What is sent is remembered, unless the socket does not take it.         *)
tftp_send_rrq(t) ==
  IF t.socket = "open"
  THEN [t EXCEPT !.rrqs = @ \cup {[port |-> t.port, flags |-> t.flags]}] ELSE t

tftp_send_ack(t) ==
  IF t.socket = "open"
  THEN [t EXCEPT !.acks = @ \cup {<<t.peer, bitmap_first_gap(t.bitmap) % BlockMod>>}]
  ELSE t

(* The window of the socket is zero while the name is being resolved.      *)
send_timer(t) ==
  [t EXCEPT !.timer = IF t.socket = "resolving" THEN "nodelay" ELSE "running"]

(* Mutant: the timer is started only along with a packet.                  *)
tftp_send_packet_idle(t) ==
  IF t.peer = 0 THEN tftp_send_rrq(send_timer(t))
  ELSE IF "SEND_ACK" \in t.flags THEN tftp_send_ack(send_timer(t))
  ELSE [t EXCEPT !.timer = "stopped"]

tftp_send_packet(t) ==
  IF t.peer = 0 THEN tftp_send_rrq(send_timer(t))
  ELSE IF "SEND_ACK" \in t.flags THEN tftp_send_ack(send_timer(t))
  ELSE send_timer(t)

(* MTFTP goes back to plain TFTP: the bitmap is discarded.                 *)
fall_back(t, ok) ==
  tftp_reopen([t EXCEPT !.flags = {"RRQ_SIZES"}, !.mc_socket = FALSE,
                        !.bitmap = NO_BITMAP, !.port = "tftp"], ok)

(* The recovery strategies of MTFTP, or the end of the retries.            *)
recover(t, fail, ok) ==
  IF "MTFTP_RECOVERY" \notin t.flags
  THEN IF fail THEN tftp_done(t, "error") ELSE t
  ELSE IF t.peer # 0 THEN tftp_reopen(t, ok)
  ELSE LET u == [t EXCEPT !.mtftp_timeouts = @ + 1]
       IN  IF u.mtftp_timeouts > MTFTP_MAX_TIMEOUTS THEN fall_back(u, ok) ELSE u

(* The retry timer has stopped when it calls.                              *)
tftp_timer_expired(t, fail, ok) ==
  LET u == recover([t EXCEPT !.timer = "stopped"], fail, ok)
  IN  IF Active(u) THEN tftp_send_packet(u) ELSE u

(* The options of an OACK, in its order: blksize, tsize, multicast.  A     *)
(* multicast option without an address leaves the socket as it is.         *)
process_options(t, p, ok) ==
  LET u == [t EXCEPT !.blksize = IF p.blksize = 0 THEN @ ELSE p.blksize,
                     !.tsize   = IF p.tsize = 0 THEN @ ELSE p.tsize,
                     !.flags   = IF p.mc = "slave" THEN @ \ {"SEND_ACK"} ELSE @]
  IN  IF p.mc # "none" /\ p.addr THEN tftp_reopen_mc(u, ok) ELSE u

tftp_rx_oack(t, p, ok, mem) ==
  LET u == process_options(t, p, ok)
      v == IF Active(u) /\ u.tsize # 0 THEN tftp_presize(u, u.tsize, mem) ELSE u
  IN  IF ~Active(v) THEN v
      ELSE IF "SIZEONLY" \in v.flags THEN tftp_done(v, "ok")
      ELSE tftp_send_packet(v)

(* The number of a block, from the number on the wire and the first gap.   *)
block_base(t) == ((bitmap_first_gap(t.bitmap) + 1) \div BlockMod) * BlockMod

(* p.data is the sequence of units in the packet.  A recipient that cannot *)
(* take them closes the transfer.                                          *)
tftp_rx_data(t, p, ok, mem) ==
  LET block  == block_base(t) + p.block - 1
      offset == block * t.blksize
      taken  == [t EXCEPT !.got = @ \cup {<<offset + i, p.data[i]>> : i \in DOMAIN p.data}]
      ready  == tftp_presize(taken, offset + Len(p.data), mem)
      marked == tftp_send_packet([ready EXCEPT !.bitmap = bitmap_set(@, block)])
  IN  IF \/ "SIZEONLY" \in t.flags
         \/ p.block = 0 /\ block_base(t) = 0
         \/ Len(p.data) > t.blksize
         \/ ~ok
      THEN tftp_done(t, "error")
      ELSE IF ~Active(ready) THEN ready
      ELSE IF bitmap_full(marked.bitmap) THEN tftp_done(marked, "ok")
      ELSE marked

(* The first response decides which session the client listens to.  A      *)
(* DATA packet or OACK that is too short, or has an option of no known     *)
(* form, ends the request as an ERROR does; the ERROR that a size-only     *)
(* request sends as it ends tells nobody who still matters.  A packet of   *)
(* any other kind, or an ERROR too short, changes nothing but the peer.    *)
tftp_rx(t, p, ok, mem) ==
  LET u == IF t.peer = 0 THEN [t EXCEPT !.peer = p.src] ELSE t
  IN  IF u.peer # p.src THEN t
      ELSE IF p.op = "OACK" THEN tftp_rx_oack(u, p, ok, mem)
      ELSE IF p.op = "DATA" THEN tftp_rx_data(u, p, ok, mem)
      ELSE IF p.op = "ERROR" THEN tftp_done(u, "error")
      ELSE u

(* A unicast packet makes the client acknowledge.                          *)
tftp_socket_deliver(t, p, ok, mem) ==
  tftp_rx([t EXCEPT !.flags = @ \cup {"SEND_ACK"}], p, ok, mem)

-----------------------------------------------------------------------------
(* The servers *)

block_size(s) == IF s.blksize = 0 THEN TFTP_DEFAULT_BLKSIZE ELSE s.blksize

(* A file always ends with a block that is not full.                       *)
Blocks(s) == length \div block_size(s) + 1

Data(s, k) ==
  LET before == (k - 1) * block_size(s)
  IN  [i \in 1..Min({block_size(s), length - before}) |-> before + i]

(* How a server may answer a request: options it was not asked for are not *)
(* acknowledged, and an MTFTP server knows none.  Without an OACK the      *)
(* first block is sent at once.                                            *)
Answers(r) ==
  LET sizes == r.port = "tftp" /\ "RRQ_SIZES" \in r.flags
  IN  {s \in [port : {r.port}, uni : {TRUE}, hi : {0, 1},
              blksize : IF sizes THEN {0} \cup Blksizes ELSE {0},
              tsize : IF sizes THEN BOOLEAN ELSE {FALSE},
              mc : IF r.port = "mtftp" THEN {"master", "slave"}
                   ELSE IF "RRQ_MULTICAST" \in r.flags THEN {"none", "master", "slave"}
                   ELSE {"none"}] :
         s.hi = 0 <=> s.port = "tftp" /\ (s.blksize # 0 \/ s.tsize \/ s.mc # "none")}

Oacks(i) ==
  LET s == sessions[i]
  IN  {[src |-> i, op |-> "OACK", blksize |-> s.blksize,
        tsize |-> IF s.tsize THEN length ELSE 0, mc |-> s.mc, addr |-> a] : a \in BOOLEAN}

Datas(i) ==
  {[src |-> i, op |-> "DATA", block |-> k % BlockMod, data |-> Data(sessions[i], k)]
     : k \in 1..sessions[i].hi}

(* Multicast transfers send their data to the group; an MTFTP server also  *)
(* speaks to the master client alone.                                      *)
UnicastPackets(i) ==
  LET s == sessions[i]
  IN  [src : {i}, op : {"ERROR", "STRANGE"}]
      \cup (IF s.port = "tftp" /\ (s.blksize # 0 \/ s.tsize \/ s.mc # "none")
            THEN Oacks(i) ELSE {})
      \cup (IF s.mc = "none" \/ (s.port = "mtftp" /\ s.mc = "master")
            THEN Datas(i) ELSE {})

-----------------------------------------------------------------------------
Request(mode) ==
  [flags |-> Openers[mode], peer |-> 0, port |-> IF mode = "mtftp" THEN "mtftp" ELSE "tftp",
   blksize |-> TFTP_DEFAULT_BLKSIZE, tsize |-> 0, filesize |-> 0, bitmap |-> NO_BITMAP,
   mtftp_timeouts |-> 0, socket |-> "resolving", mc_socket |-> mode = "mtftp",
   timer |-> "nodelay", rc |-> "active", got |-> {}, rrqs |-> {}, acks |-> {}]

(* An MTFTP transfer to other clients may be under way already.            *)
UnderWay == [port |-> "mtftp", uni |-> FALSE, hi |-> 1, blksize |-> 0, tsize |-> FALSE,
             mc |-> "slave"]

Init ==
  /\ \E mode \in Modes :
       /\ tftp = Request(mode)
       /\ sessions \in {<<>>} \cup (IF mode = "mtftp" THEN {<<UnderWay>>} ELSE {})
  /\ length \in Lengths

(* A timer that was started without delay never counts as failed.  A new   *)
(* socket has another port: what was sent to the old one is not received.  *)
Expire(fail, ok) ==
  /\ tftp.timer # "stopped"
  /\ fail => tftp.timer = "running"
  /\ tftp' = tftp_timer_expired(tftp, fail, ok)
  /\ sessions' = IF tftp'.socket = "resolving" /\ tftp.socket # "resolving"
                 THEN [i \in DOMAIN sessions |-> [sessions[i] EXCEPT !.uni = FALSE]]
                 ELSE sessions
  /\ UNCHANGED length

Receive(i, ok, mem) ==
  /\ tftp.socket = "open" /\ sessions[i].uni
  /\ \E p \in UnicastPackets(i) : tftp' = tftp_socket_deliver(tftp, p, ok, mem)
  /\ UNCHANGED <<sessions, length>>

ReceiveMulticast(i, ok, mem) ==
  /\ tftp.mc_socket /\ sessions[i].mc # "none"
  /\ \E p \in Datas(i) : tftp' = tftp_rx(tftp, p, ok, mem)
  /\ UNCHANGED <<sessions, length>>

(* Name resolution ends.  Its failure closes the socket from the far side, *)
(* of which the request is not told.                                       *)
Resolve(ok) ==
  /\ tftp.socket = "resolving"
  /\ tftp' = [tftp EXCEPT !.socket = IF ok THEN "open" ELSE "closed"]
  /\ UNCHANGED <<sessions, length>>

(* The recipient gives up.                                                 *)
Close ==
  /\ Active(tftp)
  /\ tftp' = tftp_done(tftp, "error")
  /\ UNCHANGED <<sessions, length>>

(* Every copy of a request makes a session of its own.                     *)
Accept(r) ==
  /\ Active(tftp) /\ Len(sessions) < MaxSessions
  /\ \E s \in Answers(r) : sessions' = Append(sessions, s)
  /\ UNCHANGED <<tftp, length>>

Advance(i, block) ==
  sessions' = [sessions EXCEPT ![i].hi = Max({@, Min({block + 1, Blocks(sessions[i])})})]

TakeAck(a) ==
  /\ Active(tftp)
  /\ \E block \in 0..sessions[a[1]].hi :
       block % BlockMod = a[2] /\ Advance(a[1], block)
  /\ UNCHANGED <<tftp, length>>

(* Another client is the master of a multicast transfer, and may leave it. *)
OtherMaster(i) ==
  /\ Active(tftp) /\ sessions[i].mc = "slave"
  /\ \/ Advance(i, sessions[i].hi)
     \/ sessions' = [sessions EXCEPT ![i].mc = "master"]
  /\ UNCHANGED <<tftp, length>>

Next ==
  \/ \E fail, ok \in BOOLEAN : Expire(fail, ok)
  \/ \E ok, mem \in BOOLEAN, i \in DOMAIN sessions :
       Receive(i, ok, mem) \/ ReceiveMulticast(i, ok, mem)
  \/ \E ok \in BOOLEAN : Resolve(ok)
  \/ Close
  \/ \E r \in tftp.rrqs : Accept(r)
  \/ \E a \in tftp.acks : TakeAck(a)
  \/ \E i \in DOMAIN sessions : OtherMaster(i)

Spec == Init /\ [][Next]_vars

-----------------------------------------------------------------------------
(* Properties *)

Has == {g[1] : g \in tftp.got}

(* Every unit is delivered where it belongs in the file, and a request     *)
(* that finishes without error has delivered all of it, or, if only the    *)
(* size was asked for, the size the server gave.  A request that lost its  *)
(* bitmap in the fallback from MTFTP, and kept its file size, is left out: *)
(* tftp_presize() then allocates none and the first block ends it.         *)
CompleteMeansWhole ==
  /\ \A g \in tftp.got : g[1] = g[2]
  /\ tftp.rc = "ok" =>
       IF "SIZEONLY" \in tftp.flags THEN tftp.tsize \in {0, length} /\ tftp.filesize = tftp.tsize
       ELSE tftp.bitmap.length > 0 => Has = 1..length

(* An ACK is sent only when every block up to the one it names has been    *)
(* delivered, whatever was received out of order before it: the server     *)
(* forgets those blocks.                                                   *)
AckTruthful ==
  \A a \in tftp.acks : 1..Min({length, a[2] * block_size(sessions[a[1]])}) \subseteq Has

(* As long as the request is neither complete nor failed its timer runs,   *)
(* so that it sends again, recovers or gives up; afterwards it does not.   *)
AlwaysRetrying == Active(tftp) <=> tftp.timer # "stopped"
=============================================================================
