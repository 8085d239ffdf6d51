----------------------------- MODULE BtFraming -----------------------------
(***************************************************************************)
(* How bt_peer_socket_deliver() (net/tcp/bittorrent.c) finds messages in   *)
(* the byte stream that TCP delivers.  The stream holds one of each        *)
(* possible sequences of messages; TCP cuts it into buffers; an iteration  *)
(* of the loop over a buffer is a step.  A byte is its position in the     *)
(* stream.  Lengths are scaled down: what matters is that the prefix has   *)
(* several bytes, that HAVE, REQUEST and PIECE have a body beyond their id *)
(* and that PIECE is the longest.                                          *)
(*                                                                         *)
(* What is done with a message is the subject of BtSwarm; here it is only  *)
(* recorded which bytes were taken for it.                                 *)
(***************************************************************************)
EXTENDS Integers, Sequences, FiniteSets, SequencesExt, FiniteSetsExt

CONSTANTS
  MaxMessages,    \* messages after the handshake
  BT_PIECE_SIZE   \* data bytes of a piece

ASSUME FramingAssumption ==
  MaxMessages \in Nat /\ BT_PIECE_SIZE \in Nat \ {0}

Kinds == {"KEEP_ALIVE", "INTERESTED", "HAVE", "REQUEST", "PIECE"}

BT_PREFIXLEN == 2
BT_HANDSHAKELEN == 3

(* The value of the length prefix: the id, the fields and the data.        *)
rx_len_of(kind) ==
  CASE kind = "KEEP_ALIVE" -> 0
    [] kind = "INTERESTED" -> 1
    [] kind = "HAVE"       -> 1 + 1
    [] kind = "REQUEST"    -> 1 + 3
    [] kind = "PIECE"      -> 1 + 2 + BT_PIECE_SIZE

size(kind) == IF kind = "HANDSHAKE" THEN BT_HANDSHAKELEN ELSE BT_PREFIXLEN + rx_len_of(kind)

VARIABLES
  stream,     \* the kinds of the messages sent
  pos,        \* number of bytes delivered so far
  clean,      \* no buffer has ended within the prefix of a message or before its id
  iobuf,      \* the bytes left in the buffer being handled
  handshook,  \* peer->state is past the handshake
  rx_len, rx_id, remaining, rx_buffer,  \* fields of bt_peer
  taken       \* for each message handled, its kind and the bytes taken for it

vars == <<stream, pos, clean, iobuf, handshook, rx_len, rx_id, remaining, rx_buffer, taken>>

-----------------------------------------------------------------------------
(* The stream *)

start(k) == 1 + FoldLeft(LAMBDA n, kind : n + size(kind), 0, SubSeq(stream, 1, k - 1))

length == start(Len(stream) + 1) - 1

bytes(from, to) == [k \in 1..(to - from + 1) |-> from + k - 1]

(* The bytes that follow the prefix of a message.                          *)
body(k) ==
  IF stream[k] = "HANDSHAKE" THEN bytes(start(k), start(k + 1) - 1)
  ELSE bytes(start(k) + BT_PREFIXLEN, start(k + 1) - 1)

(* A buffer may end with a message or anywhere within a PIECE.             *)
MayCut(p) ==
  \E k \in 1..Len(stream) :
    p = start(k + 1) - 1 \/ (stream[k] = "PIECE" /\ p \in start(k)..(start(k + 1) - 1))

(* It ends with a message or after the id of one.                          *)
CleanCut(p) == \A k \in 1..Len(stream) : p \notin start(k)..(start(k) + BT_PREFIXLEN - 1)
               \/ p = start(k + 1) - 1

-----------------------------------------------------------------------------
(* bt_peer_socket_deliver() *)

deliver ==
  /\ iobuf = << >> /\ pos < length
  /\ \E p \in (pos + 1)..length :
       /\ MayCut(p)
       /\ iobuf' = bytes(pos + 1, p) /\ pos' = p
       /\ clean' = (clean /\ CleanCut(p))
  /\ UNCHANGED <<stream, handshook, rx_len, rx_id, remaining, rx_buffer, taken>>

(* The first bytes of a buffer, those that are there, and the rest.        *)
first(buf, n) == SubSeq(buf, 1, Min({n, Len(buf)}))

pulled(buf, n) == SubSeq(buf, n + 1, Len(buf))

rx_handshake ==
  /\ iobuf # << >> /\ ~ handshook
  /\ handshook' = TRUE
  /\ taken' = Append(taken, [kind |-> "HANDSHAKE", bytes |-> first(iobuf, BT_HANDSHAKELEN)])
  /\ iobuf' = pulled(iobuf, BT_HANDSHAKELEN)
  /\ UNCHANGED <<stream, pos, clean, rx_len, rx_id, remaining, rx_buffer>>

(* Mutant: bytes kept of a segmented message are dropped.                  *)
partial_dropped(id, len, rem, buf) ==
  /\ rem > Len(buf)
  /\ remaining' = rem - Len(buf) /\ rx_buffer' = rx_buffer
  /\ rx_id' = id /\ rx_len' = len /\ iobuf' = << >>
  /\ UNCHANGED taken

(* The message goes on in the next buffer.                                 *)
partial(id, len, rem, buf) ==
  /\ rem > Len(buf)
  /\ remaining' = rem - Len(buf) /\ rx_buffer' = rx_buffer \o buf
  /\ rx_id' = id /\ rx_len' = len /\ iobuf' = << >>
  /\ UNCHANGED taken

(* The message is complete.  A PIECE is put together in rx_buffer, which   *)
(* is then replaced; any other message is taken from the buffer as if it   *)
(* were all there.                                                         *)
complete(id, len, rem, buf) ==
  LET held == IF id = "PIECE" THEN rx_buffer \o first(buf, rem) ELSE first(buf, len)
  IN  /\ rem <= Len(buf)
      /\ taken' = Append(taken, [kind |-> id, bytes |-> held])
      /\ rx_buffer' = IF id = "PIECE" THEN << >> ELSE rx_buffer
      /\ iobuf' = pulled(buf, IF id = "PIECE" THEN rem ELSE len)
      /\ rx_len' = 0 /\ remaining' = 0 /\ rx_id' = "NONE"

(* The message whose prefix starts with this byte, if one does.            *)
prefixed(byte) == {k \in 2..Len(stream) : start(k) = byte}

(* A prefix that is not the start of a message would be read as some       *)
(* number; the stream is out of step by then and need not be followed.     *)
rx_prefix ==
  /\ handshook /\ rx_len = 0 /\ Len(iobuf) >= BT_PREFIXLEN
  /\ \E k \in prefixed(Head(iobuf)) :
       LET len == rx_len_of(stream[k])
           buf == pulled(iobuf, BT_PREFIXLEN)
       IN  \/ /\ len = 0
              /\ iobuf' = buf /\ rx_id' = "NONE"
              /\ taken' = Append(taken, [kind |-> "KEEP_ALIVE", bytes |-> << >>])
              /\ UNCHANGED <<rx_len, remaining, rx_buffer>>
           \/ /\ len > 0
              /\ \E id \in IF buf = << >> THEN Kinds ELSE {stream[k]} :
                   partial(id, len, len, buf) \/ complete(id, len, len, buf)
  /\ UNCHANGED <<stream, pos, clean, handshook>>

(* Too few bytes for a prefix: the handler returns, and they are gone.     *)
rx_short ==
  /\ handshook /\ rx_len = 0 /\ iobuf # << >> /\ Len(iobuf) < BT_PREFIXLEN
  /\ iobuf' = << >>
  /\ UNCHANGED <<stream, pos, clean, handshook, rx_len, rx_id, remaining, rx_buffer, taken>>

rx_more ==
  /\ handshook /\ rx_len > 0 /\ iobuf # << >>
  /\ partial(rx_id, rx_len, remaining, iobuf) \/ complete(rx_id, rx_len, remaining, iobuf)
  /\ UNCHANGED <<stream, pos, clean, handshook>>

-----------------------------------------------------------------------------
Init ==
  /\ \E n \in 0..MaxMessages : \E s \in [1..n -> Kinds] : stream = <<"HANDSHAKE">> \o s
  /\ pos = 0 /\ clean = TRUE /\ iobuf = << >> /\ handshook = FALSE
  /\ rx_len = 0 /\ rx_id = "NONE" /\ remaining = 0
  /\ rx_buffer = << >> /\ taken = << >>

Next == deliver \/ rx_handshake \/ rx_prefix \/ rx_short \/ rx_more

Spec == Init /\ [][Next]_vars

-----------------------------------------------------------------------------
(* Properties *)

(* The bytes of one message, in order and without a gap.                   *)
Contiguous(s) == \A k \in 1..(Len(s) - 1) : s[k + 1] = s[k] + 1

(* "only PIECE messages are segmented", and those are put together again   *)
(* as long as their prefix and id arrive together: the messages handled    *)
(* are those sent, in order, each with its own bytes; and once a buffer    *)
(* has been handled that ends with a message, all up to it have been       *)
(* handled and no field of the peer would be taken for the start of the    *)
(* next.                                                                   *)
MessagesExact ==
  clean =>
  /\ Len(taken) <= Len(stream)
  /\ \A k \in DOMAIN taken : taken[k] = [kind |-> stream[k], bytes |-> body(k)]
  /\ iobuf = << >> =>
       \A k \in 1..Len(stream) :
         pos = start(k + 1) - 1 => Len(taken) = k /\ rx_len = 0 /\ rx_buffer = << >>

=============================================================================
