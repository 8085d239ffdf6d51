-------------------------------- MODULE Http ---------------------------------
(* An HTTP request (net/tcp/httpcore.c): its socket leads to a named socket or a
   TCP connection, its data transfer interface to the downloader or to a block
   device's user, and its partial transfer interface to a block command.  What
   a server sends is a sequence of tokens, one for each line and for each byte of
   data; a line the client cannot parse is a token of a kind it does not know.                                                                    *)
EXTENDS Naming

\* world.http: the state of each request.
NewHttp(uri) ==
    [uri |-> uri, rx_state |-> "RESPONSE", flags |-> {"TX_PENDING"}, code |-> 0,
     rx_len |-> 0, remaining |-> 0, chunked |-> FALSE, chunk_remaining |-> 0,
     rx_buffer |-> FALSE, partial_start |-> 0, partial_len |-> 0]

http_close(w, h, rc) ==
    Do(process_del([w EXCEPT !.http[h].rx_state = "DEAD",
                             !.http[h].flags = @ \ {"CLIENT_KEEPALIVE"}], h),
       << <<"intf_shutdown", <<h, "socket">>, rc>>, <<"intf_shutdown", <<h, "partial">>, rc>>,
          <<"intf_shutdown", <<h, "xfer">>, rc>> >>)

http_socket_open(w, h) == xfer_open_named_socket(w, <<h, "socket">>, w.http[h].uri)

http_open(w, i, uri) ==
    LET h == New(w, "H")
    IN  Do(w, << <<"zalloc", h, {}>>, <<"http_made", h, i, uri>> >>)
http_made(w, h, i, uri) ==
    IF Failed(w) THEN w
    ELSE Do(process_add([w EXCEPT !.http[h] = NewHttp(uri)], h),
            << <<"http_socket_open", h>>, <<"http_opened", h, i>> >>)
http_opened(w, h, i) ==
    IF Failed(w) THEN Do(w, << <<"http_close", h, ERR>>, <<"ref_put", h>>, <<"return", ERR>> >>)
    ELSE attach(w, <<h, "xfer">>, i)

(***************************************************************************)
(* The request is sent.                                                    *)
(***************************************************************************)
Token(k, v) == [k |-> k, v |-> v]
DataTokens(bytes) == [n \in DOMAIN bytes |-> Token("data", bytes[n])]

\* The password goes along under the first scheme the server has asked for.
http_auth(q) == IF "Basic" \in q.flags THEN "Basic"
                ELSE IF "Digest" \in q.flags THEN "Digest" ELSE "none"

\* What a server answers (external).  A page that wants a password answers with
\* its prompt until it is given one it accepts; a HEAD request gets the header
\* alone, a request for a range exactly that range.
\* A page that has moved says so whatever is asked.
Reply(q, head) ==
    LET p == site.pages[q.uri]
        known == p.prompt = << >> \/ http_auth(q) \in p.accepts
        part == q.partial_len # 0 /\ ~p.moved
        header == IF ~known THEN p.prompt
                  ELSE IF head \/ ~part THEN p.header
                  ELSE <<Token("status", 206)>> \o p.ranged \o <<Token("length", q.partial_len)>>
        body == IF head THEN << >>
                ELSE IF ~known THEN p.apology
                ELSE IF ~part THEN p.body
                ELSE DataTokens(SubSeq(p.file, q.partial_start + 1,
                                       q.partial_start + q.partial_len))
    IN  header \o <<Token("blank", 0)>> \o body

xfer_window(w, i) ==
    LET d == w.dest[i]
        o == Owner(d)
    IN  w.on[d] => CASE o[1] = "T" -> w.tcp[o].state = "OPEN"
                     [] o[1] = "H" -> w.http[o].rx_state = "IDLE"
                     [] o[1] = "D" -> TRUE
                     [] OTHER -> FALSE        \* named_window, int13_block_window

http_step(w, h) ==
    LET q == w.http[h]
        d == w.dest[<<h, "socket">>]
        head == ~xfer_window(w, <<h, "xfer">>) /\ ~q.rx_buffer
        a == [w EXCEPT !.fuel = @ - 1, !.http[h].flags =
                  IF head THEN @ \cup {"HEAD_ONLY", "CLIENT_KEEPALIVE"} ELSE @]
        b == [a EXCEPT !.http[h].flags = @ \ {"TX_PENDING"}]
    IN  CASE "TX_PENDING" \notin q.flags -> w
          [] ~xfer_window(w, <<h, "socket">>) -> w
          [] w.fuel = 0 -> http_close(a, h, ERR)
          [] ~w.on[d] -> http_close(b, h, ERR)
          [] OTHER -> [b EXCEPT !.tcp[Owner(d)].rx =
                          @ \o Reply(q, "HEAD_ONLY" \in b.http[h].flags)]

\* Only an HTTP request's socket handles xfer_window_changed().
xfer_window_changed(w, d) ==
    IF w.on[d] /\ d[2] = "socket" THEN http_step(w, Owner(d)) ELSE w

http_partial_read(w, h, lba, count) ==
    IF w.http[h].rx_state # "IDLE" THEN Fail(w)
    ELSE Succeed(intf_plug_plug(process_add([w EXCEPT
        !.http[h].rx_buffer = count # 0, !.http[h].partial_start = lba,
        !.http[h].partial_len = count, !.http[h].rx_state = "RESPONSE",
        !.http[h].flags = {"TX_PENDING", "CLIENT_KEEPALIVE"}
                          \cup (IF count = 0 THEN {"HEAD_ONLY"} ELSE {})], h),
        <<h, "partial">>, command_block))

(***************************************************************************)
(* The response is received.                                               *)
(***************************************************************************)
\* Mutants: what is still expected is not looked at; the position is kept.
http_done_short(w, h) ==
    LET q == w.http[h]
    IN  IF q.rx_state \in {"RESPONSE", "HEADER", "CHUNK_LEN"} \/ q.chunked
        THEN http_close(w, h, ERR)
        ELSE Do([w EXCEPT !.http[h].rx_state = "IDLE", !.http[h].rx_len = 0],
                (IF "TRY_AGAIN" \in q.flags THEN << >>
                 ELSE << <<"intf_restart", <<h, "partial">>, OK>> >>)
                \o << <<"http_keep", h>> >>)
http_done_unreset(w, h) ==
    LET q == w.http[h]
    IN  IF \/ q.rx_state \in {"RESPONSE", "HEADER", "CHUNK_LEN"} \/ q.chunked
           \/ q.remaining # 0
        THEN http_close(w, h, ERR)
        ELSE Do([w EXCEPT !.http[h].rx_state = "IDLE"],
                (IF "TRY_AGAIN" \in q.flags THEN << >>
                 ELSE << <<"intf_restart", <<h, "partial">>, OK>> >>)
                \o << <<"http_keep", h>> >>)

\* The response is complete: the request is idle, closed, or sent once more.
http_done(w, h) ==
    LET q == w.http[h]
    IN  IF \/ q.rx_state \in {"RESPONSE", "HEADER", "CHUNK_LEN"} \/ q.chunked
           \/ q.remaining # 0
        THEN http_close(w, h, ERR)
        ELSE Do([w EXCEPT !.http[h].rx_state = "IDLE", !.http[h].rx_len = 0],
                (IF "TRY_AGAIN" \in q.flags THEN << >>
                 ELSE << <<"intf_restart", <<h, "partial">>, OK>> >>)
                \o << <<"http_keep", h>> >>)
http_keep(w, h) ==
    LET flags == w.http[h].flags
    IN  IF flags \cap {"CLIENT_KEEPALIVE", "TRY_AGAIN"} = {} THEN http_close(w, h, OK)
        ELSE IF "SERVER_KEEPALIVE" \in flags THEN Do(Succeed(w), << <<"http_kept", h>> >>)
        ELSE Do(w, << <<"intf_restart", <<h, "socket">>, OK>>, <<"http_socket_open", h>>,
                      <<"http_kept", h>> >>)
http_kept(w, h) ==
    LET a == [w EXCEPT !.http[h].flags = @ \ {"SERVER_KEEPALIVE"}]
    IN  IF Failed(w) THEN http_close(w, h, ERR)
        ELSE IF "TRY_AGAIN" \notin a.http[h].flags THEN a
        ELSE process_add([a EXCEPT !.http[h].flags = (@ \ {"TRY_AGAIN"}) \cup {"TX_PENDING"},
                                   !.http[h].rx_state = "RESPONSE"], h)

\* Two seeks tell the parent the size of the file, then where its data starts.
\* Each needs a buffer; the second takes the space the first gave back.
Seeks(w, h, size, start) ==
    IF w.fuel = 0 THEN << >>
    ELSE << <<"xfer_deliver", h, TRUE, size, << >> >>, <<"xfer_deliver", h, TRUE, start, << >> >> >>

http_rx_response(w, h, tok) ==
    IF tok.k # "status" THEN Fail(w)
    ELSE Succeed([w EXCEPT !.http[h].code = tok.v, !.http[h].rx_state =
                IF "HEAD_ONLY" \in w.http[h].flags THEN "TRAILER" ELSE "HEADER"])

\* Memory runs out in a redirection only at lossy sites: the error would reach
\* nobody, as for a location that cannot be opened.
http_rx_location(w, h, uri) ==
    xfer_redirect(IF site.lossy THEN w ELSE [w EXCEPT !.fuel = -1],
                  <<h, "xfer">>, Uri(uri))

http_rx_content_length(w, h, len) ==
    LET q == w.http[h]
        a == [w EXCEPT !.http[h].remaining = IF "HEAD_ONLY" \in q.flags THEN @ ELSE len]
    IN  IF q.remaining \notin {0, len} THEN Fail(w)
        ELSE IF "TRY_AGAIN" \in q.flags THEN Succeed(a)
        ELSE Do(a, Seeks(w, h, a.http[h].remaining, 0) \o << <<"block_capacity", h, len>> >>)
block_capacity(w, h, len) ==
    IF "HEAD_ONLY" \in w.http[h].flags /\ w.dest[<<h, "partial">>] = command_block
    THEN Succeed([w EXCEPT !.capacity = len]) ELSE Succeed(w)

http_rx_basic_auth(w, h) ==
    Succeed([w EXCEPT !.http[h].flags = @ \cup {"TRY_AGAIN", "Basic"}])

\* The realm and the nonce are copied.
http_rx_digest_auth(w, h, complete) ==
    IF ~complete \/ w.fuel \in {0, 1} THEN Fail(w)
    ELSE Succeed([w EXCEPT !.fuel = @ - 2, !.http[h].flags = @ \cup {"TRY_AGAIN", "Digest"}])

http_rx_www_authenticate_again(w, h, v) ==    \* mutant: a refused password is retried
    CASE w.http[h].code # 401 \/ ~site.pages[w.http[h].uri].user -> Succeed(w)
      [] v.scheme = "Basic" -> http_rx_basic_auth(w, h)
      [] OTHER -> http_rx_digest_auth(w, h, v.complete)

\* The request is sent again with a password, once for every scheme that the
\* server names and the client knows.
http_rx_www_authenticate(w, h, v) ==
    LET q == w.http[h]
    IN  CASE v.scheme = "none" -> Fail(w)
          [] q.code # 401 \/ v.scheme \in q.flags \/ ~site.pages[q.uri].user -> Succeed(w)
          [] v.scheme = "Basic" -> http_rx_basic_auth(w, h)
          [] v.scheme = "Digest" -> http_rx_digest_auth(w, h, v.complete)
          [] OTHER -> Succeed(w)

http_rx_transfer_encoding(w, h) == Succeed([w EXCEPT !.http[h].chunked = TRUE])

http_rx_connection(w, h) ==
    Succeed([w EXCEPT !.http[h].flags = @ \cup {"SERVER_KEEPALIVE"}])

http_response_to_rc(code) == IF code \in {200, 206, 301, 302, 303} THEN OK ELSE ERR

\* The empty line that ends a header or a trailer.
http_rx_end(w, h) ==
    LET q == w.http[h]
        again == "TRY_AGAIN" \in q.flags
    IN  IF ~again /\ http_response_to_rc(q.code) # OK THEN Fail(w)
        ELSE IF q.rx_state = "TRAILER" THEN Do(w, << <<"http_done", h>>, <<"return", OK>> >>)
        ELSE Succeed([w EXCEPT
                !.http[h].rx_state = IF q.chunked THEN "CHUNK_LEN" ELSE "DATA",
                !.http[h].remaining = IF q.partial_len # 0 /\ ~again THEN q.partial_len
                                      ELSE @])

http_rx_header(w, h, tok) ==
    CASE tok.k = "blank"     -> http_rx_end(w, h)
      [] tok.k = "location"  -> http_rx_location(w, h, tok.v)
      [] tok.k = "length"    -> http_rx_content_length(w, h, tok.v)
      [] tok.k = "chunked"   -> http_rx_transfer_encoding(w, h)
      [] tok.k = "keepalive" -> http_rx_connection(w, h)
      [] tok.k = "auth"      -> http_rx_www_authenticate(w, h, tok.v)
      [] tok.k = "other"     -> Succeed(w)
      [] OTHER               -> Fail(w)

http_rx_chunk_len(w, h, tok) ==
    LET q == w.http[h]
        a == [w EXCEPT !.http[h].chunk_remaining = tok.v]
        seeks == IF "TRY_AGAIN" \in q.flags THEN << >>
                 ELSE Seeks(w, h, q.rx_len + tok.v, q.rx_len)
    IN  CASE tok.k = "blank" -> Succeed(w)
          [] tok.k # "chunk" -> Fail(w)
          [] tok.v = 0 -> Succeed([a EXCEPT !.http[h].chunked = FALSE,
                                            !.http[h].rx_state = "TRAILER"])
          [] OTHER -> Do(a, seeks \o << <<"start_of_chunk", h>> >>)
start_of_chunk(w, h) == Succeed([Use(w, h) EXCEPT !.http[h].rx_state = "DATA"])

\* Data goes to the buffer of a partial read or to the parent, as far as the
\* current chunk and the expected length reach.
http_rx_data(w, h, toks) ==
    LET q == w.http[h]
        limits == {Len(toks)} \cup ({q.chunk_remaining, q.remaining} \ {0})
        len == CHOOSE n \in limits : \A m \in limits : n <= m
        data == [n \in 1..len |-> toks[n].v]
        copied == [n \in DOMAIN w.buffer |->
                      IF n \in q.rx_len + 1 .. q.rx_len + len THEN data[n - q.rx_len]
                      ELSE w.buffer[n]]
        got == << <<"http_rx_got", h, toks, len>> >>
    IN  CASE "TRY_AGAIN" \in q.flags -> Do(Succeed(w), got)
          [] q.rx_buffer -> Do(Succeed([w EXCEPT !.buffer = copied]), got)
          [] OTHER -> IF len < Len(toks) /\ w.fuel = 0 THEN Do(Fail(w), got)
                      ELSE Do(w, << <<"xfer_deliver", h, FALSE, 0, data>> >> \o got)
http_rx_got(w, h, toks, len) ==
    LET q == w.http[h]
        chunk == IF q.chunk_remaining = 0 THEN 0 ELSE q.chunk_remaining - len
        left == IF q.remaining = 0 THEN 0 ELSE q.remaining - len
        endchunk == q.chunk_remaining # 0 /\ chunk = 0
        finished == q.remaining # 0 /\ left = 0 /\ ~endchunk
    IN  IF Failed(w) THEN http_close(w, h, ERR)
        ELSE Do([Use(w, h) EXCEPT !.http[h].rx_len = @ + len,
                                  !.http[h].chunk_remaining = chunk,
                                  !.http[h].remaining = left,
                                  !.http[h].rx_state = IF endchunk THEN "CHUNK_LEN" ELSE @],
                (IF finished THEN << <<"http_done", h>> >> ELSE << >>)
                \o << <<"http_rx", h, SubSeq(toks, len + 1, Len(toks))>> >>)

\* A line has been received; buffering it may fail.
http_rx_line(w, h, tok) ==
    LET a == [w EXCEPT !.fuel = @ - 1]
        state == w.http[h].rx_state
    IN  CASE w.fuel = 0           -> Fail(w)
          [] state = "RESPONSE"   -> http_rx_response(a, h, tok)
          [] state = "CHUNK_LEN"  -> http_rx_chunk_len(a, h, tok)
          [] OTHER                -> http_rx_header(a, h, tok)

\* http_socket_deliver(), from the point where toks remain to be processed.
http_rx(w, h, toks) ==
    LET state == w.http[h].rx_state
    IN  CASE toks = << >> \/ state = "DEAD" -> w
          [] state = "IDLE" -> http_close(w, h, ERR)
          [] state = "DATA" -> http_rx_data(w, h, toks)
          [] OTHER -> Do(w, << <<"http_rx_line", h, Head(toks)>>, <<"http_rx_lined", h, Tail(toks)>> >>)
http_rx_lined(w, h, toks) ==
    IF Failed(w) THEN http_close(w, h, ERR) ELSE Do(w, << <<"http_rx", h, toks>> >>)

http_socket_close(w, h, rc) ==
    IF rc = OK THEN http_done(w, h) ELSE http_close(w, h, rc)

=============================================================================
