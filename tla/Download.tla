------------------------------ MODULE Download -------------------------------
(* What an HTTP request is opened for: a download into an image, waited for as
   the foreground job (core/downloader.c, core/monojob.c), or an emulated INT 13
   drive that reads blocks (arch/i386/interface/pcbios/int13.c).  Together with
   the requests, named sockets, resolvers and connections below them they form
   the system: an action runs one whole handler, all the calls and callbacks it
   sets off included.

   The world has besides: rc, the job's status; image and pos, the downloader's
   buffer and position; block_rc, the drive's status; cmd, its current command;
   buffer and capacity, what the command has read.                            *)
EXTENDS Http

(***************************************************************************)
(* The foreground job and the downloader.                                  *)
(***************************************************************************)
monojob_close_plugged(w, rc) == [w EXCEPT !.rc = rc]    \* mutant: no intf_restart()
monojob_close(w, rc) == Do([w EXCEPT !.rc = rc], << <<"intf_restart", monojob, rc>> >>)

downloader_finished(w, rc) ==
    Do(w, << <<"intf_shutdown", <<D, "xfer">>, rc>>, <<"intf_shutdown", <<D, "job">>, rc>> >>)

\* create_downloader(), once it has an object and once that has been opened.
downloader_made(w) ==
    IF Failed(w) THEN [w EXCEPT !.rc = ERR]
    ELSE Do(w, << <<"xfer_vopen", <<D, "xfer">>, Uri(site.start)>>, <<"downloader_opened">> >>)
downloader_opened(w) ==
    IF Failed(w) THEN Do([w EXCEPT !.rc = ERR],
                         << <<"downloader_finished", ERR>>, <<"ref_put", D>> >>)
    ELSE attach([w EXCEPT !.rc = INPROGRESS], <<D, "job">>, monojob)

\* Data passed to the parent of the request; only the downloader takes any.
Undefined == "?"
downloader_xfer_deliver(w, absolute, offset, data) ==
    LET pos == (IF absolute THEN 0 ELSE w.pos) + offset
        max == pos + Len(data)
        grows == max > Len(w.image)
        image == [n \in 1 .. (IF grows THEN max ELSE Len(w.image)) |->
                     IF n \in pos + 1 .. max THEN data[n - pos]
                     ELSE IF n \in DOMAIN w.image THEN w.image[n] ELSE Undefined]
    IN  IF grows /\ w.fuel = 0
        THEN Do([w EXCEPT !.pos = pos], << <<"downloader_finished", ERR>>, <<"return", ERR>> >>)
        ELSE Succeed([w EXCEPT !.pos = max, !.image = image,
                               !.fuel = IF grows THEN @ - 1 ELSE @])

xfer_deliver(w, h, absolute, offset, data) ==
    LET d == w.dest[<<h, "xfer">>]
    IN  IF w.on[d] /\ Owner(d) = D
        THEN Do(ref_get(w, D), << <<"downloader_xfer_deliver", absolute, offset, data>>,
                                  <<"ref_put", D>> >>)
        ELSE Fail(w)

(***************************************************************************)
(* The INT 13 drive.                                                       *)
(***************************************************************************)
NoCommand == [phase |-> "idle", rc |-> OK, timer |-> FALSE, lba |-> 0, count |-> 0]

int13_block_close(w) ==
    Do([w EXCEPT !.block_rc = ERR], << <<"intf_restart", int13_block, ERR>> >>)

int13_command_close_deaf(w, rc) == Do(w, << <<"command_closed", rc>> >>)    \* mutant: no intf_restart()
int13_command_close(w, rc) ==
    Do(w, << <<"intf_restart", command_block, rc>>, <<"command_closed", rc>> >>)
command_closed(w, rc) == [w EXCEPT !.cmd.rc = rc, !.cmd.timer = FALSE]

int13_reopen_block ==
    << <<"intf_restart", int13_block, ERR>>, <<"xfer_vopen", int13_block, Uri(site.start)>>,
       <<"int13_reopened">> >>
int13_reopened(w) == [w EXCEPT !.block_rc = w.ret]

\* The rest of int13_command_start(), up to its wait.
int13_command_init(w, lba, count) ==
    [w EXCEPT !.cmd = IF w.block_rc # OK THEN [NoCommand EXCEPT !.rc = ERR]
                      ELSE [phase |-> "start", rc |-> INPROGRESS, timer |-> TRUE,
                            lba |-> lba, count |-> count]]

int13_command_stop(w, rc) == [w EXCEPT !.cmd.phase = "idle", !.cmd.timer = FALSE, !.cmd.rc = rc]

(***************************************************************************)
(* Calls.                                                                  *)
(***************************************************************************)
\* The destination's handler for intf_close() is called, unless it has none.
intf_close(w, i, rc) ==
    LET d == w.dest[i]
        o == Owner(d)
        handler == CASE d = monojob       -> <<"monojob_close", rc>>
                     [] d = int13_block   -> <<"int13_block_close">>
                     [] d = command_block -> <<"int13_command_close", rc>>
                     [] o[1] = "D"        -> <<"downloader_finished", rc>>
                     [] o[1] = "T"        -> <<"tcp_close", o, rc>>
                     [] o[1] = "N"        -> <<"named_close", o, rc>>
                     [] o[1] = "M"        -> <<"resmux_child_close", o, rc>>
                     [] o[1] = "R"        -> <<"dns_close", o, rc>>
                     [] d[2] = "socket"   -> <<"http_socket_close", o, rc>>
                     [] OTHER             -> <<"http_close", o, rc>>
    IN  IF w.on[d] THEN Do(ref_get(w, o), <<handler, <<"ref_put", o>> >>) ELSE w

\* One call from the stack, and all of them.
Call(w, c) ==
    CASE c[1] = "intf_close"                -> intf_close(w, c[2], c[3])
      [] c[1] = "intf_shutdown"             -> intf_shutdown(w, c[2], c[3])
      [] c[1] = "intf_restart"              -> intf_restart(w, c[2], c[3])
      [] c[1] = "intf_restored"             -> intf_restored(w, c[2], c[3])
      [] c[1] = "intf_plug_plug"            -> intf_plug_plug(w, c[2], c[3])
      [] c[1] = "intf_unplug"               -> intf_unplug(w, c[2])
      [] c[1] = "ref_put"                   -> ref_put(w, c[2])
      [] c[1] = "zalloc"                    -> zalloc(w, c[2], c[3])
      [] c[1] = "attach"                    -> attach(w, c[2], c[3])
      [] c[1] = "monojob_close"             -> monojob_close(w, c[2])
      [] c[1] = "downloader_finished"       -> downloader_finished(w, c[2])
      [] c[1] = "downloader_made"           -> downloader_made(w)
      [] c[1] = "downloader_opened"         -> downloader_opened(w)
      [] c[1] = "int13_block_close"         -> int13_block_close(w)
      [] c[1] = "int13_command_close"       -> int13_command_close(w, c[2])
      [] c[1] = "command_closed"            -> command_closed(w, c[2])
      [] c[1] = "int13_reopened"            -> int13_reopened(w)
      [] c[1] = "int13_command_init"        -> int13_command_init(w, c[2], c[3])
      [] c[1] = "dns_close"                 -> dns_close(w, c[2], c[3])
      [] c[1] = "named_close"               -> named_close(w, c[2], c[3])
      [] c[1] = "tcp_close"                 -> tcp_close(w, c[2], c[3])
      [] c[1] = "http_close"                -> http_close(w, c[2], c[3])
      [] c[1] = "http_socket_close"         -> http_socket_close(w, c[2], c[3])
      [] c[1] = "numeric_resolv"            -> numeric_resolv(w, c[2], c[3])
      [] c[1] = "numeric_made"              -> numeric_made(w, c[2], c[3], c[4])
      [] c[1] = "dns_resolv"                -> dns_resolv(w, c[2], c[3])
      [] c[1] = "dns_made"                  -> dns_made(w, c[2], c[3], c[4])
      [] c[1] = "resmux_try"                -> resmux_try(w, c[2])
      [] c[1] = "resmux_tried"              -> resmux_tried(w, c[2])
      [] c[1] = "resmux_child_close"        -> resmux_child_close(w, c[2], c[3])
      [] c[1] = "resmux_next"               -> resmux_next(w, c[2], c[3])
      [] c[1] = "resolv"                    -> resolv(w, c[2], c[3])
      [] c[1] = "resolv_made"               -> resolv_made(w, c[2], c[3], c[4])
      [] c[1] = "named_made"                -> named_made(w, c[2], c[3], c[4])
      [] c[1] = "resolv_done"               -> resolv_done(w, c[2])
      [] c[1] = "named_resolv_done"         -> named_resolv_done(w, c[2])
      [] c[1] = "named_redirected"          -> named_redirected(w, c[2])
      [] c[1] = "xfer_vopen"                -> xfer_vopen(w, c[2], c[3])
      [] c[1] = "xfer_redirect"             -> xfer_redirect(w, c[2], c[3])
      [] c[1] = "redirected"                -> redirected(w, c[2])
      [] c[1] = "xfer_window_changed"       -> xfer_window_changed(w, c[2])
      [] c[1] = "tcp_made"                  -> tcp_made(w, c[2], c[3])
      [] c[1] = "tcp_user"                  -> tcp_user(w, c[2], c[3])
      [] c[1] = "http_open"                 -> http_open(w, c[2], c[3])
      [] c[1] = "http_made"                 -> http_made(w, c[2], c[3], c[4])
      [] c[1] = "http_opened"               -> http_opened(w, c[2], c[3])
      [] c[1] = "http_socket_open"          -> http_socket_open(w, c[2])
      [] c[1] = "http_step"                 -> http_step(w, c[2])
      [] c[1] = "http_done"                 -> http_done(w, c[2])
      [] c[1] = "http_keep"                 -> http_keep(w, c[2])
      [] c[1] = "http_kept"                 -> http_kept(w, c[2])
      [] c[1] = "xfer_deliver"              -> xfer_deliver(w, c[2], c[3], c[4], c[5])
      [] c[1] = "downloader_xfer_deliver"   -> downloader_xfer_deliver(w, c[2], c[3], c[4])
      [] c[1] = "block_capacity"            -> block_capacity(w, c[2], c[3])
      [] c[1] = "start_of_chunk"            -> start_of_chunk(w, c[2])
      [] c[1] = "http_rx"                   -> http_rx(w, c[2], c[3])
      [] c[1] = "http_rx_line"              -> http_rx_line(w, c[2], c[3])
      [] c[1] = "http_rx_lined"             -> http_rx_lined(w, c[2], c[3])
      [] c[1] = "http_rx_got"               -> http_rx_got(w, c[2], c[3], c[4])
      [] c[1] = "return"                    -> [w EXCEPT !.ret = c[2]]

RECURSIVE Run(_)
Run(w) ==
    IF w.stack = << >> THEN w
    ELSE Run(Call([w EXCEPT !.stack = Tail(@)], Head(w.stack)))

(***************************************************************************)
(* Actions.  Each runs a handler to the end of all its calls; what has     *)
(* been freed is forgotten then, and so are the last return value and      *)
(* how many allocations were left.                                         *)
(***************************************************************************)
Settle(w) ==
    [w EXCEPT !.fuel = -1, !.ret = OK,
              !.http = [h \in DOMAIN @ |-> IF w.cnt[h] < 0 THEN NewHttp("none") ELSE @[h]],
              !.tcp = [t \in DOMAIN @ |-> IF w.cnt[t] < 0 THEN NewTcp ELSE @[t]],
              !.mux = [m \in DOMAIN @ |-> IF w.cnt[m] < 0 THEN NewMux ELSE @[m]],
              !.res = [r \in DOMAIN @ |-> IF w.cnt[r] < 0 THEN NewResolver ELSE @[r]],
              !.on = [i \in DOMAIN @ |-> IF Owner(i) \in Objs /\ w.cnt[Owner(i)] < 0
                                         THEN FALSE ELSE @[i]]]

Handle(w, calls) == Settle(Run(Do(w, calls)))

Init ==
    /\ site \in Sites
    /\ world = Settle([cnt |-> [o \in Objs |-> NotAllocated],
                dest |-> [i \in Intfs |-> null_intf],
                on |-> [i \in Intfs |-> i # null_intf],
                runq |-> << >>, stack |-> << >>, bad |-> FALSE, fuel |-> -1, ret |-> OK,
                http |-> [h \in Pool["H"] |-> NewHttp("none")],
                tcp |-> [t \in Pool["T"] |-> NewTcp],
                mux |-> [m \in Pool["M"] |-> NewMux],
                res |-> [r \in Pool["R"] |-> NewResolver],
                rc |-> "NONE", image |-> << >>, pos |-> 0,
                block_rc |-> ERR, cmd |-> NoCommand, buffer |-> << >>, capacity |-> 0])

Live(o) == world.cnt[o] > NotAllocated

\* Start of a download, up to the point where monojob_wait() first waits.
create_downloader ==
    /\ site.mode = "image"
    /\ world.rc = "NONE"
    /\ \E n \in site.fuel :
         world' = Handle([world EXCEPT !.fuel = n], << <<"zalloc", D, {}>>, <<"downloader_made">> >>)
    /\ UNCHANGED site

\* Ctrl-C while the job is waited for.
cancel ==
    /\ world.rc = INPROGRESS
    /\ world' = Handle(world, << <<"monojob_close", ERR>> >>)
    /\ UNCHANGED site

\* One step of the first process in the run queue; each runs once.
step ==
    /\ world.runq # << >>
    /\ \E n \in site.fuel :
         LET o == Head(world.runq)
         IN  world' = Handle(process_del(ref_get([world EXCEPT !.fuel = n], o), o),
                             IF o[1] = "H" THEN << <<"http_step", o>>, <<"ref_put", o>> >>
                             ELSE numeric_step(o, numeric_rc(o)))
    /\ UNCHANGED site

Asking(r) == Live(r) /\ world.res[r].kind = "dns"

\* A DNS request is answered, or fails; an alias is asked for in turn.
dns_done(r) ==
    /\ Asking(r)
    /\ \E n \in site.fuel, rc \in {OK, ERR} :
         world' = Handle([world EXCEPT !.fuel = n],
                         (IF rc = OK THEN << <<"resolv_done", <<r, "resolv">> >> >> ELSE << >>)
                         \o << <<"dns_close", r, rc>> >>)
    /\ UNCHANGED site

\* The TCP connection is established.
tcp_connected(t) ==
    /\ Live(t)
    /\ world.tcp[t].state = "SYN"
    /\ \E n \in site.fuel :
         world' = Handle([world EXCEPT !.fuel = n, !.tcp[t].state = "OPEN"],
                         << <<"tcp_user", t, <<"xfer_window_changed", world.dest[<<t, "xfer">>]>> >> >>)
    /\ UNCHANGED site

\* The connection delivers the next part of what the server sent, in
\* segments of any size.
tcp_deliver(t) ==
    /\ Live(t)
    /\ \E n \in site.fuel, len \in 1 .. Len(world.tcp[t].rx) :
         LET rx == world.tcp[t].rx
             h == Owner(world.dest[<<t, "xfer">>])
         IN  world' = Handle([world EXCEPT !.fuel = n, !.tcp[t].rx = SubSeq(rx, len + 1, Len(rx))],
                             << <<"tcp_user", t, <<"http_rx", h, SubSeq(rx, 1, len)>> >> >>)
    /\ UNCHANGED site

\* The server closes the connection, in mid-answer only at sites where
\* the end of the connection is not what ends a file.
tcp_closed(t) ==
    /\ Live(t)
    /\ world.tcp[t].state = "OPEN"
    /\ site.abrupt \/ world.tcp[t].rx = << >>
    /\ \E n \in site.fuel :
         world' = Handle([world EXCEPT !.fuel = n], << <<"tcp_close", t, OK>> >>)
    /\ UNCHANGED site

Connected(t) == Live(t) /\ world.tcp[t].state # "CLOSED"

\* The connection times out or is reset.
tcp_failed(t) ==
    /\ Connected(t)
    /\ world' = Handle(world, << <<"tcp_close", t, ERR>> >>)
    /\ UNCHANGED site

(***************************************************************************)
(* The INT 13 drive issues one command at a time; with no blocks to read,  *)
(* the command reads the capacity.                                         *)
(***************************************************************************)
int13_command_start(lba, count) ==
    /\ site.mode = "block"
    /\ world.cmd.phase = "idle"
    /\ \E n \in IF world.block_rc = OK THEN {-1} ELSE site.fuel :
         world' = Handle([world EXCEPT !.fuel = n, !.buffer = [m \in 1..count |-> Undefined]],
                         (IF world.block_rc = OK THEN << >> ELSE int13_reopen_block)
                         \o << <<"int13_command_init", lba, count>> >>)
    /\ UNCHANGED site

Issuable ==
    /\ world.cmd.phase = "start"
    /\ world.cmd.rc # INPROGRESS \/ xfer_window(world, int13_block)

\* The wait for the drive's window ends: the command is issued, unless it has
\* timed out or the device has gone.
int13_command_issue ==
    LET cmd == world.cmd
        d == world.dest[int13_block]
        issued == IF world.block_rc # OK \/ ~world.on[d] THEN Fail(world)
                  ELSE http_partial_read(world, Owner(d), cmd.lba, cmd.count)
    IN  /\ Issuable
        /\ world' = Settle(
              IF cmd.rc # INPROGRESS THEN int13_command_stop(world, cmd.rc)
              ELSE IF Failed(issued) THEN int13_command_stop(issued, ERR)
              ELSE [issued EXCEPT !.cmd.phase = "wait"])
        /\ UNCHANGED site

Finished == world.cmd.phase = "wait" /\ world.cmd.rc # INPROGRESS

int13_command_wait ==
    /\ Finished
    /\ world' = int13_command_stop(world, world.cmd.rc)
    /\ UNCHANGED site

int13_command_expired ==
    /\ world.cmd.timer
    /\ world' = Handle([world EXCEPT !.cmd.timer = FALSE], << <<"int13_command_close", ERR>> >>)
    /\ UNCHANGED site

int13_unhook ==
    /\ site.mode = "block"
    /\ world.cmd.phase = "idle"
    /\ world' = Handle([world EXCEPT !.cmd = [NoCommand EXCEPT !.phase = "gone"],
                                     !.buffer = << >>],
                       << <<"intf_shutdown", int13_block, OK>> >>)
    /\ UNCHANGED site

Next ==
    \/ create_downloader \/ cancel \/ step
    \/ \E r \in Pool["R"] : dns_done(r)
    \/ \E t \in Pool["T"] : tcp_connected(t) \/ tcp_deliver(t) \/ tcp_closed(t) \/ tcp_failed(t)
    \/ int13_command_start(0, 0)
    \/ \E lba \in 0 .. Len(site.file) : \E count \in 1 .. Len(site.file) - lba :
          int13_command_start(lba, count)
    \/ int13_command_issue \/ int13_command_wait \/ int13_command_expired \/ int13_unhook

\* Steps are taken while a job or a command is waited for, DNS requests and TCP
\* connections have timers of their own, and servers answer, then close.  Weak
\* fairness of four groups of actions, written out: infinitely often none of the
\* group can be taken, or infinitely often one is.
Fairness ==
    /\ []<>(world.runq = << >>) \/ []<><<step>>_vars
    /\ \/ []<>(\A r \in Pool["R"] : ~Asking(r))
       \/ []<><<\E r \in Pool["R"] : dns_done(r)>>_vars
    /\ \/ []<>(\A t \in Pool["T"] : ~Connected(t))
       \/ []<><<\E t \in Pool["T"] : tcp_connected(t) \/ tcp_deliver(t) \/ tcp_closed(t)>>_vars
    /\ \/ []<>~(Issuable \/ Finished \/ world.cmd.timer)
       \/ []<><<int13_command_issue \/ int13_command_wait \/ int13_command_expired>>_vars

Spec == Init /\ [][Next]_vars /\ Fairness

(***************************************************************************)
(* Properties.                                                             *)
(***************************************************************************)
\* References to object o: interfaces plugged into it, its queued process, a
\* connection's place in TCP's list and a DNS request's own.
References(o) ==
    Cardinality({i \in Intfs : Owner(world.dest[i]) = o})
    + Cardinality({n \in DOMAIN world.runq : world.runq[n] = o})
    + IF \/ o[1] = "T" /\ Live(o) /\ world.tcp[o].state # "CLOSED"
         \/ o[1] = "R" /\ Live(o) /\ world.res[o].kind = "dns"
      THEN 1 ELSE 0

(* Between handlers, every object's reference count is exactly the number of
   references to it, an object that has none has been freed, and no handler has
   touched a freed object, although handlers close, unplug and free one another
   from within their callbacks (ref_get/ref_put, intf_plug, process_del).     *)
ReferencesExact ==
    /\ ~world.bad
    /\ \A o \in Objs : world.cnt[o] = References(o) - 1

(* A download that reports success has the whole file in the image and nothing
   else, whatever the framing, the segments, a retry with a password or a
   redirection, and although connections end early and memory runs out
   (http_done, http_socket_deliver, downloader_xfer_deliver).                 *)
SuccessIsWhole == world.rc = OK => world.image = site.file

(* A block read that reports success has filled its buffer with the blocks it
   asked for, though connections are reopened between and during commands and
   commands time out (http_partial_read, http_done).                          *)
ReadExact ==
    world.cmd.count # 0 /\ world.cmd.rc = OK =>
        world.buffer = SubSeq(site.file, world.cmd.lba + 1, world.cmd.lba + world.cmd.count)

\* Something below request h will still call it back.
Resolving(n) ==
    LET m == Owner(world.dest[<<n, "resolv">>])
    IN  /\ world.dest[<<n, "resolv">>] = <<m, "parent">>
        /\ world.dest[<<m, "parent">>] = <<n, "resolv">>
        /\ world.dest[<<m, "child">>][2] = "resolv"
Served(h) ==
    /\ h \in Pool["H"]
    /\ LET o == Owner(world.dest[<<h, "socket">>])
       IN  \/ process_running(world, h)
           \/ o \in Pool["T"] /\ world.tcp[o].state # "CLOSED"
           \/ o \in Pool["N"] /\ Resolving(o)

(* Whoever waits is still attached to a request, and that request to something
   that will call it back: a queued step, an open connection, or a resolution
   that is under way (named_resolv_done, resmux_child_close, http_done).      *)
NeverStranded ==
    /\ world.rc = INPROGRESS => Served(Owner(world.dest[<<D, "xfer">>]))
    /\ world.cmd.phase = "wait" /\ world.cmd.rc = INPROGRESS =>
          Served(Owner(world.dest[command_block]))

(* The buffer of a block read is written only while its command is being
   waited for, never after it timed out (int13_command_close, http_close).    *)
BufferQuiet ==
    [][world'.buffer # world.buffer =>
          \/ world.cmd.phase = "idle"
          \/ world.cmd.phase = "wait" /\ world.cmd.rc = INPROGRESS]_vars

(* Every download and every block command ends, given servers that answer and
   then close (monojob_wait, int13_command_wait).                             *)
EveryWaitEnds ==
    /\ world.rc = INPROGRESS ~> world.rc \in {OK, ERR}
    /\ world.cmd.phase = "start" ~> world.cmd.phase = "idle"

(* Once the job is over or the drive unhooked, everything that was opened for it
   is freed, a resolution that nobody waits for any more included
   (http_close, named_close, resmux_child_close).                             *)
EverythingFreed ==
    (world.rc \in {OK, ERR} \/ world.cmd.phase = "gone")
        ~> \A o \in Objs : world.cnt[o] = NotAllocated

=============================================================================
