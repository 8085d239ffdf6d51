------------------------------- MODULE Naming --------------------------------
(* Opening a connection to a named server (core/resolv.c, core/open.c,
   core/xfer.c): a named socket asks a resolver multiplexer for the address, the
   multiplexer tries its resolvers in turn, and the socket then redirects its
   parent to a TCP connection.  A DNS request (net/udp/dns.c) and a TCP connection
   (net/tcp.c) are what their users see of them; Tcp models the rest.         *)
EXTENDS Objects, FiniteSets, TLC

CONSTANT Sites        \* the surroundings: what the servers hold and how they close,
                      \* and when memory may run out

VARIABLES world,      \* see Objects; each module below says what it adds to it
          site        \* the member of Sites this behaviour takes place in

vars == <<world, site>>

(* The objects that can exist: a pool of each kind, and the static ones. *)
Pool == [kind \in {"D"} |-> {<<"D", 1>>}]
     @@ [kind \in {"H", "N", "M", "T"} |-> {kind} \X (1..2)]
     @@ [kind \in {"R"} |-> {"R"} \X (1..3)]
Objs == UNION {Pool[kind] : kind \in DOMAIN Pool}
Names == [D |-> {"job", "xfer"}, H |-> {"xfer", "partial", "socket"},
          N |-> {"xfer", "resolv"}, M |-> {"parent", "child"},
          R |-> {"resolv"}, T |-> {"xfer"}]
D == <<"D", 1>>
monojob == << <<"job", 0>>, "job" >>
int13_block == << <<"int13", 0>>, "block" >>
command_block == << <<"int13", 0>>, "command" >>
Intfs == UNION {{o} \X Names[o[1]] : o \in Objs}
         \cup {null_intf, monojob, int13_block, command_block}

New(w, kind) == CHOOSE o \in Pool[kind] : w.cnt[o] = NotAllocated

OK == "OK"
ERR == "ERR"
INPROGRESS == "INPROGRESS"
Failed(w) == w.ret = ERR
Fail(w) == [w EXCEPT !.ret = ERR]
Succeed(w) == [w EXCEPT !.ret = OK]

\* world.mux, world.res and world.tcp: the state of each of these objects.
NewMux == [resolver |-> 1, uri |-> "none"]
NewResolver == [kind |-> "none", host |-> "none"]
NewTcp == [state |-> "SYN", rx |-> << >>]

\* An object that could be set up attaches to its parent; either way its maker
\* lets go of it.
attach(w, mine, parent) ==
    IF Failed(w) THEN ref_put(w, Owner(mine))
    ELSE Do(w, << <<"intf_plug_plug", mine, parent>>, <<"ref_put", Owner(mine)>> >>)

(***************************************************************************)
(* Resolvers, tried in order: numeric addresses, then DNS.                 *)
(***************************************************************************)
numeric_resolv(w, i, uri) ==
    LET r == New(w, "R")
    IN  Do(w, << <<"zalloc", r, {"resolv"}>>, <<"numeric_made", r, i, uri>> >>)
numeric_made(w, r, i, uri) ==
    IF Failed(w) THEN w
    ELSE Do(process_add([w EXCEPT !.res[r] = [kind |-> "numeric", host |-> uri]], r),
            << <<"attach", <<r, "resolv">>, i>> >>)

numeric_rc(r) == IF site.pages[world.res[r].host].numeric THEN OK ELSE ERR

\* A DNS request is held by its timer and its UDP socket, here one reference,
\* until it has an answer or gives up.  That no server is configured, or no socket
\* can be opened, is for its caller the same as that it cannot be allocated.
dns_resolv(w, i, uri) ==
    LET r == New(w, "R")
    IN  Do(w, << <<"zalloc", r, {}>>, <<"dns_made", r, i, uri>> >>)
dns_made(w, r, i, uri) ==
    IF Failed(w) THEN w
    ELSE Do([w EXCEPT !.res[r] = [kind |-> "dns", host |-> uri]],
            << <<"intf_plug_plug", <<r, "resolv">>, i>> >>)

dns_close(w, r, rc) ==
    Do([w EXCEPT !.res[r].kind = "done"],
       << <<"intf_shutdown", <<r, "resolv">>, rc>> >>
       \o IF w.res[r].kind = "dns" THEN << <<"ref_put", r>> >> ELSE << >>)

\* The step of a numeric resolver.
numeric_step(r, rc) ==
    (IF rc = OK THEN << <<"resolv_done", <<r, "resolv">> >> >> ELSE << >>)
    \o << <<"intf_shutdown", <<r, "resolv">>, rc>>, <<"ref_put", r>> >>

Resolvers == <<"numeric_resolv", "dns_resolv">>
resmux_try(w, m) ==
    Do(w, << <<Resolvers[w.mux[m].resolver], <<m, "child">>, w.mux[m].uri>> >>)

resmux_child_close(w, m, rc) ==
    Do(w, << <<"intf_restart", <<m, "child">>, rc>>, <<"resmux_next", m, rc>> >>)
resmux_next(w, m, rc) ==
    CASE rc = OK -> Do(w, << <<"intf_shutdown", <<m, "parent">>, OK>> >>)
      [] w.mux[m].resolver = Len(Resolvers) ->
             Do(w, << <<"intf_shutdown", <<m, "parent">>, rc>> >>)
      [] OTHER -> Do([w EXCEPT !.mux[m].resolver = @ + 1],
                     << <<"resmux_try", m>>, <<"resmux_tried", m>> >>)
resmux_tried_silent(w, m) == w    \* mutant: the parent is not told
resmux_tried(w, m) ==
    IF Failed(w) THEN Do(w, << <<"intf_shutdown", <<m, "parent">>, ERR>> >>) ELSE w

resolv(w, i, uri) ==
    LET m == New(w, "M")
    IN  Do(w, << <<"zalloc", m, {"parent"}>>, <<"resolv_made", m, i, uri>> >>)
resolv_made(w, m, i, uri) ==
    IF Failed(w) THEN w
    ELSE Do([w EXCEPT !.mux[m] = [resolver |-> 1, uri |-> uri]],
            << <<"resmux_try", m>>, <<"attach", <<m, "parent">>, i>> >>)

(***************************************************************************)
(* TCP connections and named sockets.                                      *)
(***************************************************************************)
tcp_open(w, i) ==
    LET t == New(w, "T")
    IN  Do(w, << <<"zalloc", t, {}>>, <<"tcp_made", t, i>> >>)
tcp_made(w, t, i) ==
    IF Failed(w) THEN w
    ELSE Do([w EXCEPT !.tcp[t] = NewTcp], << <<"intf_plug_plug", <<t, "xfer">>, i>> >>)

\* The connection's place in TCP's list goes along with its user: one that has
\* still to exchange FINs does so by itself, and nobody here hears more of it.
tcp_close(w, t, rc) ==
    IF w.tcp[t].state = "CLOSED" THEN w
    ELSE Do([w EXCEPT !.tcp[t] = [state |-> "CLOSED", rx |-> << >>]],
            << <<"intf_shutdown", <<t, "xfer">>, rc>>, <<"ref_put", t>> >>)

\* A call into whatever connection t is plugged into.
tcp_user(w, t, call) ==
    LET o == Owner(w.dest[<<t, "xfer">>])
    IN  Do(ref_get(w, o), <<call, <<"ref_put", o>> >>)

Uri(uri) == [type |-> "uri", uri |-> uri]
Socket == [type |-> "socket", uri |-> "none"]

\* A URI the servers hold nothing under stands for one no opener accepts.
xfer_vopen(w, i, location) ==
    CASE location.type = "socket" -> tcp_open(w, i)
      [] location.uri \in DOMAIN site.pages -> Do(w, << <<"http_open", i, location.uri>> >>)
      [] OTHER -> Fail(w)

\* The destination keeps its references (the caller's and the temporary
\* interface's) until the change of window has been reported to it.  The report
\* to the new child is no call: neither TCP nor HTTP's xfer interface handles it.
xfer_redirect(w, i, location) ==
    LET d == w.dest[i]
    IN  Do(ref_get(ref_get(w, Owner(d)), Owner(d)),
           << <<"intf_restart", d, OK>>, <<"xfer_vopen", d, location>>, <<"redirected", d>> >>)
redirected(w, d) ==
    LET puts == << <<"ref_put", Owner(d)>>, <<"ref_put", Owner(d)>> >>
    IN  IF Failed(w) THEN Do(w, puts)
        ELSE Do(w, << <<"xfer_window_changed", d>> >> \o puts \o << <<"return", OK>> >>)

xfer_open_named_socket(w, i, uri) ==
    LET n == New(w, "N")
    IN  Do(w, << <<"zalloc", n, {}>>, <<"named_made", n, i, uri>> >>)
named_made(w, n, i, uri) ==
    IF Failed(w) THEN w
    ELSE Do(w, << <<"resolv", <<n, "resolv">>, uri>>, <<"attach", <<n, "xfer">>, i>> >>)

named_close(w, n, rc) ==
    Do(w, << <<"intf_shutdown", <<n, "resolv">>, rc>>, <<"intf_shutdown", <<n, "xfer">>, rc>> >>)

named_resolv_done(w, n) ==
    Do(intf_nullify(w, <<n, "xfer">>),
       << <<"xfer_redirect", <<n, "xfer">>, Socket>>, <<"named_redirected", n>> >>)
named_redirected(w, n) ==
    IF Failed(w) THEN named_close(w, n, ERR)
    ELSE named_close(intf_unplug(w, <<n, "xfer">>), n, OK)

\* Reporting an address from the resolver, through the multiplexer.
resolv_done(w, i) ==
    LET d == w.dest[i]
        m == Owner(d)
        e == w.dest[<<m, "parent">>]
        n == Owner(e)
    IN  IF ~w.on[d] \/ ~w.on[e] THEN w
        ELSE Do(ref_get(ref_get(w, m), n),
                << <<"named_resolv_done", n>>, <<"ref_put", n>>, <<"ref_put", m>> >>)

=============================================================================
