-------------------------------- MODULE Dhcp --------------------------------
(***************************************************************************)
(* The DHCP client (net/udp/dhcp.c): a session discovers an offer, collects *)
(* ProxyDHCP offers for a while, requests the address it chose and, when    *)
(* the chosen ProxyDHCP offer is only an announcement, asks the ProxyDHCP   *)
(* server too.  A later session looks for a PXE boot server.  Each session  *)
(* is driven by one retry timer (net/retry.c) and by the packets that come  *)
(* back, which may be lost, repeated, late and in any order.                *)
(*                                                                         *)
(* Addresses are numbers, 0 being the zero address.  A packet is what the   *)
(* client fetches from it.  `elapsed` is currticks() - dhcp->start and      *)
(* timer.waited is currticks() - timer->start.                              *)
(***************************************************************************)
EXTENDS Integers, Sequences

CONSTANTS
    Addr,                   \* every address, 0 included
    Broadcast,              \* INADDR_BROADCAST
    Lans,                   \* the networks a behaviour may run on
    DHCP_MIN_TIMEOUT, DHCP_MAX_TIMEOUT,
    DEFAULT_MIN_TIMEOUT,    \* what retry.c makes of min_timeout = 0
    PROXYDHCP_MAX_TIMEOUT, PXEBS_MAX_TIMEOUT,
    Late                    \* bound: ticks by which retry_poll() may be late

VARIABLES
    lan,        \* the servers, and the PXE settings they hand out
    net,        \* packets sent to the client; they stay, to be repeated
    dhcp,       \* the session
    timer,      \* its retry timer
    elapsed,    \* time spent in the session's current state
    settings,   \* the settings blocks registered under each name
    offers      \* history: packets the discovery state has handled

vars == <<lan, net, dhcp, timer, elapsed, settings, offers>>

MsgTypes == {"BOOTP", "DISCOVER", "OFFER", "REQUEST", "ACK", "NAK"}
Ports == {"BOOTPS", "PXE"}

Packets ==
    [xid : Nat, src : Addr, port : Ports, msgtype : MsgTypes, yiaddr : Addr,
     id : Addr, priority : Int, no_pxedhcp : BOOLEAN, pxeclient : BOOLEAN,
     pxeopts : BOOLEAN, item : Nat]

NoPacket ==
    [xid |-> 0, src |-> 0, port |-> "PXE", msgtype |-> "NAK", yiaddr |-> 0,
     id |-> 0, priority |-> 0, no_pxedhcp |-> FALSE, pxeclient |-> FALSE,
     pxeopts |-> FALSE, item |-> 0]

(* What a server is: the address it leases (0: none, a ProxyDHCP or boot    *)
(* server), whether it speaks plain BOOTP, refuses requests, or leaves its  *)
(* identifier out of what it sends from the PXE port.                       *)
Servers ==
    [ip : Addr, priority : Int, no_pxedhcp : BOOLEAN, pxeclient : BOOLEAN,
     pxeopts : BOOLEAN, bootp : BOOLEAN, refuses : BOOLEAN, noid : BOOLEAN]

ASSUME AddrAssumption ==
    Addr \subseteq Nat /\ 0 \in Addr /\ Broadcast \in Addr

(* The give-up times leave room below the point where the timer fails: this *)
(* is what the two comments "before we reach the failure point" rely on.    *)
ASSUME TimeoutAssumption ==
    /\ DHCP_MIN_TIMEOUT \in Nat /\ DHCP_MAX_TIMEOUT \in Nat
    /\ DEFAULT_MIN_TIMEOUT \in Nat /\ Late \in Nat
    /\ PROXYDHCP_MAX_TIMEOUT \in Nat /\ PXEBS_MAX_TIMEOUT \in Nat
    /\ 2 * (PROXYDHCP_MAX_TIMEOUT + DHCP_MIN_TIMEOUT) <= DHCP_MAX_TIMEOUT
    /\ 2 * (PROXYDHCP_MAX_TIMEOUT + DEFAULT_MIN_TIMEOUT) <= DHCP_MAX_TIMEOUT
    /\ 2 * (PXEBS_MAX_TIMEOUT + DHCP_MIN_TIMEOUT) <= DHCP_MAX_TIMEOUT

ASSUME LanAssumption ==
    \A l \in Lans :
        /\ DOMAIN l.server \subseteq Addr \ {0}
        /\ \A s \in DOMAIN l.server : l.server[s] \in Servers
        /\ l.mcast \in Addr /\ l.bcast \in BOOLEAN /\ l.known \in BOOLEAN
        /\ l.list \in Seq(Addr \ {0})

-----------------------------------------------------------------------------
(* The servers (external), as far as the client depends on them: what each  *)
(* of them may send back to a request.                                      *)

Answer(s, r, msgtype, item) ==
    LET v == lan.server[s]
    IN  [xid |-> r.xid, src |-> s, port |-> r.port, msgtype |-> msgtype,
         yiaddr |-> IF r.port = "PXE" THEN 0 ELSE v.ip,
         id |-> IF v.bootp \/ (r.port = "PXE" /\ v.noid) THEN 0 ELSE s,
         priority |-> v.priority, no_pxedhcp |-> v.no_pxedhcp,
         pxeclient |-> v.pxeclient,
         pxeopts |-> v.pxeopts \/ r.port = "PXE", item |-> item]

(* A broadcast reaches everyone, other addresses the server that has them;  *)
(* the multicast group is the boot servers'.                                *)
Reached(r) ==
    {s \in DOMAIN lan.server :
        r.to \in {s, Broadcast} \/ (r.to = lan.mcast /\ lan.server[s].pxeclient)}

Answers(r) ==
    {Answer(s, r, "OFFER", 0) : s \in
        {s \in Reached(r) : r.msgtype = "DISCOVER" /\ ~lan.server[s].bootp}}
    \cup
    {Answer(s, r, "BOOTP", 0) : s \in
        {s \in Reached(r) : r.port = "BOOTPS" /\ lan.server[s].bootp}}
    \cup
    {Answer(s, r, IF lan.server[s].refuses THEN "NAK" ELSE "ACK", 0) : s \in
        {s \in Reached(r) : r.msgtype = "REQUEST" /\ r.item = 0
                             /\ ~lan.server[s].bootp /\ r.id = s
                             /\ (r.port = "PXE" \/ r.ip = lan.server[s].ip)}}
    \cup
    {Answer(s, r, "ACK", r.item) : s \in
        {s \in Reached(r) : r.item # 0 /\ lan.server[s].pxeclient
                             /\ ~lan.server[s].refuses}}

-----------------------------------------------------------------------------
(* The retry timer, as this client uses it.                                 *)

min_timeout(state) ==
    IF state \in {"discover", "pxebs"} THEN DHCP_MIN_TIMEOUT
                                       ELSE DEFAULT_MIN_TIMEOUT

start_timer(timeout, state) ==
    [running |-> TRUE, waited |-> 0,
     timeout |-> IF timeout < min_timeout(state) THEN min_timeout(state)
                                                 ELSE timeout]

start_timer_nodelay == [running |-> TRUE, waited |-> 0, timeout |-> 0]

(* The stopped timer belongs to a session that is over: the smoothing of    *)
(* its timeout is not observed.                                             *)
dhcp_finished(d, rc) ==
    /\ dhcp' = [d EXCEPT !.rc = rc]
    /\ timer' = [timer EXCEPT !.running = FALSE]
    /\ UNCHANGED elapsed

dhcp_set_state(d, state) ==
    /\ dhcp' = [d EXCEPT !.state = state]
    /\ timer' = start_timer_nodelay
    /\ elapsed' = 0

-----------------------------------------------------------------------------
(* Transmission.  The timer is started first, so that a failure to build or *)
(* to send the packet is retried.                                           *)

dhcp_discovery_tx ==
    [xid |-> dhcp.xid, to |-> Broadcast, port |-> "BOOTPS",
     msgtype |-> "DISCOVER", id |-> 0, ip |-> 0, item |-> 0]

dhcp_request_tx ==
    [xid |-> dhcp.xid, to |-> Broadcast, port |-> "BOOTPS",
     msgtype |-> "REQUEST", id |-> dhcp.server, ip |-> dhcp.offer, item |-> 0]

dhcp_proxy_tx ==
    [xid |-> dhcp.xid, to |-> dhcp.proxy_server, port |-> "PXE",
     msgtype |-> "REQUEST", id |-> dhcp.proxy_server, ip |-> 0, item |-> 0]

dhcp_pxebs_tx ==
    LET to == Head(dhcp.pxe_attempt)
    IN  [xid |-> dhcp.xid, to |-> to,
         port |-> IF to = Broadcast THEN "BOOTPS" ELSE "PXE",
         msgtype |-> "REQUEST", id |-> 0, ip |-> 0, item |-> dhcp.pxe_type]

dhcp_tx_unarmed(request, timeout) ==
    /\ \/ /\ timer' = start_timer(timeout, dhcp.state)
          /\ net' = net \cup Answers(request)
       \/ timer' = [timer EXCEPT !.running = FALSE] /\ UNCHANGED net
    /\ UNCHANGED <<dhcp, elapsed>>

dhcp_tx(request, timeout) ==
    /\ timer' = start_timer(timeout, dhcp.state)
    /\ net' \in {net, net \cup Answers(request)}
    /\ UNCHANGED <<dhcp, elapsed>>

-----------------------------------------------------------------------------
(* Timer expiry.  timeout is the backed-off value.                          *)

dhcp_discovery_expired_patient(timeout) == dhcp_tx(dhcp_discovery_tx, timeout)

dhcp_discovery_expired(timeout) ==
    IF dhcp.offer # 0 /\ elapsed > PROXYDHCP_MAX_TIMEOUT
    THEN dhcp_set_state(dhcp, "request") /\ UNCHANGED net
    ELSE dhcp_tx(dhcp_discovery_tx, timeout)

dhcp_request_expired(timeout) == dhcp_tx(dhcp_request_tx, timeout)

dhcp_proxy_expired_hasty(timeout) ==
    IF elapsed > 0
    THEN dhcp_finished(dhcp, "OK") /\ UNCHANGED net
    ELSE dhcp_tx(dhcp_proxy_tx, timeout)

dhcp_proxy_expired(timeout) ==
    IF elapsed > PROXYDHCP_MAX_TIMEOUT
    THEN dhcp_finished(dhcp, "OK") /\ UNCHANGED net
    ELSE dhcp_tx(dhcp_proxy_tx, timeout)

dhcp_pxebs_expired(timeout) ==
    LET next == [dhcp EXCEPT !.pxe_attempt = Tail(@)]
    IN  IF elapsed > PXEBS_MAX_TIMEOUT
        THEN /\ IF next.pxe_attempt # <<>>
                THEN dhcp_set_state(next, "pxebs")
                ELSE dhcp_finished(next, "ETIMEDOUT")
             /\ UNCHANGED net
        ELSE dhcp_tx(dhcp_pxebs_tx, timeout)

dhcp_timer_expired ==
    LET timeout == 2 * timer.timeout
    IN  /\ timer.running /\ timer.waited >= timer.timeout
        /\ \/ /\ timeout > DHCP_MAX_TIMEOUT
              /\ dhcp_finished(dhcp, "ETIMEDOUT")
              /\ UNCHANGED net
           \/ /\ timeout <= DHCP_MAX_TIMEOUT
              /\ \/ dhcp.state = "discover" /\ dhcp_discovery_expired(timeout)
                 \/ dhcp.state = "request" /\ dhcp_request_expired(timeout)
                 \/ dhcp.state = "proxy" /\ dhcp_proxy_expired(timeout)
                 \/ dhcp.state = "pxebs" /\ dhcp_pxebs_expired(timeout)
        /\ UNCHANGED <<lan, settings, offers>>

-----------------------------------------------------------------------------
(* Packets received.                                                        *)

IsOffer(p) ==
    p.yiaddr # 0 /\ p.port = "BOOTPS" /\ p.msgtype \in {"OFFER", "BOOTP"}

IsProxyOffer(p) == p.id # 0 /\ p.pxeclient

Considered_unranked(p) ==
    LET d == IF IsOffer(p)
             THEN [dhcp EXCEPT !.offer = p.yiaddr, !.server = p.id,
                               !.priority = p.priority,
                               !.no_pxedhcp = p.no_pxedhcp]
             ELSE dhcp
    IN  IF IsProxyOffer(p) /\ p.priority >= dhcp.proxy_priority
        THEN [d EXCEPT !.proxy_server = p.id, !.proxy_offer = p,
                       !.proxy_priority = p.priority]
        ELSE d

(* The session once p has been considered as an offer of either kind.       *)
Considered(p) ==
    LET d == IF IsOffer(p) /\ p.priority >= dhcp.priority
             THEN [dhcp EXCEPT !.offer = p.yiaddr, !.server = p.id,
                               !.priority = p.priority,
                               !.no_pxedhcp = p.no_pxedhcp]
             ELSE dhcp
    IN  IF IsProxyOffer(p) /\ p.priority >= dhcp.proxy_priority
        THEN [d EXCEPT !.proxy_server = p.id, !.proxy_offer = p,
                       !.proxy_priority = p.priority]
        ELSE d

dhcp_discovery_rx(p) ==
    LET d == Considered(p)
    IN  /\ IF /\ d.offer # 0
              /\ \/ d.no_pxedhcp
                 \/ d.proxy_offer # NoPacket
                 \/ elapsed > PROXYDHCP_MAX_TIMEOUT
           THEN dhcp_set_state(d, "request")
           ELSE dhcp' = d /\ UNCHANGED <<timer, elapsed>>
        /\ offers' = offers \cup {p}
        /\ UNCHANGED settings

(* register_settings() may fail, which ends the session with its error.     *)
dhcp_request_rx(p) ==
    LET d == [dhcp EXCEPT !.local = p.yiaddr]
        leased == [settings EXCEPT !.dhcp = p]
        proxy == dhcp.proxy_offer # NoPacket /\ ~dhcp.no_pxedhcp
    IN  /\ p.port = "BOOTPS" /\ p.msgtype \in {"BOOTP", "ACK"}
        /\ p.id = dhcp.server /\ p.yiaddr = dhcp.offer
        /\ \/ dhcp_finished(d, "ERROR") /\ UNCHANGED settings
           \/ ~proxy /\ dhcp_finished(d, "OK") /\ settings' = leased
           \/ /\ proxy /\ dhcp.proxy_offer.pxeopts
              /\ \/ /\ dhcp_finished(d, "OK")
                    /\ settings' = [leased EXCEPT !.proxydhcp = dhcp.proxy_offer]
                 \/ dhcp_finished(d, "ERROR") /\ settings' = leased
           \/ /\ proxy /\ ~dhcp.proxy_offer.pxeopts
              /\ dhcp_set_state(d, "proxy")
              /\ settings' = leased
        /\ UNCHANGED offers

dhcp_proxy_rx(p) ==
    /\ p.port = "PXE" /\ p.msgtype \in {"OFFER", "ACK"}
    /\ p.id \in {0, dhcp.proxy_server}
    /\ \/ dhcp_finished(dhcp, "OK") /\ settings' = [settings EXCEPT !.proxydhcp = p]
       \/ dhcp_finished(dhcp, "ERROR") /\ UNCHANGED settings
    /\ UNCHANGED offers

dhcp_pxebs_rx(p) ==
    /\ p.msgtype = "ACK" /\ p.item = dhcp.pxe_type
    /\ (IF p.id # 0 THEN p.id ELSE p.src) \in dhcp.pxe_accept
    /\ \/ dhcp_finished(dhcp, "OK") /\ settings' = [settings EXCEPT !.pxebs = p]
       \/ dhcp_finished(dhcp, "ERROR") /\ UNCHANGED settings
    /\ UNCHANGED offers

(* A packet with another transaction's identifier, or one the state's       *)
(* handler filters out, is dropped and changes nothing.                     *)
dhcp_deliver(p) ==
    /\ dhcp.rc = "INPROGRESS"
    /\ p.xid = dhcp.xid
    /\ \/ dhcp.state = "discover" /\ dhcp_discovery_rx(p)
       \/ dhcp.state = "request" /\ dhcp_request_rx(p)
       \/ dhcp.state = "proxy" /\ dhcp_proxy_rx(p)
       \/ dhcp.state = "pxebs" /\ dhcp_pxebs_rx(p)
    /\ UNCHANGED <<lan, net>>

-----------------------------------------------------------------------------
(* Starting and abandoning a session.                                       *)

NoSession ==
    [state |-> "none", rc |-> "IDLE", xid |-> 0, local |-> 0,
     offer |-> 0, server |-> 0, priority |-> 0, no_pxedhcp |-> FALSE,
     proxy_server |-> 0, proxy_offer |-> NoPacket, proxy_priority |-> 0,
     pxe_type |-> 0, pxe_attempt |-> <<>>, pxe_accept |-> {}]

(* The socket may fail to open, and then no job is started.  random() is a  *)
(* transaction identifier other than the 0 that boot server sessions use.   *)
start_dhcp ==
    /\ dhcp.rc = "IDLE"
    /\ \/ dhcp_set_state([NoSession EXCEPT !.rc = "INPROGRESS", !.xid = 1],
                         "discover")
       \/ dhcp_finished(dhcp, "ERROR")
    /\ UNCHANGED <<lan, net, settings, offers>>

(* The addresses to try: the multicast group, broadcast, then the listed    *)
(* servers of the type.                                                     *)
pxebs_list ==
    (IF lan.mcast # 0 THEN <<lan.mcast>> ELSE <<>>)
    \o (IF lan.bcast THEN <<Broadcast>> ELSE <<>>) \o lan.list

start_pxebs(type) ==
    LET d == [NoSession EXCEPT !.rc = "INPROGRESS",
                !.local = settings.dhcp.yiaddr, !.pxe_type = type,
                !.pxe_attempt = pxebs_list,
                !.pxe_accept = IF lan.known
                               THEN {lan.list[i] : i \in DOMAIN lan.list}
                               ELSE Addr]
    IN  /\ dhcp.rc = "OK" /\ dhcp.state # "pxebs"
        /\ \/ pxebs_list # <<>> /\ dhcp_set_state(d, "pxebs")
           \/ dhcp_finished(dhcp, "ERROR")
        /\ UNCHANGED <<lan, net, settings, offers>>

(* The user interrupts the job: intf_close() on the job interface.          *)
job_close ==
    /\ dhcp.rc = "INPROGRESS"
    /\ dhcp_finished(dhcp, "ECANCELED")
    /\ UNCHANGED <<lan, net, settings, offers>>

Tick ==
    /\ timer.running /\ timer.waited < timer.timeout + Late
    /\ timer' = [timer EXCEPT !.waited = @ + 1]
    /\ elapsed' = elapsed + 1
    /\ UNCHANGED <<lan, net, dhcp, settings, offers>>

Init ==
    /\ lan \in Lans
    /\ net = {} /\ offers = {}
    /\ dhcp = NoSession
    /\ timer = [running |-> FALSE, waited |-> 0, timeout |-> 0]
    /\ elapsed = 0
    /\ settings = [dhcp |-> NoPacket, proxydhcp |-> NoPacket, pxebs |-> NoPacket]

Next ==
    \/ start_dhcp
    \/ start_pxebs(1)
    \/ \E p \in net : dhcp_deliver(p)
    \/ dhcp_timer_expired
    \/ job_close
    \/ Tick

Spec == Init /\ [][Next]_vars

(* Time passes while the timer runs, and retry_poll() is called from the    *)
(* main loop for as long as the job is waited for.                          *)
FairSpec == Spec /\ WF_vars(Tick) /\ WF_vars(dhcp_timer_expired)

-----------------------------------------------------------------------------
(* Of the offers a session has considered, it leases from one that no other *)
(* outranks, and what it registers as its lease is that server's answer for *)
(* that server's address (dhcp_discovery_rx, dhcp_request_rx), whatever is  *)
(* repeated, late or refused in between.                                    *)
LeaseIsBest ==
    settings.dhcp # NoPacket =>
        \E o \in offers :
            /\ IsOffer(o) /\ o.priority >= 0
            /\ o.yiaddr = settings.dhcp.yiaddr /\ o.id = settings.dhcp.id
            /\ \A q \in offers : IsOffer(q) => q.priority <= o.priority

(* A session that succeeds has the ProxyDHCP settings of the proxy server   *)
(* it chose, whose offer no other outranked, unless its lease said to       *)
(* ignore ProxyDHCP, no proxy was heard of, or the proxy was given its full *)
(* time to answer (dhcp_request_rx, dhcp_proxy_rx, dhcp_proxy_expired).     *)
ProxyHonoured ==
    dhcp.rc = "OK" /\ dhcp.state \in {"request", "proxy"} =>
        LET used == settings.proxydhcp
            wanted == ~dhcp.no_pxedhcp /\ dhcp.proxy_offer # NoPacket
        IN  IF used = NoPacket
            THEN wanted => /\ dhcp.state = "proxy"
                           /\ elapsed > PROXYDHCP_MAX_TIMEOUT
            ELSE /\ wanted /\ used.src = dhcp.proxy_server /\ used.pxeopts
                 /\ \A q \in offers :
                        IsProxyOffer(q) => q.priority <= dhcp.proxy_priority

(* "Give up waiting for ProxyDHCP before we reach the failure point": a     *)
(* session times out only where nobody has answered what it needs - in      *)
(* discovery without an offer, while requesting its address, or when every  *)
(* boot server on the list has been tried - and never because an optional   *)
(* ProxyDHCP answer stayed away (dhcp_timer_expired, the expired handlers). *)
TimeoutsJustified ==
    dhcp.rc = "ETIMEDOUT" =>
        \/ dhcp.state = "discover" /\ dhcp.offer = 0
        \/ dhcp.state = "request"
        \/ dhcp.state = "pxebs" /\ dhcp.pxe_attempt = <<>>

(* Every session ends, whatever is lost: dhcp_tx() starts the timer before  *)
(* anything can fail, and no state restarts its timeout for ever, so the    *)
(* monojob_wait() on the session returns.                                   *)
EverySessionEnds == dhcp.rc = "INPROGRESS" ~> dhcp.rc # "INPROGRESS"

=============================================================================
