----------------------------- MODULE DhcpProofs -----------------------------
(* Proofs about Dhcp for any network, any timeouts that leave the give-up   *)
(* times below the failure point, and any lateness of retry_poll().         *)
EXTENDS Dhcp, TLAPS

States == {"none", "discover", "request", "proxy", "pxebs"}
Codes == {"IDLE", "INPROGRESS", "OK", "ERROR", "ECANCELED", "ETIMEDOUT"}

Sessions ==
    [state : States, rc : Codes, xid : Nat, local : Addr,
     offer : Addr, server : Addr, priority : Int, no_pxedhcp : BOOLEAN,
     proxy_server : Addr, proxy_offer : Packets, proxy_priority : Int,
     pxe_type : Nat, pxe_attempt : Seq(Addr), pxe_accept : SUBSET Addr]

TimerType == timer \in [running : BOOLEAN, waited : Nat, timeout : Nat] /\ elapsed \in Nat
SessionType == dhcp \in Sessions
WorldType ==
    /\ lan \in Lans
    /\ net \subseteq Packets /\ offers \subseteq Packets
    /\ settings \in [dhcp : Packets, proxydhcp : Packets, pxebs : Packets]

(* A boot server session under way has a server to ask.                     *)
Trying == timer.running /\ dhcp.state = "pxebs" => dhcp.pxe_attempt # <<>>

TypeOK == TimerType /\ SessionType /\ WorldType /\ Trying

(* How long a state may be waited in before it is given up, where it is.    *)
Patience(state) ==
    IF state = "pxebs" THEN PXEBS_MAX_TIMEOUT ELSE PROXYDHCP_MAX_TIMEOUT

GivesUp(d) ==
    \/ d.state \in {"proxy", "pxebs"}
    \/ d.state = "discover" /\ d.offer # 0

(* The timer was last started elapsed - waited ticks into the state.  It    *)
(* runs for at most that long and the minimum more, because each timeout is *)
(* at most twice the one before; and a state that gives up starts it only   *)
(* within its patience.                                                     *)
Timing ==
    timer.running =>
        /\ dhcp.rc = "INPROGRESS" /\ dhcp.state # "none"
        /\ timer.waited <= elapsed
        /\ timer.timeout <= (elapsed - timer.waited) + min_timeout(dhcp.state)
        /\ GivesUp(dhcp) => elapsed - timer.waited <= Patience(dhcp.state)

(* The offer a session holds is one of those it considered, and none of     *)
(* them outranks it.                                                        *)
Holding ==
    /\ dhcp.state # "pxebs" /\ dhcp.offer # 0 =>
           \E o \in offers : /\ IsOffer(o) /\ o.priority = dhcp.priority
                             /\ o.yiaddr = dhcp.offer /\ o.id = dhcp.server
    /\ dhcp.priority >= 0
    /\ dhcp.state # "pxebs" =>
           \A q \in offers : IsOffer(q) => q.priority <= dhcp.priority
    /\ dhcp.state \in {"request", "proxy"} => dhcp.offer # 0
    /\ dhcp.state \in {"none", "discover"} => settings.dhcp = NoPacket
    /\ dhcp.rc = "IDLE" => dhcp.state = "none" /\ offers = {}

IInv == TypeOK /\ Timing /\ TimeoutsJustified /\ Holding /\ LeaseIsBest

-----------------------------------------------------------------------------
(* Types.                                                                   *)

(* The record that stands for no packet has a packet's type.                *)
LEMMA NoPacketTyped == NoPacket \in Packets
BY AddrAssumption DEF NoPacket, Packets, Ports, MsgTypes

(* Whatever the servers send back to a request is a packet.                 *)
LEMMA AnswersTyped ==
  ASSUME lan \in Lans, NEW r, r.xid \in Nat, r.port \in Ports, r.item \in Nat
  PROVE  Answers(r) \subseteq Packets
<1>1. ASSUME NEW t \in {"OFFER", "BOOTP", "NAK", "ACK"}, NEW k \in Nat,
             NEW s \in Reached(r)
      PROVE  Answer(s, r, t, k) \in Packets
  <2> DEFINE v == lan.server[s]
             ip == IF r.port = "PXE" THEN 0 ELSE v.ip
             id == IF v.bootp \/ (r.port = "PXE" /\ v.noid) THEN 0 ELSE s
             opts == v.pxeopts \/ r.port = "PXE"
  <2>1. s \in Addr /\ v \in Servers
    BY <1>1, LanAssumption DEF Reached
  <2>2. ip \in Addr /\ id \in Addr
    BY <2>1, AddrAssumption DEF Servers
  <2>3. opts \in BOOLEAN
    OBVIOUS
  <2>4. v.priority \in Int /\ v.no_pxedhcp \in BOOLEAN /\ v.pxeclient \in BOOLEAN
    BY <2>1 DEF Servers
  <2>5. t \in MsgTypes
    BY <1>1 DEF MsgTypes
  <2>6. Answer(s, r, t, k) =
          [xid |-> r.xid, src |-> s, port |-> r.port, msgtype |-> t,
           yiaddr |-> ip, id |-> id, priority |-> v.priority,
           no_pxedhcp |-> v.no_pxedhcp, pxeclient |-> v.pxeclient,
           pxeopts |-> opts, item |-> k]
    BY Zenon DEF Answer
  <2> HIDE DEF v, ip, id, opts
  <2> QED BY <1>1, <2>1, <2>2, <2>3, <2>4, <2>5, <2>6 DEF Packets
<1>2. \A s \in Reached(r) :
        /\ Answer(s, r, "OFFER", 0) \in Packets
        /\ Answer(s, r, "BOOTP", 0) \in Packets
        /\ Answer(s, r, IF lan.server[s].refuses THEN "NAK" ELSE "ACK", 0) \in Packets
        /\ Answer(s, r, "ACK", r.item) \in Packets
  BY <1>1
<1> QED BY <1>2 DEF Answers

(* Transmission keeps the types.                                            *)
LEMMA TxTyped ==
  ASSUME TypeOK, NEW r, r.xid \in Nat, r.port \in Ports, r.item \in Nat,
         NEW t \in Nat, dhcp_tx(r, t), UNCHANGED <<lan, settings, offers>>,
         timer.running
  PROVE  TypeOK'
<1>1. TimerType'
  BY TimeoutAssumption
  DEF dhcp_tx, start_timer, min_timeout, TypeOK, TimerType
<1>2. SessionType'
  BY DEF dhcp_tx, TypeOK, SessionType
<1>4. Trying'
  BY DEF dhcp_tx, TypeOK, Trying
<1>3. WorldType'
  BY AnswersTyped DEF dhcp_tx, TypeOK, WorldType
<1> QED BY <1>1, <1>2, <1>3, <1>4 DEF TypeOK

(* Entering a state keeps the types.                                        *)
LEMMA EnterTyped ==
  ASSUME NEW d \in Sessions, NEW state \in States, dhcp_set_state(d, state),
         state = "pxebs" => d.pxe_attempt # <<>>
  PROVE  TimerType' /\ SessionType' /\ Trying'
<1>1. /\ [d EXCEPT !.state = state] \in Sessions
      /\ [d EXCEPT !.state = state].state = state
      /\ [d EXCEPT !.state = state].pxe_attempt = d.pxe_attempt
  BY DEF Sessions
<1> QED BY <1>1 DEF dhcp_set_state, start_timer_nodelay, TimerType, SessionType, Trying

(* Finishing keeps the types.                                               *)
LEMMA FinishTyped ==
  ASSUME TimerType, NEW d \in Sessions, NEW rc \in Codes, dhcp_finished(d, rc)
  PROVE  TimerType' /\ SessionType' /\ Trying'
<1>1. [d EXCEPT !.rc = rc] \in Sessions
  BY DEF Sessions
<1> QED BY <1>1 DEF dhcp_finished, TimerType, SessionType, Trying

(* Considering an offer yields a session that differs in what it holds.     *)
LEMMA ConsideredOffer ==
  ASSUME SessionType, NEW p \in Packets
  PROVE  LET d == Considered(p)
             better == IsOffer(p) /\ p.priority >= dhcp.priority
         IN  /\ d \in Sessions
             /\ d.state = dhcp.state /\ d.rc = dhcp.rc
             /\ better => /\ d.offer = p.yiaddr /\ d.server = p.id
                          /\ d.priority = p.priority
             /\ ~ better => /\ d.offer = dhcp.offer /\ d.server = dhcp.server
                            /\ d.priority = dhcp.priority
<1> DEFINE better == IsOffer(p) /\ p.priority >= dhcp.priority
           d == IF better
                THEN [dhcp EXCEPT !.offer = p.yiaddr, !.server = p.id,
                                  !.priority = p.priority,
                                  !.no_pxedhcp = p.no_pxedhcp]
                ELSE dhcp
           e == [d EXCEPT !.proxy_server = p.id, !.proxy_offer = p,
                          !.proxy_priority = p.priority]
<1>1. /\ d \in Sessions /\ d.state = dhcp.state /\ d.rc = dhcp.rc
      /\ better => /\ d.offer = p.yiaddr /\ d.server = p.id
                   /\ d.priority = p.priority
      /\ ~ better => d = dhcp
  BY DEF SessionType, Sessions, Packets
<1>2. Considered(p) \in {d, e}
  BY Zenon DEF Considered
<1>3. /\ e \in Sessions /\ e.state = d.state /\ e.rc = d.rc
      /\ e.offer = d.offer /\ e.server = d.server /\ e.priority = d.priority
  <2> HIDE DEF d
  <2>1. p.id \in Addr /\ p.priority \in Int
    BY DEF Packets
  <2> QED BY <1>1, <2>1 DEF Sessions
<1> HIDE DEF d, e, better
<1>4. LET c == Considered(p)
      IN  /\ c \in Sessions /\ c.state = d.state /\ c.rc = d.rc
          /\ c.offer = d.offer /\ c.server = d.server /\ c.priority = d.priority
  BY <1>1, <1>2, <1>3
<1> QED BY <1>1, <1>4 DEF better

(* The sessions that are started have a session's type.                     *)
LEMMA FreshTyped ==
  ASSUME TypeOK
  PROVE  /\ NoSession \in Sessions
         /\ [NoSession EXCEPT !.rc = "INPROGRESS", !.xid = 1] \in Sessions
         /\ pxebs_list \in Seq(Addr)
<1>1. NoSession \in Sessions
  BY AddrAssumption, NoPacketTyped DEF NoSession, Sessions, States, Codes
<1>2. [NoSession EXCEPT !.rc = "INPROGRESS", !.xid = 1] \in Sessions
  BY <1>1 DEF Sessions, Codes
<1>3. lan.list \in Seq(Addr) /\ lan.mcast \in Addr
  BY LanAssumption DEF TypeOK, WorldType
<1>4. pxebs_list \in Seq(Addr)
  BY <1>3, AddrAssumption DEF pxebs_list
<1> QED BY <1>1, <1>2, <1>4

(* The session start_pxebs() builds.                                        *)
BootSession ==
    [NoSession EXCEPT !.rc = "INPROGRESS", !.local = settings.dhcp.yiaddr,
       !.pxe_type = 1, !.pxe_attempt = pxebs_list,
       !.pxe_accept = IF lan.known THEN {lan.list[i] : i \in DOMAIN lan.list}
                                   ELSE Addr]

(* It is a session, and start_pxebs() starts it or nothing.                 *)
LEMMA BootTyped ==
  ASSUME TypeOK, start_pxebs(1)
  PROVE  /\ BootSession \in Sessions /\ BootSession.rc = "INPROGRESS"
         /\ BootSession.pxe_attempt = pxebs_list /\ BootSession.priority = 0
         /\ \/ pxebs_list # <<>> /\ dhcp_set_state(BootSession, "pxebs")
            \/ dhcp_finished(dhcp, "ERROR")
<1> DEFINE accept == IF lan.known THEN {lan.list[i] : i \in DOMAIN lan.list}
                                  ELSE Addr
           d == [NoSession EXCEPT !.rc = "INPROGRESS",
                   !.local = settings.dhcp.yiaddr, !.pxe_type = 1,
                   !.pxe_attempt = pxebs_list, !.pxe_accept = accept]
<1>1. accept \in SUBSET Addr
  BY LanAssumption DEF TypeOK, WorldType
<1>2. settings.dhcp.yiaddr \in Addr
  BY DEF TypeOK, WorldType, Packets
<1>3. /\ d \in Sessions /\ d.rc = "INPROGRESS"
      /\ d.pxe_attempt = pxebs_list /\ d.priority = NoSession.priority
  <2> HIDE DEF accept
  <2> QED BY <1>1, <1>2, FreshTyped DEF Sessions, Codes
<1>4. d = BootSession
  BY Zenon DEF BootSession
<1>5. \/ pxebs_list # <<>> /\ dhcp_set_state(d, "pxebs")
      \/ dhcp_finished(dhcp, "ERROR")
  BY Zenon DEF start_pxebs
<1>6. NoSession.priority = 0
  BY DEF NoSession
<1> HIDE DEF d
<1> QED BY <1>3, <1>4, <1>5, <1>6

(* Every step keeps the types.                                              *)
LEMMA TypesKept == TypeOK /\ [Next]_vars => TypeOK'
<1> SUFFICES ASSUME TypeOK, [Next]_vars PROVE TypeOK'
  OBVIOUS
<1>0. dhcp \in Sessions /\ timer.timeout \in Nat
  BY DEF TypeOK, SessionType, TimerType
<1>1. CASE start_dhcp
  <2>1. TimerType' /\ SessionType' /\ Trying'
    BY <1>1, <1>0, FreshTyped, EnterTyped, FinishTyped DEF start_dhcp, States, Codes, TypeOK
  <2> QED BY <1>1, <2>1 DEF start_dhcp, TypeOK, WorldType
<1>2. CASE start_pxebs(1)
  <2>5. TimerType' /\ SessionType' /\ Trying'
    BY <1>0, <1>2, BootTyped, EnterTyped, FinishTyped DEF States, Codes, TypeOK
  <2> QED BY <1>2, <2>5 DEF start_pxebs, TypeOK, WorldType
<1>3. ASSUME NEW p \in net, dhcp_deliver(p) PROVE TypeOK'
  <2>1. p \in Packets /\ p.yiaddr \in Addr
    BY <1>3 DEF TypeOK, WorldType, Packets
  <2>2. CASE dhcp.state = "discover" /\ dhcp_discovery_rx(p)
    <3>1. Considered(p) \in Sessions /\ Considered(p).state = dhcp.state
      BY <2>1, ConsideredOffer DEF TypeOK
    <3>2. TimerType' /\ SessionType' /\ Trying'
      BY <2>2, <3>1, EnterTyped, FinishTyped
      DEF dhcp_discovery_rx, States, Codes, TypeOK, TimerType, SessionType, Trying
    <3> QED BY <1>3, <2>1, <2>2, <3>2 DEF dhcp_deliver, dhcp_discovery_rx, TypeOK, WorldType
  <2>3. CASE dhcp.state = "request" /\ dhcp_request_rx(p)
    <3> DEFINE d == [dhcp EXCEPT !.local = p.yiaddr]
    <3>1. d \in Sessions /\ dhcp.proxy_offer \in Packets
      BY <2>1, <1>0 DEF Sessions
    <3>2. \/ dhcp_finished(d, "ERROR") \/ dhcp_finished(d, "OK")
          \/ dhcp_set_state(d, "proxy")
      BY <2>3, Zenon DEF dhcp_request_rx
    <3>3. TimerType' /\ SessionType' /\ Trying'
      BY <3>1, <3>2, EnterTyped, FinishTyped DEF States, Codes, TypeOK
    <3>4. settings' \in [dhcp : Packets, proxydhcp : Packets, pxebs : Packets]
      BY <2>1, <2>3, <3>1 DEF dhcp_request_rx, TypeOK, WorldType
    <3> QED BY <1>3, <2>3, <3>3, <3>4 DEF dhcp_deliver, dhcp_request_rx, TypeOK, WorldType
  <2>4. CASE dhcp.state = "proxy" /\ dhcp_proxy_rx(p)
    <3>1. TimerType' /\ SessionType' /\ Trying'
      BY <2>4, <1>0, EnterTyped, FinishTyped DEF dhcp_proxy_rx, States, Codes, TypeOK
    <3> QED BY <1>3, <2>1, <2>4, <3>1 DEF dhcp_deliver, dhcp_proxy_rx, TypeOK, WorldType
  <2>5. CASE dhcp.state = "pxebs" /\ dhcp_pxebs_rx(p)
    <3>1. TimerType' /\ SessionType' /\ Trying'
      BY <2>5, <1>0, EnterTyped, FinishTyped DEF dhcp_pxebs_rx, States, Codes, TypeOK
    <3> QED BY <1>3, <2>1, <2>5, <3>1 DEF dhcp_deliver, dhcp_pxebs_rx, TypeOK, WorldType
  <2> QED BY <1>3, <2>2, <2>3, <2>4, <2>5 DEF dhcp_deliver
<1>4. CASE dhcp_timer_expired
  <2> DEFINE t == 2 * timer.timeout
  <2>1. t \in Nat /\ dhcp.xid \in Nat /\ dhcp.pxe_type \in Nat
    BY <1>0 DEF Sessions
  <2>2. UNCHANGED <<lan, settings, offers>> /\ timer.running
    BY <1>4 DEF dhcp_timer_expired
  <2>3. ASSUME UNCHANGED net, TimerType' /\ SessionType' /\ Trying' PROVE TypeOK'
    BY <2>2, <2>3 DEF TypeOK, WorldType
  <2>4. CASE dhcp_finished(dhcp, "ETIMEDOUT") /\ UNCHANGED net
    BY <2>3, <2>4, <1>0, FinishTyped DEF Codes, TypeOK
  <2>5. CASE dhcp_discovery_expired(t)
    BY <2>1, <2>2, <2>3, <2>5, <1>0, TxTyped, EnterTyped
    DEF dhcp_discovery_expired, dhcp_discovery_tx, Ports, States
  <2>6. CASE dhcp_request_expired(t)
    BY <2>1, <2>2, <2>6, TxTyped DEF dhcp_request_expired, dhcp_request_tx, Ports
  <2>7. CASE dhcp_proxy_expired(t)
    BY <2>1, <2>2, <2>3, <2>7, <1>0, TxTyped, FinishTyped
    DEF dhcp_proxy_expired, dhcp_proxy_tx, Ports, Codes, TypeOK
  <2>8. CASE dhcp_pxebs_expired(t) /\ dhcp.state = "pxebs"
    <3> DEFINE next == [dhcp EXCEPT !.pxe_attempt = Tail(@)]
    <3>1. CASE elapsed > PXEBS_MAX_TIMEOUT
      <4>1. /\ UNCHANGED net
            /\ \/ dhcp_set_state(next, "pxebs") /\ next.pxe_attempt # <<>>
               \/ dhcp_finished(next, "ETIMEDOUT")
        BY <2>8, <3>1, Zenon DEF dhcp_pxebs_expired
      <4>2. dhcp.pxe_attempt \in Seq(Addr) /\ dhcp.pxe_attempt # <<>>
        BY <1>0, <1>4, <2>8 DEF Sessions, TypeOK, Trying, dhcp_timer_expired
      <4>3. Tail(dhcp.pxe_attempt) \in Seq(Addr)
        BY <4>2
      <4>4. next \in Sessions
        BY <1>0, <4>3 DEF Sessions
      <4> QED BY <4>1, <4>4, <2>3, EnterTyped, FinishTyped DEF States, Codes, TypeOK
    <3>2. CASE ~ (elapsed > PXEBS_MAX_TIMEOUT)
      BY <2>1, <2>2, <2>8, <3>2, TxTyped DEF dhcp_pxebs_expired, dhcp_pxebs_tx, Ports
    <3> QED BY <3>1, <3>2
  <2> QED BY <1>4, <2>4, <2>5, <2>6, <2>7, <2>8, Zenon DEF dhcp_timer_expired
<1>5. CASE job_close
  <2>1. TimerType' /\ SessionType' /\ Trying'
    BY <1>5, <1>0, EnterTyped, FinishTyped DEF job_close, States, Codes, TypeOK
  <2> QED BY <1>5, <2>1 DEF job_close, TypeOK, WorldType
<1>6. CASE Tick
  BY <1>6 DEF Tick, TypeOK, TimerType, SessionType, WorldType, Trying
<1>7. CASE UNCHANGED vars
  BY <1>7 DEF vars, TypeOK, TimerType, SessionType, WorldType, Trying
<1> QED BY <1>1, <1>2, <1>3, <1>4, <1>5, <1>6, <1>7 DEF Next

-----------------------------------------------------------------------------
(* The timer.                                                               *)

(* dhcp_set_state() starts the timer at once and changes nothing but the    *)
(* state.                                                                   *)
LEMMA Entered ==
  ASSUME NEW d \in Sessions, NEW state \in States, dhcp_set_state(d, state)
  PROVE  /\ dhcp'.state = state /\ dhcp'.rc = d.rc
         /\ dhcp'.offer = d.offer /\ dhcp'.server = d.server
         /\ dhcp'.priority = d.priority
         /\ d.rc = "INPROGRESS" /\ state # "none" => Timing'
<1>1. /\ dhcp'.state = state /\ dhcp'.rc = d.rc
      /\ dhcp'.offer = d.offer /\ dhcp'.server = d.server
      /\ dhcp'.priority = d.priority
  BY DEF dhcp_set_state, Sessions
<1>2. elapsed' = 0 /\ timer'.waited = 0 /\ timer'.timeout = 0
  BY DEF dhcp_set_state, start_timer_nodelay
<1>3. min_timeout(dhcp.state)' \in Nat /\ Patience(dhcp.state)' \in Nat
  BY TimeoutAssumption DEF min_timeout, Patience
<1> QED BY <1>1, <1>2, <1>3 DEF Timing

(* dhcp_finished() stops the timer and records how the session ended.       *)
LEMMA Finished ==
  ASSUME TimerType, NEW d \in Sessions, NEW rc \in Codes, dhcp_finished(d, rc)
  PROVE  /\ dhcp'.state = d.state /\ dhcp'.rc = rc
         /\ dhcp'.offer = d.offer /\ dhcp'.server = d.server
         /\ dhcp'.priority = d.priority
         /\ dhcp'.pxe_attempt = d.pxe_attempt
         /\ Timing'
<1>1. timer'.running = FALSE
  BY DEF dhcp_finished, TimerType
<1> QED BY <1>1 DEF dhcp_finished, Sessions, Timing

(* A retransmission within the patience of its state keeps Timing: the      *)
(* timer has just run for its whole timeout, so that twice the timeout is   *)
(* no more than the time spent in the state and the minimum.                *)
LEMMA Resent ==
  ASSUME TypeOK, Timing, timer.running, timer.waited >= timer.timeout,
         NEW r, dhcp_tx(r, 2 * timer.timeout),
         GivesUp(dhcp) => elapsed <= Patience(dhcp.state)
  PROVE  Timing' /\ dhcp' = dhcp
<1> DEFINE m == min_timeout(dhcp.state)
<1>1. m \in Nat
  BY TimeoutAssumption DEF min_timeout
<1>2. /\ elapsed \in Nat /\ timer.waited \in Nat /\ timer.timeout \in Nat
      /\ elapsed' = elapsed /\ dhcp' = dhcp
  BY DEF TypeOK, TimerType, dhcp_tx
<1>3. timer'.waited = 0 /\ timer'.timeout \in {m, 2 * timer.timeout}
  BY DEF dhcp_tx, start_timer
<1>4. timer.timeout <= (elapsed - timer.waited) + m
  BY DEF Timing
<1> HIDE DEF m
<1>5. timer'.timeout <= elapsed + m
  BY <1>1, <1>2, <1>3, <1>4
<1> QED BY <1>2, <1>3, <1>5 DEF Timing, GivesUp, m

(* A state that gives up never sees its timer fail.                         *)
LEMMA NoFailure ==
  ASSUME TypeOK, Timing, timer.running, GivesUp(dhcp)
  PROVE  2 * timer.timeout <= DHCP_MAX_TIMEOUT
<1> DEFINE m == min_timeout(dhcp.state)
           w == Patience(dhcp.state)
<1>1. /\ elapsed \in Nat /\ timer.waited \in Nat /\ timer.timeout \in Nat
      /\ m \in Nat /\ w \in Nat /\ 2 * (w + m) <= DHCP_MAX_TIMEOUT
      /\ DHCP_MAX_TIMEOUT \in Nat
  BY TimeoutAssumption DEF TypeOK, TimerType, min_timeout, Patience, GivesUp
<1>2. timer.timeout <= (elapsed - timer.waited) + m /\ elapsed - timer.waited <= w
  BY DEF Timing
<1> HIDE DEF m, w
<1> QED BY <1>1, <1>2

(* What the timer and the timeouts need of a step.                          *)
LEMMA TimingKept ==
  TypeOK /\ Timing /\ TimeoutsJustified /\ [Next]_vars
    => Timing' /\ TimeoutsJustified'
<1> SUFFICES ASSUME TypeOK, Timing, TimeoutsJustified, [Next]_vars
             PROVE  Timing' /\ TimeoutsJustified'
  OBVIOUS
<1>0. dhcp \in Sessions /\ TimerType
  BY DEF TypeOK, SessionType
<1>1. CASE start_dhcp
  <2> DEFINE d == [NoSession EXCEPT !.rc = "INPROGRESS", !.xid = 1]
  <2>1. d \in Sessions /\ d.rc = "INPROGRESS"
    BY FreshTyped DEF NoSession
  <2>2. dhcp_set_state(d, "discover") \/ dhcp_finished(dhcp, "ERROR")
    BY <1>1, Zenon DEF start_dhcp
  <2> HIDE DEF d
  <2> QED BY <1>0, <2>1, <2>2, Entered, Finished DEF TimeoutsJustified, States, Codes
<1>2. CASE start_pxebs(1)
  BY <1>0, <1>2, BootTyped, Entered, Finished DEF TimeoutsJustified, States, Codes
<1>3. ASSUME NEW p \in net, dhcp_deliver(p) PROVE Timing' /\ TimeoutsJustified'
  <2>1. p \in Packets /\ p.yiaddr \in Addr /\ dhcp.rc = "INPROGRESS"
    BY <1>3 DEF TypeOK, WorldType, Packets, dhcp_deliver
  <2>2. CASE dhcp.state = "discover" /\ dhcp_discovery_rx(p)
    <3> DEFINE d == Considered(p)
    <3>1. d \in Sessions /\ d.state = "discover" /\ d.rc = "INPROGRESS"
      BY <2>1, <2>2, ConsideredOffer DEF TypeOK
    <3>2. \/ dhcp_set_state(d, "request")
          \/ /\ dhcp' = d /\ UNCHANGED <<timer, elapsed>>
             /\ d.offer = 0 \/ ~ (elapsed > PROXYDHCP_MAX_TIMEOUT)
      BY <2>2, Zenon DEF dhcp_discovery_rx
    <3> HIDE DEF d
    <3>3. CASE dhcp_set_state(d, "request")
      BY <3>1, <3>3, Entered DEF TimeoutsJustified, States
    <3>4. CASE /\ dhcp' = d /\ UNCHANGED <<timer, elapsed>>
               /\ d.offer = 0 \/ ~ (elapsed > PROXYDHCP_MAX_TIMEOUT)
      <4>1. elapsed \in Nat /\ timer.waited \in Nat /\ PROXYDHCP_MAX_TIMEOUT \in Nat
        BY TimeoutAssumption DEF TypeOK, TimerType
      <4>2. min_timeout(dhcp.state)' = min_timeout(dhcp.state)
        BY <2>2, <3>1, <3>4 DEF min_timeout
      <4> QED BY <2>2, <3>1, <3>4, <4>1, <4>2 DEF Timing, GivesUp, Patience, TimeoutsJustified
    <3> QED BY <3>2, <3>3, <3>4
  <2>3. CASE dhcp.state = "request" /\ dhcp_request_rx(p)
    <3> DEFINE d == [dhcp EXCEPT !.local = p.yiaddr]
    <3>1. d \in Sessions /\ d.rc = "INPROGRESS"
      BY <2>1, <1>0 DEF Sessions
    <3>2. \/ dhcp_finished(d, "ERROR") \/ dhcp_finished(d, "OK")
          \/ dhcp_set_state(d, "proxy")
      BY <2>3, Zenon DEF dhcp_request_rx
    <3> HIDE DEF d
    <3> QED BY <1>0, <3>1, <3>2, Entered, Finished DEF TimeoutsJustified, States, Codes
  <2>4. CASE dhcp.state = "proxy" /\ dhcp_proxy_rx(p)
    BY <1>0, <2>4, Finished DEF dhcp_proxy_rx, TimeoutsJustified, Codes
  <2>5. CASE dhcp.state = "pxebs" /\ dhcp_pxebs_rx(p)
    BY <1>0, <2>5, Finished DEF dhcp_pxebs_rx, TimeoutsJustified, Codes
  <2> QED BY <1>3, <2>2, <2>3, <2>4, <2>5 DEF dhcp_deliver
<1>4. CASE dhcp_timer_expired
  <2> DEFINE t == 2 * timer.timeout
  <2>1. /\ timer.running /\ timer.waited >= timer.timeout
        /\ dhcp.rc = "INPROGRESS" /\ dhcp.state # "none"
    BY <1>4 DEF dhcp_timer_expired, Timing
  <2>2. /\ elapsed \in Nat /\ t \in Nat
        /\ DHCP_MAX_TIMEOUT \in Nat /\ PROXYDHCP_MAX_TIMEOUT \in Nat
        /\ PXEBS_MAX_TIMEOUT \in Nat
    BY TimeoutAssumption DEF TypeOK, TimerType
  <2>3. CASE t > DHCP_MAX_TIMEOUT /\ dhcp_finished(dhcp, "ETIMEDOUT")
    <3>1. ~ GivesUp(dhcp)
      BY <2>1, <2>2, <2>3, NoFailure
    <3>2. dhcp.state \in States
      BY <1>0 DEF Sessions
    <3> QED BY <1>0, <2>1, <2>3, <3>1, <3>2, Finished
            DEF GivesUp, TimeoutsJustified, States, Codes
  <2>4. CASE dhcp.state = "discover" /\ dhcp_discovery_expired(t)
    <3>1. CASE dhcp.offer # 0 /\ elapsed > PROXYDHCP_MAX_TIMEOUT
      BY <1>0, <2>1, <2>4, <3>1, Entered
      DEF dhcp_discovery_expired, TimeoutsJustified, States
    <3>2. CASE ~ (dhcp.offer # 0 /\ elapsed > PROXYDHCP_MAX_TIMEOUT)
      <4>1. dhcp_tx(dhcp_discovery_tx, t)
        BY <2>4, <3>2 DEF dhcp_discovery_expired
      <4>2. GivesUp(dhcp) => elapsed <= Patience(dhcp.state)
        BY <2>2, <2>4, <3>2 DEF GivesUp, Patience
      <4> QED BY <2>1, <4>1, <4>2, Resent DEF TimeoutsJustified
    <3> QED BY <3>1, <3>2
  <2>5. CASE dhcp.state = "request" /\ dhcp_request_expired(t)
    BY <2>1, <2>5, Resent DEF dhcp_request_expired, GivesUp, TimeoutsJustified
  <2>6. CASE dhcp.state = "proxy" /\ dhcp_proxy_expired(t)
    <3>1. CASE elapsed > PROXYDHCP_MAX_TIMEOUT
      BY <1>0, <2>6, <3>1, Finished DEF dhcp_proxy_expired, TimeoutsJustified, Codes
    <3>2. CASE ~ (elapsed > PROXYDHCP_MAX_TIMEOUT)
      <4>1. dhcp_tx(dhcp_proxy_tx, t) /\ elapsed <= Patience(dhcp.state)
        BY <2>2, <2>6, <3>2 DEF dhcp_proxy_expired, Patience
      <4> QED BY <2>1, <4>1, Resent DEF TimeoutsJustified
    <3> QED BY <3>1, <3>2
  <2>7. CASE dhcp.state = "pxebs" /\ dhcp_pxebs_expired(t)
    <3> DEFINE next == [dhcp EXCEPT !.pxe_attempt = Tail(@)]
    <3>1. CASE elapsed > PXEBS_MAX_TIMEOUT
      <4>1. \/ dhcp_set_state(next, "pxebs")
            \/ next.pxe_attempt = <<>> /\ dhcp_finished(next, "ETIMEDOUT")
        BY <2>7, <3>1, Zenon DEF dhcp_pxebs_expired
      <4>2. dhcp.pxe_attempt \in Seq(Addr) /\ dhcp.pxe_attempt # <<>>
        BY <1>0, <2>1, <2>7 DEF Sessions, TypeOK, Trying
      <4>3. Tail(dhcp.pxe_attempt) \in Seq(Addr)
        BY <4>2
      <4>4. next \in Sessions /\ next.rc = "INPROGRESS" /\ next.state = "pxebs"
        BY <1>0, <2>1, <2>7, <4>3 DEF Sessions
      <4> HIDE DEF next
      <4> QED BY <1>0, <4>1, <4>4, Entered, Finished DEF TimeoutsJustified, States, Codes
    <3>2. CASE ~ (elapsed > PXEBS_MAX_TIMEOUT)
      <4>1. dhcp_tx(dhcp_pxebs_tx, t) /\ elapsed <= Patience(dhcp.state)
        BY <2>2, <2>7, <3>2 DEF dhcp_pxebs_expired, Patience
      <4> QED BY <2>1, <4>1, Resent DEF TimeoutsJustified
    <3> QED BY <3>1, <3>2
  <2> QED BY <1>4, <2>3, <2>4, <2>5, <2>6, <2>7, Zenon DEF dhcp_timer_expired
<1>5. CASE job_close
  BY <1>0, <1>5, Finished DEF job_close, TimeoutsJustified, Codes
<1>6. CASE Tick
  <2>1. /\ elapsed \in Nat /\ timer.waited \in Nat /\ timer.running
        /\ elapsed' = elapsed + 1 /\ dhcp' = dhcp
        /\ timer'.waited = timer.waited + 1 /\ timer'.timeout = timer.timeout
    BY <1>6 DEF Tick, TypeOK, TimerType
  <2>2. elapsed' - timer'.waited = elapsed - timer.waited
    BY <2>1
  <2>3. timer'.waited <= elapsed'
    BY <2>1 DEF Timing
  <2> QED BY <2>1, <2>2, <2>3 DEF Timing, GivesUp, TimeoutsJustified
<1>7. CASE UNCHANGED vars
  BY <1>7 DEF vars, Timing, GivesUp, TimeoutsJustified
<1> QED BY <1>1, <1>2, <1>3, <1>4, <1>5, <1>6, <1>7 DEF Next

-----------------------------------------------------------------------------
(* The lease.                                                               *)

(* A step that leaves the offer, the packets considered and the lease alone *)
(* keeps Holding, if it enters no state that Holding says more about.       *)
LEMMA SameOffer ==
  ASSUME Holding, LeaseIsBest, UNCHANGED offers, settings'.dhcp = settings.dhcp,
         dhcp'.offer = dhcp.offer, dhcp'.server = dhcp.server,
         dhcp'.priority = dhcp.priority, dhcp'.rc # "IDLE",
         \/ dhcp'.state = dhcp.state
         \/ dhcp'.state \in {"request", "proxy"} /\ dhcp.offer # 0 /\ dhcp.state # "pxebs"
  PROVE  Holding' /\ LeaseIsBest'
<1>1. LeaseIsBest'
  BY DEF LeaseIsBest
<1>2. Holding'
  BY DEF Holding
<1> QED BY <1>1, <1>2

(* Every step keeps the lease one of the best offers considered.            *)
LEMMA HoldingKept ==
  TypeOK /\ Timing /\ Holding /\ LeaseIsBest /\ [Next]_vars
    => Holding' /\ LeaseIsBest'
<1> SUFFICES ASSUME TypeOK, Timing, Holding, LeaseIsBest, [Next]_vars
             PROVE  Holding' /\ LeaseIsBest'
  OBVIOUS
<1>0. dhcp \in Sessions /\ TimerType
  BY DEF TypeOK, SessionType
<1>1. CASE start_dhcp
  <2> DEFINE d == [NoSession EXCEPT !.rc = "INPROGRESS", !.xid = 1]
  <2>1. d \in Sessions /\ d.rc = "INPROGRESS" /\ d.offer = 0 /\ d.priority = 0
    BY FreshTyped DEF NoSession
  <2>2. /\ dhcp_set_state(d, "discover") \/ dhcp_finished(dhcp, "ERROR")
        /\ dhcp.state = "none" /\ offers = {} /\ settings.dhcp = NoPacket
        /\ UNCHANGED <<settings, offers>>
    BY <1>1, Zenon DEF start_dhcp, Holding
  <2> HIDE DEF d
  <2>3. CASE dhcp_set_state(d, "discover")
    BY <2>1, <2>2, <2>3, Entered DEF Holding, LeaseIsBest, States
  <2>4. CASE dhcp_finished(dhcp, "ERROR")
    BY <1>0, <2>2, <2>4, Finished, SameOffer DEF Codes
  <2> QED BY <2>2, <2>3, <2>4
<1>2. CASE start_pxebs(1)
  <2>1. UNCHANGED <<settings, offers>>
    BY <1>2 DEF start_pxebs
  <2>2. CASE dhcp_set_state(BootSession, "pxebs")
    BY <1>2, <2>1, <2>2, BootTyped, Entered DEF Holding, LeaseIsBest, States
  <2>3. CASE dhcp_finished(dhcp, "ERROR")
    BY <1>0, <2>1, <2>3, Finished, SameOffer DEF Codes
  <2> QED BY <1>2, <2>2, <2>3, BootTyped
<1>3. ASSUME NEW p \in net, dhcp_deliver(p) PROVE Holding' /\ LeaseIsBest'
  <2>1. p \in Packets /\ p.yiaddr \in Addr /\ dhcp.rc = "INPROGRESS"
    BY <1>3 DEF TypeOK, WorldType, Packets, dhcp_deliver
  <2>2. CASE dhcp.state = "discover" /\ dhcp_discovery_rx(p)
    <3> DEFINE d == Considered(p)
               better == IsOffer(p) /\ p.priority >= dhcp.priority
    <3>1. /\ d \in Sessions /\ d.state = "discover" /\ d.rc = "INPROGRESS"
          /\ better => /\ d.offer = p.yiaddr /\ d.server = p.id
                       /\ d.priority = p.priority
          /\ ~ better => /\ d.offer = dhcp.offer /\ d.server = dhcp.server
                         /\ d.priority = dhcp.priority
      BY <2>1, <2>2, ConsideredOffer DEF TypeOK
    <3>2. \/ dhcp_set_state(d, "request") /\ d.offer # 0
          \/ dhcp' = d
      BY <2>2, Zenon DEF dhcp_discovery_rx
    <3> HIDE DEF d
    <3>3. /\ dhcp'.offer = d.offer /\ dhcp'.server = d.server
          /\ dhcp'.priority = d.priority /\ dhcp'.rc = "INPROGRESS"
          /\ dhcp'.state \in {"discover", "request"}
          /\ dhcp'.state = "request" => d.offer # 0
      BY <3>1, <3>2, Entered DEF States
    <3>4. /\ offers' = offers \cup {p} /\ UNCHANGED settings
          /\ settings.dhcp = NoPacket
      BY <2>2 DEF dhcp_discovery_rx, Holding
    <3>5. /\ dhcp.priority \in Int /\ p.priority \in Int
          /\ \A q \in offers : q.priority \in Int
      BY <1>0, <2>1 DEF Sessions, Packets, TypeOK, WorldType
    <3>6. /\ d.priority >= 0
          /\ \A q \in offers' : IsOffer(q) => q.priority <= d.priority
      BY <2>2, <3>1, <3>4, <3>5 DEF Holding
    <3>7. d.offer # 0 =>
            \E o \in offers' : /\ IsOffer(o) /\ o.priority = d.priority
                               /\ o.yiaddr = d.offer /\ o.id = d.server
      BY <2>2, <3>1, <3>4 DEF Holding
    <3> QED BY <3>3, <3>4, <3>6, <3>7 DEF Holding, LeaseIsBest
  <2>3. CASE dhcp.state = "request" /\ dhcp_request_rx(p)
    <3> DEFINE d == [dhcp EXCEPT !.local = p.yiaddr]
    <3>1. /\ d \in Sessions /\ d.rc = "INPROGRESS" /\ d.state = "request"
          /\ d.offer = dhcp.offer /\ d.server = dhcp.server
          /\ d.priority = dhcp.priority
      BY <2>1, <2>3, <1>0 DEF Sessions
    <3>2. \/ dhcp_finished(d, "ERROR") \/ dhcp_finished(d, "OK")
          \/ dhcp_set_state(d, "proxy")
      BY <2>3, Zenon DEF dhcp_request_rx
    <3> HIDE DEF d
    <3>3. /\ dhcp'.offer = dhcp.offer /\ dhcp'.server = dhcp.server
          /\ dhcp'.priority = dhcp.priority /\ dhcp'.rc # "IDLE"
          /\ dhcp'.state \in {"request", "proxy"}
      BY <1>0, <3>1, <3>2, Entered, Finished DEF States, Codes
    <3>4. /\ p.id = dhcp.server /\ p.yiaddr = dhcp.offer /\ UNCHANGED offers
          /\ dhcp.offer # 0
      BY <2>3 DEF dhcp_request_rx, Holding
    <3>5. settings'.dhcp \in {settings.dhcp, p}
      BY <2>3 DEF dhcp_request_rx, TypeOK, WorldType
    <3>6. CASE settings'.dhcp = settings.dhcp
      BY <2>3, <3>3, <3>4, <3>6, SameOffer
    <3>7. CASE settings'.dhcp = p
      <4>1. Holding'
        BY <2>3, <3>3, <3>4 DEF Holding
      <4>2. PICK o \in offers : /\ IsOffer(o) /\ o.priority = dhcp.priority
                                /\ o.yiaddr = dhcp.offer /\ o.id = dhcp.server
        BY <2>3, <3>4 DEF Holding
      <4>3. /\ o.priority >= 0
            /\ \A q \in offers : IsOffer(q) => q.priority <= o.priority
        BY <2>3, <4>2 DEF Holding
      <4> QED BY <3>4, <3>7, <4>1, <4>2, <4>3 DEF LeaseIsBest
    <3> QED BY <3>5, <3>6, <3>7
  <2>4. CASE dhcp.state = "proxy" /\ dhcp_proxy_rx(p)
    <3>1. settings'.dhcp = settings.dhcp /\ UNCHANGED offers
      BY <2>4 DEF dhcp_proxy_rx, TypeOK, WorldType
    <3> QED BY <1>0, <2>4, <3>1, Finished, SameOffer DEF dhcp_proxy_rx, Codes
  <2>5. CASE dhcp.state = "pxebs" /\ dhcp_pxebs_rx(p)
    <3>1. settings'.dhcp = settings.dhcp /\ UNCHANGED offers
      BY <2>5 DEF dhcp_pxebs_rx, TypeOK, WorldType
    <3> QED BY <1>0, <2>5, <3>1, Finished, SameOffer DEF dhcp_pxebs_rx, Codes
  <2> QED BY <1>3, <2>2, <2>3, <2>4, <2>5 DEF dhcp_deliver
<1>4. CASE dhcp_timer_expired
  <2> DEFINE t == 2 * timer.timeout
  <2>1. UNCHANGED <<settings, offers>> /\ dhcp.rc = "INPROGRESS" /\ timer.running
    BY <1>4 DEF dhcp_timer_expired, Timing
  <2>2. ASSUME NEW r, dhcp_tx(r, t) PROVE Holding' /\ LeaseIsBest'
    BY <2>1, <2>2, SameOffer DEF dhcp_tx
  <2>3. ASSUME NEW rc \in {"OK", "ETIMEDOUT"}, dhcp_finished(dhcp, rc)
        PROVE  Holding' /\ LeaseIsBest'
    BY <1>0, <2>1, <2>3, Finished, SameOffer DEF Codes
  <2>4. CASE dhcp.state = "discover" /\ dhcp_discovery_expired(t)
    <3>1. ASSUME dhcp.offer # 0, dhcp_set_state(dhcp, "request")
          PROVE  Holding' /\ LeaseIsBest'
      BY <1>0, <2>1, <2>4, <3>1, Entered, SameOffer DEF States
    <3> QED BY <2>2, <2>4, <3>1, Zenon DEF dhcp_discovery_expired
  <2>5. CASE dhcp_request_expired(t)
    BY <2>2, <2>5 DEF dhcp_request_expired
  <2>6. CASE dhcp_proxy_expired(t)
    BY <2>2, <2>3, <2>6 DEF dhcp_proxy_expired
  <2>7. CASE dhcp.state = "pxebs" /\ dhcp_pxebs_expired(t)
    <3> DEFINE next == [dhcp EXCEPT !.pxe_attempt = Tail(@)]
    <3>1. \/ dhcp_set_state(next, "pxebs") \/ dhcp_finished(next, "ETIMEDOUT")
          \/ dhcp_tx(dhcp_pxebs_tx, t)
      BY <2>7, Zenon DEF dhcp_pxebs_expired
    <3>2. dhcp.pxe_attempt \in Seq(Addr) /\ dhcp.pxe_attempt # <<>>
      BY <1>0, <2>1, <2>7 DEF Sessions, TypeOK, Trying
    <3>3. Tail(dhcp.pxe_attempt) \in Seq(Addr)
      BY <3>2
    <3>4. /\ next \in Sessions /\ next.rc = "INPROGRESS" /\ next.state = "pxebs"
          /\ next.offer = dhcp.offer /\ next.server = dhcp.server
          /\ next.priority = dhcp.priority
      BY <1>0, <2>1, <2>7, <3>3 DEF Sessions
    <3> HIDE DEF next
    <3> QED BY <1>0, <2>1, <2>2, <2>7, <3>1, <3>4, Entered, Finished, SameOffer
            DEF States, Codes
  <2> QED BY <1>4, <2>3, <2>4, <2>5, <2>6, <2>7, Zenon DEF dhcp_timer_expired
<1>5. CASE job_close
  BY <1>0, <1>5, Finished, SameOffer DEF job_close, Codes
<1>6. CASE Tick
  BY <1>6 DEF Tick, Holding, LeaseIsBest
<1>7. CASE UNCHANGED vars
  BY <1>7 DEF vars, Holding, LeaseIsBest
<1> QED BY <1>1, <1>2, <1>3, <1>4, <1>5, <1>6, <1>7 DEF Next

-----------------------------------------------------------------------------
(* The inductive invariant holds in every reachable state.                  *)
THEOREM Invariance == Spec => []IInv
<1>1. Init => IInv
  <2> SUFFICES ASSUME Init PROVE IInv
    OBVIOUS
  <2>1. NoSession \in Sessions
    BY AddrAssumption, NoPacketTyped DEF NoSession, Sessions, States, Codes
  <2>2. TypeOK
    BY <2>1, NoPacketTyped
    DEF Init, TypeOK, TimerType, SessionType, WorldType, Trying
  <2>3. Timing /\ TimeoutsJustified
    BY DEF Init, Timing, TimeoutsJustified, NoSession
  <2>4. Holding /\ LeaseIsBest
    BY DEF Init, Holding, LeaseIsBest, NoSession
  <2> QED BY <2>2, <2>3, <2>4 DEF IInv
<1>2. IInv /\ [Next]_vars => IInv'
  BY TypesKept, TimingKept, HoldingKept DEF IInv
<1> QED BY <1>1, <1>2, PTL DEF Spec

(* For every network, every lateness of the poll and every choice of        *)
(* timeouts that keeps the give-up times below the failure point, no        *)
(* session times out while it holds an offer in discovery, while it waits   *)
(* for ProxyDHCP, or with boot servers left to try.                         *)
THEOREM NoHastyTimeout == Spec => []TimeoutsJustified
<1>1. IInv => TimeoutsJustified
  BY DEF IInv
<1> QED BY <1>1, Invariance, PTL

(* For every network, what is registered as the lease is the answer of a    *)
(* server whose offer no other offer considered outranks.                   *)
THEOREM BestLease == Spec => []LeaseIsBest
<1>1. IInv => LeaseIsBest
  BY DEF IInv
<1> QED BY <1>1, Invariance, PTL

=============================================================================
