------------------------------- MODULE MCDhcp -------------------------------
(***************************************************************************)
(* Small networks for Dhcp.  Time is in quarters of a second, in which the  *)
(* code's timeouts are 1 s, 10 s, 1/4 s, 2 s and 3 s.                       *)
(***************************************************************************)
EXTENDS Dhcp, TLC

Plain ==
    [ip |-> 0, priority |-> 0, no_pxedhcp |-> FALSE, pxeclient |-> FALSE,
     pxeopts |-> FALSE, bootp |-> FALSE, refuses |-> FALSE, noid |-> FALSE]

Proxy == [Plain EXCEPT !.pxeclient = TRUE]

Lan(server) ==
    [server |-> server, mcast |-> 0, bcast |-> TRUE, known |-> FALSE,
     list |-> <<>>]

(* Two DHCP servers of different rank, and a proxy that has to be asked.    *)
Ranked ==
    [Lan(1 :> [Plain EXCEPT !.ip = 11]
         @@ 2 :> [Plain EXCEPT !.ip = 12, !.priority = 1]
         @@ 3 :> Proxy)
     EXCEPT !.mcast = 9, !.known = TRUE, !.list = <<3>>]

(* A BOOTP server and two proxies that put their options in the offer.      *)
OldStyle ==
    Lan(1 :> [Plain EXCEPT !.ip = 11, !.bootp = TRUE]
        @@ 2 :> [Proxy EXCEPT !.pxeopts = TRUE]
        @@ 3 :> [Proxy EXCEPT !.pxeopts = TRUE, !.priority = 1, !.refuses = TRUE])

(* A server that answers for PXE itself, one that says to ignore proxies    *)
(* but refuses leases, and a proxy that omits its identifier.               *)
Mixed ==
    [Lan(1 :> [Proxy EXCEPT !.ip = 11]
         @@ 2 :> [Plain EXCEPT !.ip = 12, !.no_pxedhcp = TRUE, !.refuses = TRUE]
         @@ 3 :> [Proxy EXCEPT !.noid = TRUE, !.priority = 1])
     EXCEPT !.bcast = FALSE]

(* A server whose offers carry a negative priority, and nobody else.        *)
Shunned == Lan(1 :> [Plain EXCEPT !.ip = 11, !.priority = -1])

MCAddr == 0..3 \cup {9, 11, 12, 255}
MCLans == {Ranked, OldStyle, Mixed, Shunned}

=============================================================================
