----------------------------- MODULE MCTcpNet -----------------------------
(* Two hosts and a network, small enough for TLC.                          *)
EXTENDS TcpNet, TLC

CONSTANTS ClientEnough, ServerEnough

MCEnough == [h \in Hosts |-> IF h \in Clients THEN ClientEnough ELSE ServerEnough]

MCISS == [h \in Hosts |-> <<14, 6, 10, 2>>]

=============================================================================
