------------------------------ MODULE MCTcpPeer ------------------------------
(* Surroundings for TcpPeer. *)
EXTENDS TcpPeer

\* A peer that may close its window or reset, a network that may refuse packets.
Hostile == [PeerBytes |-> 2, PeerWindows |-> {0, 2}, WriteLens |-> {2}, AppWindows |-> {1, 4},
            Enough |-> 3, Failures |-> {"none", "tcpip_tx"}, MayReset |-> TRUE]

\* A longer stream between two that go on.
Patient == [PeerBytes |-> 4, PeerWindows |-> {2}, WriteLens |-> {1, 2}, AppWindows |-> {3},
            Enough |-> 9, Failures |-> {"none"}, MayReset |-> FALSE]

MCSettings == {Hostile, Patient}
=============================================================================
