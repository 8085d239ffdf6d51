----------------------------- MODULE MCIpStack -----------------------------
(* A small instance of IpStack: two devices are up, the second one with a *)
(* gateway, and two datagrams with the same id from different senders,     *)
(* long enough that a reassembly buffer is extended and still waits.       *)
EXTENDS IpStack

MCSettings ==
  [d \in Devices |->
     IF d = "net0" THEN {Unset, [ip |-> 2, netmask |-> NO_MASK, gateway |-> NO_ADDR]}
     ELSE IF d = "net1" THEN {[ip |-> 9, netmask |-> 1, gateway |-> 8]}
     ELSE {}]

MCBooted == <<"net0", "net1">>

MCDatagrams == <<[src |-> 3, ident |-> 1, len |-> 3],
                 [src |-> 4, ident |-> 1, len |-> 3]>>
=============================================================================
