---------------------------- MODULE MCRetryTimer ----------------------------
(* Instances of RetryTimer for TLC. *)
EXTENDS RetryTimer, TLC

CONSTANTS t1, t2, Floor, Ceiling

MCMinTimeout == [t \in Timers |-> Floor]
MCMaxTimeout == [t \in Timers |-> Ceiling]
=============================================================================
